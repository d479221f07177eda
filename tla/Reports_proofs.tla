--------------------------- MODULE Reports_proofs ---------------------------
(***************************************************************************)
(* Proofs about what the library reports: the calls its profiler counts    *)
(* and the text it prints.  What a loop computes is reasoned about as a    *)
(* run of states, which is unique and of which the least bad one, if any,  *)
(* is looked at.                                                           *)
(***************************************************************************)
EXTENDS Library, SequenceTheorems, FiniteSetTheorems, WellFoundedInduction, TLAPS

\* A step of the library is a step of the profiler or of the printing, or leaves
\* them alone.
LEMMA ReportSteps ==
  ASSUME [Next]_libraryVars
  PROVE  [ProfileNext]_profileVars /\ [PrintNext]_printVars
<1>1. CASE UNCHANGED libraryVars
  BY <1>1 DEF libraryVars
<1>2. CASE Next
  BY <1>2, Zenon DEF Next
<1>. QED
  BY <1>1, <1>2

-----------------------------------------------------------------------------
(* Arithmetic *)

LEMMA ProductGrows ==
  ASSUME NEW a \in Nat, NEW b \in Nat, NEW n \in Nat, a <= b
  PROVE  /\ a * n \in Nat /\ b * n \in Nat /\ a * n <= b * n
         /\ n * a \in Nat /\ n * b \in Nat /\ n * a <= n * b
OBVIOUS

LEMMA Distributes ==
  ASSUME NEW r \in Nat, NEW p \in Nat, NEW u \in Nat, NEW l \in Nat
  PROVE  (r * p + u) * l = r * (p * l) + u * l
OBVIOUS

LEMMA Division ==
  ASSUME NEW a \in Nat, NEW n \in Nat \ {0}
  PROVE  /\ a \div n \in Nat /\ a % n \in 0 .. n - 1
         /\ a = (a \div n) * n + (a % n)
OBVIOUS

\* There is one quotient and one remainder.
LEMMA DivisionUnique ==
  ASSUME NEW q \in Int, NEW n \in Nat \ {0}, NEW r \in 0 .. n - 1
  PROVE  (q * n + r) \div n = q /\ (q * n + r) % n = r
OBVIOUS

\* A set of natural numbers has a least one.
LEMMA Smallest ==
  ASSUME NEW T \in SUBSET Nat, T # {}
  PROVE  Min(T) \in T /\ \A y \in T : Min(T) <= y
<1>1. \E x \in T : \A y \in T : ~(<<y, x>> \in OpToRel(<, Nat))
  BY NatLessThanWellFounded, WFMin, Zenon
<1>2. \A x, y \in Nat : y < x => <<y, x>> \in OpToRel(<, Nat)
  BY DEF OpToRel
<1>3. PICK x \in T : \A y \in T : ~(y < x)
  BY <1>1, <1>2
<1>4. \A y \in T : x \in Int /\ y \in Int
  OBVIOUS
<1>5. x \in T /\ \A y \in T : x <= y
  BY <1>3, <1>4
<1>. QED
  BY <1>5, Zenon DEF Min

-----------------------------------------------------------------------------
(* Sums over finite sets *)

\* The same of the subsets of a finite set: there is one of the fewest elements.
LEMMA Fewest ==
  ASSUME NEW D, IsFiniteSet(D), NEW Q \in SUBSET SUBSET D, Q # {}
  PROVE  \E T \in Q : \A U \in Q : U \subseteq T => U = T
<1> DEFINE sizes == {Cardinality(T) : T \in Q}
<1>1. \A T \in Q : IsFiniteSet(T) /\ Cardinality(T) \in Nat
  BY FS_Subset, FS_CardinalityType
<1>2. sizes \in SUBSET Nat /\ sizes # {}
  BY <1>1
<1> HIDE DEF sizes
<1>3. Min(sizes) \in sizes /\ \A y \in sizes : Min(sizes) <= y
  BY <1>2, Smallest, Zenon
<1>4. PICK T \in Q : Cardinality(T) = Min(sizes)
  BY <1>3 DEF sizes
<1>5. \A U \in Q : Cardinality(T) <= Cardinality(U)
  BY <1>3, <1>4 DEF sizes
<1>6. ASSUME NEW U \in Q, U \subseteq T PROVE U = T
  <2>1. Cardinality(U) <= Cardinality(T) /\ (Cardinality(T) = Cardinality(U) => T = U)
    BY <1>1, <1>6, FS_Subset
  <2>. QED
    BY <1>1, <1>5, <2>1
<1>. QED
  BY <1>6

\* A recursion over the subsets of D that takes one element after the other away.
Picks(pick, D) == \A s \in SUBSET D : s # {} => pick[s] \in s
Maps(F, D, V) == \A x \in D, v \in V : F[<<x, v>>] \in V
Recursion(g, D, V, base, pick, F) ==
  /\ g \in [SUBSET D -> V]
  /\ \A s \in SUBSET D : g[s] = IF s = {} THEN base ELSE F[<<pick[s], g[s \ {pick[s]}]>>]

\* It is well defined.
LEMMA RecursionOnSubsets ==
  ASSUME NEW D, IsFiniteSet(D), NEW V, NEW base \in V,
         NEW pick, Picks(pick, D), NEW F, Maps(F, D, V)
  PROVE  \E g : Recursion(g, D, V, base, pick, F)
<1> USE DEF Picks, Maps
<1> DEFINE Small(n) == {s \in SUBSET D : Cardinality(s) <= n}
           Partial(g, n) == /\ g \in [Small(n) -> V]
                         /\ \A s \in Small(n) :
                              g[s] = IF s = {} THEN base
                                     ELSE F[<<pick[s], g[s \ {pick[s]}]>>]
           bad == {n \in Nat : ~ \E g : Partial(g, n)}
<1>1. \A s \in SUBSET D : IsFiniteSet(s) /\ Cardinality(s) \in Nat
  BY FS_Subset, FS_CardinalityType
<1>2. ASSUME NEW s \in SUBSET D, s # {}
      PROVE  /\ s \ {pick[s]} \in SUBSET D
             /\ Cardinality(s \ {pick[s]}) = Cardinality(s) - 1 /\ Cardinality(s) # 0
  BY <1>1, <1>2, FS_RemoveElement, FS_EmptySet
<1>3. ASSUME bad # {} PROVE FALSE
  <2> DEFINE n == Min(bad)
  <2>1. n \in bad /\ \A y \in bad : n <= y
    BY <1>3, Smallest
  <2> HIDE DEF n
  <2>2. CASE n = 0
    <3> DEFINE g == [s \in Small(0) |-> base]
    <3>1. \A s \in Small(0) : s = {}
      BY <1>1, FS_EmptySet
    <3>2. Partial(g, 0)
      BY <3>1
    <3>. QED
      BY <2>1, <2>2, <3>2
  <2>3. CASE n # 0
    <3>1. n - 1 \in Nat /\ n - 1 \notin bad
      <4>1. n \in Nat /\ \A y \in bad : n <= y /\ y \in Nat
        BY <2>1
      <4> HIDE DEF bad
      <4>. QED
        BY <2>3, <4>1
    <3>2. PICK g : Partial(g, n - 1)
      BY <3>1
    <3> DEFINE h == [s \in Small(n) |-> IF s = {} THEN base
                                        ELSE F[<<pick[s], g[s \ {pick[s]}]>>]]
    <3>3. \A s \in Small(n) : s # {} => s \ {pick[s]} \in Small(n - 1) /\ pick[s] \in D
      <4> SUFFICES ASSUME NEW s \in Small(n), s # {}
                   PROVE  s \ {pick[s]} \in Small(n - 1) /\ pick[s] \in D
        OBVIOUS
      <4>. QED
        BY <1>1, <1>2, <2>1
    <3>4. \A s \in Small(n - 1) : s \in Small(n) /\ h[s] = g[s]
      BY <1>1, <2>1, <3>2
    <3>5. h \in [Small(n) -> V]
      BY <3>2, <3>3
    <3>6. \A s \in Small(n) : s # {} => h[s \ {pick[s]}] = g[s \ {pick[s]}]
      BY <3>3, <3>4
    <3>7. Partial(h, n)
      BY <3>5, <3>6
    <3>. QED
      BY <2>1, <3>7
  <2>. QED
    BY <2>2, <2>3
<1> DEFINE m == Cardinality(D)
<1>4. m \in Nat /\ m \notin bad
  BY <1>1, <1>3
<1>5. PICK g : Partial(g, m)
  BY <1>4
<1>6. Small(m) = SUBSET D
  BY FS_Subset
<1> HIDE DEF m, bad
<1>. QED
  BY <1>5, <1>6 DEF Recursion

\* The sum over a finite set is what the recursion of the library computes.
SumsOf(g, fun, D) ==
  /\ g \in [SUBSET D -> Int]
  /\ \A s \in SUBSET D :
       g[s] = IF s = {} THEN 0
              ELSE fun[CHOOSE x \in s : TRUE] + g[s \ {CHOOSE x \in s : TRUE}]

LEMMA SumIsRun ==
  ASSUME NEW D, IsFiniteSet(D), NEW fun, \A x \in D : fun[x] \in Int
  PROVE  \E g : SumsOf(g, fun, D) /\ SumFunctionOnSet(fun, D) = g[D]
<1> DEFINE pick == [s \in SUBSET D |-> CHOOSE x \in s : TRUE]
           F == [p \in D \X Int |-> fun[p[1]] + p[2]]
           Body(it) == [s \in SUBSET D |->
                          IF s = {} THEN 0
                          ELSE fun[CHOOSE x \in s : TRUE] + it[s \ {CHOOSE x \in s : TRUE}]]
           iter == CHOOSE it : it = Body(it)
<1>1. \A s \in SUBSET D : s # {} => pick[s] \in s /\ pick[s] = CHOOSE x \in s : TRUE
  OBVIOUS
<1>2. \A x \in D, v \in Int : F[<<x, v>>] = fun[x] + v /\ F[<<x, v>>] \in Int
  OBVIOUS
<1> HIDE DEF pick, F
<1>3. PICK g \in [SUBSET D -> Int] : \A s \in SUBSET D :
        g[s] = IF s = {} THEN 0 ELSE F[<<pick[s], g[s \ {pick[s]}]>>]
  <2>1. Picks(pick, D) /\ Maps(F, D, Int)
    BY <1>1, <1>2 DEF Picks, Maps
  <2>2. 0 \in Int
    OBVIOUS
  <2>3. \E g : Recursion(g, D, Int, 0, pick, F)
    BY <2>1, <2>2, RecursionOnSubsets, Zenon
  <2>. QED
    BY <2>3 DEF Recursion
<1>4. g = Body(g)
  <2>1. ASSUME NEW s \in SUBSET D PROVE g[s] = Body(g)[s]
    <3> DEFINE x == CHOOSE x \in s : TRUE
    <3>1. CASE s = {}
      BY <1>3, <3>1
    <3>2. CASE s # {}
      <4>1. pick[s] = x /\ x \in D /\ s \ {x} \in SUBSET D
        BY <1>1, <3>2
      <4>2. g[s] = F[<<x, g[s \ {x}]>>] /\ g[s \ {x}] \in Int
        BY <1>3, <3>2, <4>1
      <4>3. g[s] = fun[x] + g[s \ {x}]
        BY <1>2, <4>1, <4>2
      <4>. QED
        BY <3>2, <4>3
    <3>. QED
      BY <3>1, <3>2
  <2>. QED
    BY <1>3, <2>1
<1>5. iter = Body(iter)
  BY <1>4
<1>6. SumFunctionOnSet(fun, D) = iter[D]
  BY DEF SumFunctionOnSet, FoldFunctionOnSet, MapThenFoldSet
<1>7. SumsOf(iter, fun, D)
  <2> HIDE DEF iter
  <2>1. \A s \in SUBSET D :
          iter[s] = IF s = {} THEN 0
                    ELSE fun[CHOOSE x \in s : TRUE] + iter[s \ {CHOOSE x \in s : TRUE}]
    BY <1>5
  <2>2. iter = [s \in SUBSET D |-> iter[s]]
    BY <1>5
  <2> DEFINE odd == {s \in SUBSET D : iter[s] \notin Int}
  <2>3. ASSUME odd # {} PROVE FALSE
    <3>1. PICK s \in odd : \A u \in odd : u \subseteq s => u = s
      <4>1. odd \in SUBSET SUBSET D
        OBVIOUS
      <4> HIDE DEF odd
      <4>. QED
        BY <4>1, <2>3, Fewest
    <3> DEFINE x == CHOOSE x \in s : TRUE
    <3>2. CASE s = {}
      BY <2>1, <3>2
    <3>3. CASE s # {}
      <4>1. x \in s /\ x \in D /\ s \ {x} \in SUBSET D /\ s \ {x} # s /\ s \ {x} \subseteq s
        BY <3>3
      <4>2. iter[s \ {x}] \in Int
        BY <3>1, <4>1
      <4>3. iter[s] = fun[x] + iter[s \ {x}]
        BY <2>1, <3>3
      <4>. QED
        BY <4>1, <4>2, <4>3
    <3>. QED
      BY <3>2, <3>3
  <2>. QED
    BY <2>1, <2>2, <2>3 DEF SumsOf
<1>. QED
  BY <1>6, <1>7

LEMMA SumOf ==
  ASSUME NEW D, IsFiniteSet(D), NEW fun, \A x \in D : fun[x] \in Int,
         NEW T \in SUBSET D
  PROVE  /\ SumFunctionOnSet(fun, T) \in Int
         /\ T = {} => SumFunctionOnSet(fun, T) = 0
         /\ T # {} => \E x \in T : SumFunctionOnSet(fun, T)
                                  = fun[x] + SumFunctionOnSet(fun, T \ {x})
<1>1. PICK g : SumsOf(g, fun, D)
  BY SumIsRun
<1>2. ASSUME NEW U \in SUBSET D PROVE SumFunctionOnSet(fun, U) = g[U]
  <2>1. IsFiniteSet(U) /\ \A x \in U : fun[x] \in Int
    BY <1>2, FS_Subset
  <2>2. PICK h : SumsOf(h, fun, U) /\ SumFunctionOnSet(fun, U) = h[U]
    BY <2>1, SumIsRun
  <2> DEFINE odd == {s \in SUBSET U : h[s] # g[s]}
  <2>3. ASSUME odd # {} PROVE FALSE
    <3>1. PICK s \in odd : \A u \in odd : u \subseteq s => u = s
      <4>1. odd \in SUBSET SUBSET U
        OBVIOUS
      <4> HIDE DEF odd
      <4>. QED
        BY <4>1, <2>1, <2>3, Fewest
    <3> DEFINE x == CHOOSE x \in s : TRUE
    <3>2. CASE s = {}
      BY <1>1, <2>2, <3>2 DEF SumsOf
    <3>3. CASE s # {}
      <4>1. x \in s /\ s \in SUBSET U /\ s \in SUBSET D
            /\ s \ {x} \in SUBSET U /\ s \ {x} # s /\ s \ {x} \subseteq s
        BY <3>3
      <4>2. h[s \ {x}] = g[s \ {x}]
        BY <3>1, <4>1
      <4>3. h[s] = fun[x] + h[s \ {x}] /\ g[s] = fun[x] + g[s \ {x}]
        BY <1>1, <2>2, <3>3, <4>1 DEF SumsOf
      <4>. QED
        BY <4>1, <4>2, <4>3
    <3>. QED
      BY <3>2, <3>3
  <2>. QED
    BY <2>2, <2>3
<1>3. T # {} => T \ {CHOOSE x \in T : TRUE} \in SUBSET D
  OBVIOUS
<1>4. g[T] \in Int /\ g[T] = IF T = {} THEN 0
              ELSE fun[CHOOSE x \in T : TRUE] + g[T \ {CHOOSE x \in T : TRUE}]
  BY <1>1 DEF SumsOf
<1>5. ASSUME T # {}
      PROVE  \E x \in T : SumFunctionOnSet(fun, T) = fun[x] + SumFunctionOnSet(fun, T \ {x})
  <2> DEFINE x == CHOOSE x \in T : TRUE
  <2>1. x \in T /\ T \ {x} \in SUBSET D /\ g[T] = fun[x] + g[T \ {x}]
    BY <1>4, <1>5
  <2> HIDE DEF x
  <2>2. SumFunctionOnSet(fun, T) = g[T] /\ SumFunctionOnSet(fun, T \ {x}) = g[T \ {x}]
    BY <1>2, <2>1
  <2>. QED
    BY <2>1, <2>2
<1>6. T = {} => g[T] = 0
  BY <1>4
<1>7. g[T] \in Int /\ SumFunctionOnSet(fun, T) = g[T]
  BY <1>2, <1>4
<1>. QED
  BY <1>5, <1>6, <1>7

\* A sum can be taken apart at any element.
LEMMA SumAt ==
  ASSUME NEW D, IsFiniteSet(D), NEW fun, \A x \in D : fun[x] \in Int, NEW x \in D
  PROVE  SumFunctionOnSet(fun, D) = fun[x] + SumFunctionOnSet(fun, D \ {x})
<1> DEFINE Sum(T) == SumFunctionOnSet(fun, T)
           odd == {T \in SUBSET D : \E y \in T : Sum(T) # fun[y] + Sum(T \ {y})}
<1>1. ASSUME NEW T \in SUBSET D
      PROVE  /\ Sum(T) \in Int
             /\ T # {} => \E c \in T : Sum(T) = fun[c] + Sum(T \ {c})
  BY SumOf
<1> HIDE DEF Sum
<1>2. ASSUME odd # {} PROVE FALSE
  <2>1. PICK T \in odd : \A U \in odd : U \subseteq T => U = T
    <3>1. odd \in SUBSET SUBSET D
      OBVIOUS
    <3> HIDE DEF odd
    <3>. QED
      BY <1>2, <3>1, Fewest
  <2>2. PICK y \in T : Sum(T) # fun[y] + Sum(T \ {y})
    BY <2>1
  <2>3. PICK c \in T : T \in SUBSET D /\ Sum(T) = fun[c] + Sum(T \ {c})
    BY <1>1, <2>1, <2>2
  <2>4. c # y
    BY <2>2, <2>3
  <2>5. \A U \in SUBSET D : U \subseteq T /\ U # T =>
          \A z \in U : Sum(U) = fun[z] + Sum(U \ {z})
    BY <2>1
  <2>6. Sum(T \ {c}) = fun[y] + Sum((T \ {c}) \ {y})
    BY <2>2, <2>3, <2>4, <2>5
  <2>7. Sum(T \ {y}) = fun[c] + Sum((T \ {y}) \ {c})
    BY <2>2, <2>3, <2>4, <2>5
  <2>8. (T \ {c}) \ {y} = (T \ {y}) \ {c} /\ (T \ {y}) \ {c} \in SUBSET D
    BY <2>3
  <2>9. Sum((T \ {y}) \ {c}) \in Int /\ fun[c] \in Int /\ fun[y] \in Int
    BY <1>1, <2>2, <2>3, <2>8
  <2> DEFINE rest == Sum((T \ {y}) \ {c})
  <2>10. Sum(T \ {c}) = fun[y] + rest /\ Sum(T \ {y}) = fun[c] + rest
         /\ rest \in Int /\ fun[c] \in Int /\ fun[y] \in Int
    BY <2>6, <2>7, <2>8, <2>9
  <2> HIDE DEF rest
  <2>11. Sum(T) = fun[c] + (fun[y] + rest) /\ fun[y] + Sum(T \ {y}) = fun[y] + (fun[c] + rest)
    BY <2>3, <2>10
  <2>12. fun[c] + (fun[y] + rest) = fun[y] + (fun[c] + rest)
    BY <2>10
  <2>. QED
    BY <2>2, <2>11, <2>12
<1>. QED
  BY <1>2 DEF Sum

\* It depends on the values at the elements only.
LEMMA SumSame ==
  ASSUME NEW D, IsFiniteSet(D), NEW f, \A x \in D : f[x] \in Int,
         NEW g, \A x \in D : g[x] = f[x]
  PROVE  SumFunctionOnSet(g, D) = SumFunctionOnSet(f, D)
<1> DEFINE odd == {T \in SUBSET D : SumFunctionOnSet(g, T) # SumFunctionOnSet(f, T)}
<1>1. ASSUME odd # {} PROVE FALSE
  <2>1. PICK T \in odd : \A U \in odd : U \subseteq T => U = T
    <3>1. odd \in SUBSET SUBSET D
      OBVIOUS
    <3> HIDE DEF odd
    <3>. QED
      BY <1>1, <3>1, Fewest
  <2>2. CASE T = {}
    <3>1. \A x \in D : g[x] \in Int
      OBVIOUS
    <3>2. SumFunctionOnSet(g, T) = 0
      BY <2>1, <2>2, <3>1, SumOf
    <3>3. SumFunctionOnSet(f, T) = 0
      BY <2>1, <2>2, SumOf
    <3>. QED
      BY <2>1, <3>2, <3>3
  <2>3. CASE T # {}
    <3>1. PICK c \in T : TRUE
      BY <2>3
    <3>2. c \in D /\ T \in SUBSET D /\ T \ {c} \in SUBSET D /\ T \ {c} # T /\ IsFiniteSet(T)
      BY <2>1, <3>1, FS_Subset
    <3>3. (\A x \in T : f[x] \in Int) /\ (\A x \in T : g[x] \in Int) /\ g[c] = f[c]
      BY <3>2
    <3>4. SumFunctionOnSet(f, T) = f[c] + SumFunctionOnSet(f, T \ {c})
      BY <3>1, <3>2, <3>3, SumAt
    <3>5. SumFunctionOnSet(g, T) = g[c] + SumFunctionOnSet(g, T \ {c})
      BY <3>1, <3>2, <3>3, SumAt
    <3>6. SumFunctionOnSet(g, T \ {c}) = SumFunctionOnSet(f, T \ {c})
      BY <2>1, <3>2
    <3>. QED
      BY <2>1, <3>3, <3>4, <3>5, <3>6
  <2>. QED
    BY <2>2, <2>3
<1>. QED
  BY <1>1

Summable(f) == IsFiniteSet(DOMAIN f) /\ \A x \in DOMAIN f : f[x] \in Int

\* One value changed, and one place more.
LEMMA SumChanged ==
  ASSUME NEW f, Summable(f), NEW p \in DOMAIN f, NEW n \in Int,
         NEW g, DOMAIN g = DOMAIN f, g[p] = n, \A x \in DOMAIN f \ {p} : g[x] = f[x]
  PROVE  SumFunction(g) = SumFunction(f) - f[p] + n /\ SumFunction(f) \in Int
<1> DEFINE D == DOMAIN f
<1>1. DOMAIN g = D /\ g[p] = n /\ \A x \in D \ {p} : g[x] = f[x]
  OBVIOUS
<1>2. IsFiniteSet(D) /\ IsFiniteSet(D \ {p}) /\ p \in D
  BY FS_RemoveElement DEF Summable
<1>3. (\A x \in D : f[x] \in Int) /\ (\A x \in D : g[x] \in Int)
  BY <1>1 DEF Summable
<1>4. SumFunctionOnSet(g, D \ {p}) = SumFunctionOnSet(f, D \ {p})
  BY <1>1, <1>2, <1>3, SumSame
<1>5. SumFunctionOnSet(g, D) = g[p] + SumFunctionOnSet(g, D \ {p})
  BY <1>2, <1>3, SumAt
<1>6. SumFunctionOnSet(f, D) = f[p] + SumFunctionOnSet(f, D \ {p})
  BY <1>2, <1>3, SumAt
<1>7. SumFunctionOnSet(f, D \ {p}) \in Int
  BY <1>2, <1>3, SumOf
<1>8. SumFunction(f) = SumFunctionOnSet(f, D) /\ SumFunction(g) = SumFunctionOnSet(g, D)
  BY <1>1 DEF SumFunction
<1>. QED
  BY <1>1, <1>2, <1>3, <1>4, <1>5, <1>6, <1>7, <1>8

LEMMA SumExtended ==
  ASSUME NEW f, Summable(f), NEW p, p \notin DOMAIN f,
         NEW g, DOMAIN g = DOMAIN f \union {p}, g[p] \in Int,
         \A x \in DOMAIN f : g[x] = f[x]
  PROVE  SumFunction(g) = SumFunction(f) + g[p]
<1> DEFINE D == DOMAIN f
<1>0. IsFiniteSet(D) /\ (\A x \in D : f[x] \in Int) /\ \A x \in D \union {p} : g[x] \in Int
  BY DEF Summable
<1>1. IsFiniteSet(D \union {p}) /\ (D \union {p}) \ {p} = D
  BY <1>0, FS_AddElement
<1>2. SumFunctionOnSet(g, D \union {p}) = g[p] + SumFunctionOnSet(g, (D \union {p}) \ {p})
  BY <1>0, <1>1, SumAt
<1>3. SumFunctionOnSet(g, D) = SumFunctionOnSet(f, D)
  BY <1>0, SumSame
<1>4. SumFunctionOnSet(f, D) \in Int
  BY <1>0, SumOf
<1>5. SumFunction(f) = SumFunctionOnSet(f, D) /\ SumFunction(g) = SumFunctionOnSet(g, D \union {p})
  BY DEF SumFunction
<1>6. SumFunction(g) = g[p] + SumFunction(f)
  BY <1>1, <1>2, <1>3, <1>5
<1>7. SumFunction(f) \in Int
  BY <1>4, <1>5
<1>. QED
  BY <1>6, <1>7

-----------------------------------------------------------------------------
(* Profile: the lists *)

LEMMA Largest ==
  ASSUME NEW n \in Nat, NEW T \in SUBSET (0 .. n), T # {}
  PROVE  Max(T) \in T /\ \A y \in T : y <= Max(T)
<1> DEFINE U == {n - y : y \in T}
<1>0. \A y \in T : y \in Nat /\ n - y \in Nat
  OBVIOUS
<1>1. U \in SUBSET Nat /\ U # {}
  BY <1>0
<1> HIDE DEF U
<1>2. Min(U) \in U /\ \A u \in U : Min(U) <= u
  BY <1>1, Smallest, Zenon
<1>3. PICK x \in T : Min(U) = n - x
  BY <1>2 DEF U
<1>4. \A y \in T : n - x <= n - y /\ x \in Int /\ y \in Int
  <2>1. \A y \in T : n - y \in U
    BY DEF U
  <2>2. \A y \in T : n - x <= n - y
    BY <1>2, <1>3, <2>1
  <2>. QED
    BY <1>0, <2>2
<1>5. x \in T /\ \A y \in T : x >= y /\ y <= x
  BY <1>4
<1>6. \A z \in T : (\A y \in T : z >= y) => \A y \in T : y <= z
  BY <1>4
<1>7. Max(T) \in T /\ \A y \in T : Max(T) >= y
  BY <1>5, Zenon DEF Max
<1>. QED
  BY <1>6, <1>7

\* No three of a set of numbers, or no two.
LEMMA TwoAtMost ==
  ASSUME NEW S \in SUBSET Nat, \A x, y, z \in S : ~(x < y /\ y < z)
  PROVE  \E y, z : S \subseteq {y, z}
<1>1. CASE \E x, y \in S : x < y
  <2>1. PICK x, y \in S : x < y
    BY <1>1
  <2>2. \A z \in S : z \in {x, y}
    <3>1. ASSUME NEW z \in S PROVE z \in {x, y}
      <4>1. x \in Nat /\ y \in Nat /\ z \in Nat
        OBVIOUS
      <4>2. ~(z < x /\ x < y) /\ ~(x < z /\ z < y) /\ ~(x < y /\ y < z)
        OBVIOUS
      <4>. QED
        BY <2>1, <4>1, <4>2
    <3>. QED
      BY <3>1
  <2>. QED
    BY <2>2
<1>2. CASE ~ \E x, y \in S : x < y
  <2>1. \A x, y \in S : x = y
    BY <1>2
  <2>. QED
    BY <2>1
<1>. QED
  BY <1>1, <1>2

LEMMA OneAtMost ==
  ASSUME NEW S, AtMostOne(S)
  PROVE  \E x : S \subseteq {x}
BY DEF AtMostOne

LEMMA ThreePlaces ==
  ASSUME NEW S, NEW p, NEW q, NEW r, S \subseteq {p, q, r}
  PROVE  IsFiniteSet(S) /\ Cardinality(S) <= 3
<1>1. IsFiniteSet({}) /\ Cardinality({}) = 0
  BY FS_EmptySet
<1>2. IsFiniteSet({p}) /\ Cardinality({p}) = 1
  BY FS_Singleton
<1>3. IsFiniteSet({p} \union {q}) /\ Cardinality({p} \union {q}) \in {1, 2}
  BY <1>2, FS_AddElement
<1>4. IsFiniteSet(({p} \union {q}) \union {r}) /\ Cardinality(({p} \union {q}) \union {r}) \in {1, 2, 3}
  BY <1>3, FS_AddElement
<1>5. ({p} \union {q}) \union {r} = {p, q, r}
  OBVIOUS
<1>6. IsFiniteSet({p, q, r}) /\ Cardinality({p, q, r}) \in {1, 2, 3}
  BY <1>4, <1>5
<1>7. IsFiniteSet(S) /\ Cardinality(S) <= Cardinality({p, q, r})
  BY <1>6, FS_Subset
<1>8. Cardinality(S) \in Nat
  BY <1>7, FS_CardinalityType
<1>. QED
  BY <1>6, <1>7, <1>8

LEMMA InPlaces ==
  ASSUME NEW L, NEW f, NEW c
  PROVE  /\ \A i, j : <<i, j>> \in Places(L, f, c) <=>
                        i \in EntriesOf(L, f) /\ j \in ArcsFrom(L[i], c)
         /\ \A p \in Places(L, f, c) :
              \E i \in EntriesOf(L, f) : \E j \in ArcsFrom(L[i], c) : p = <<i, j>>
BY DEF Places

LEMMA PlacesAre ==
  ASSUME NEW L \in Seq(FnEntry), NEW f \in Functions, NEW c \in Callers
  PROVE  \A p \in Places(L, f, c) : CountsAt(L, f, c)[p] \in Nat
<1> SUFFICES ASSUME NEW p \in Places(L, f, c) PROVE CountsAt(L, f, c)[p] \in Nat
  OBVIOUS
<1>1. PICK i \in EntriesOf(L, f) : \E j \in ArcsFrom(L[i], c) : p = <<i, j>>
  BY InPlaces
<1>. PICK j \in ArcsFrom(L[i], c) : p = <<i, j>>
  BY <1>1
<1>2. i \in DOMAIN L /\ j \in DOMAIN L[i].arcs
  BY DEF EntriesOf, ArcsFrom
<1>3. L[i] \in FnEntry
  BY <1>2
<1>4. L[i].arcs \in Seq(Arc)
  BY <1>3 DEF FnEntry
<1>5. L[i].arcs[j] \in Arc
  BY <1>2, <1>4
<1>6. L[i].arcs[j].count \in Nat
  BY <1>5 DEF Arc
<1>. QED
  BY <1>6 DEF CountsAt

\* An arc is counted in at most three places.
LEMMA ThreeCopies ==
  ASSUME NEW L \in Seq(FnEntry), NEW f \in Functions, NEW c \in Callers, FewCopies(L, f)
  PROVE  IsFiniteSet(Places(L, f, c)) /\ Cardinality(Places(L, f, c)) <= 3
<1> DEFINE E == EntriesOf(L, f)
           A(i) == ArcsFrom(L[i], c)
<1>1. E \in SUBSET Nat
  BY DEF EntriesOf
<1>2. ASSUME NEW i \in E PROVE \E y, z : A(i) \subseteq {y, z}
  <2>1. A(i) \in SUBSET Nat
    <3>1. L[i] \in FnEntry
      BY <1>2 DEF EntriesOf
    <3>. QED
      BY <3>1 DEF ArcsFrom, FnEntry
  <2>2. \A x, y, z \in A(i) : ~(x < y /\ y < z)
    BY <1>2, Zenon DEF FewCopies
  <2>. QED
    BY <2>1, <2>2, TwoAtMost
<1>3. \A i, j \in E : i < j => \E x : A(i) \subseteq {x}
  BY OneAtMost, Zenon DEF FewCopies, NoCopies
<1>4. \A i, j, k \in E : ~(i < j /\ j < k)
  BY Zenon DEF FewCopies
<1>5. \A p \in Places(L, f, c) : \E i \in E : \E j \in A(i) : p = <<i, j>>
  BY InPlaces
<1> HIDE DEF E, A
<1>6. CASE \E i, j \in E : i < j
  <2>1. PICK o, n \in E : o < n
    BY <1>6
  <2>2. E \subseteq {o, n}
    <3>1. ASSUME NEW k \in E PROVE k \in {o, n}
      <4>1. ~(k < o /\ o < n) /\ ~(o < k /\ k < n) /\ ~(o < n /\ n < k)
        BY <1>4
      <4>2. k \in Nat /\ o \in Nat /\ n \in Nat
        BY <1>1
      <4>. QED
        BY <2>1, <4>1, <4>2
    <3>. QED
      BY <3>1
  <2>3. PICK x : A(o) \subseteq {x}
    BY <1>3, <2>1
  <2>4. PICK y, z : A(n) \subseteq {y, z}
    BY <1>2
  <2>5. Places(L, f, c) \subseteq {<<o, x>>, <<n, y>>, <<n, z>>}
    BY <1>5, <2>2, <2>3, <2>4
  <2>. QED
    BY <2>5, ThreePlaces
<1>7. CASE ~ \E i, j \in E : i < j
  <2>1. \A i, j \in E : i = j
    BY <1>1, <1>7
  <2>2. CASE E = {}
    <3>1. Places(L, f, c) \subseteq {{}, {}, {}}
      BY <1>5, <2>2
    <3>. QED
      BY <3>1, ThreePlaces
  <2>3. CASE E # {}
    <3>1. PICK n \in E : TRUE
      BY <2>3
    <3>2. PICK y, z : A(n) \subseteq {y, z}
      BY <1>2, <3>1
    <3>3. Places(L, f, c) \subseteq {<<n, y>>, <<n, z>>, <<n, z>>}
      BY <1>5, <2>1, <3>1, <3>2
    <3>. QED
      BY <3>3, ThreePlaces
  <2>. QED
    BY <2>2, <2>3
<1>. QED
  BY <1>6, <1>7

\* What a change leaves of a function's entries: where they and their arcs are.
SameArcs(L, K, f) ==
  /\ Len(L) <= Len(K) /\ EntriesOf(K, f) = EntriesOf(L, f)
  /\ \A i \in EntriesOf(L, f) :
       /\ DOMAIN K[i].arcs = DOMAIN L[i].arcs
       /\ \A d \in Callers : ArcsFrom(K[i], d) = ArcsFrom(L[i], d)
       /\ (K[i].arcs = <<>>) = (L[i].arcs = <<>>)

LEMMA SameArcsKeep ==
  ASSUME NEW L, NEW K, NEW f \in Functions, SameArcs(L, K, f)
  PROVE  /\ FewCopies(L, f) => FewCopies(K, f)
         /\ \A k : SeesFn(L, f, k) => SeesFn(K, f, k)
         /\ \A e : AtNewest(L, f, e) => AtNewest(K, f, e)
         /\ \A c \in Callers : Places(K, f, c) = Places(L, f, c)
<1>1. EntriesOf(K, f) = EntriesOf(L, f)
      /\ \A i \in EntriesOf(L, f), d \in Callers : ArcsFrom(K[i], d) = ArcsFrom(L[i], d)
  BY DEF SameArcs
<1>2. \A i \in EntriesOf(L, f) : NoCopies(L[i]) => NoCopies(K[i])
  BY <1>1 DEF NoCopies
<1>3. FewCopies(L, f) => FewCopies(K, f)
  BY <1>1, <1>2 DEF FewCopies
<1>4. \A k : SeesFn(L, f, k) => SeesFn(K, f, k)
  BY <1>1, <1>2 DEF SeesFn
<1>5. \A e : AtNewest(L, f, e) => AtNewest(K, f, e)
  BY <1>1 DEF AtNewest
<1>6. \A c \in Callers : Places(K, f, c) = Places(L, f, c)
  BY <1>1 DEF Places
<1>. QED
  BY <1>3, <1>4, <1>5, <1>6

SameCounts(L, K, f) ==
  SameArcs(L, K, f) /\ \A d \in Callers : CountsAt(K, f, d) = CountsAt(L, f, d)

\* The three changes: of a count, of an entry's arcs and of the entries.
WithCount(L, e, a, n) == [L EXCEPT ![e].arcs[a].count = n]
WithArc(L, e, c) == [L EXCEPT ![e].arcs = Append(@, NewArc(c))]
NextArc(L, e) == Len(L[e].arcs) + 1
NextEntry(L) == Len(L) + 1
WithEntry(L, f, arcs) == Append(L, [self |-> f, arcs |-> arcs])

LEMMA CountsDiffer ==
  ASSUME NEW L, NEW K, NEW f, NEW c, Places(K, f, c) = Places(L, f, c),
         \A i \in EntriesOf(L, f) : \A j \in ArcsFrom(L[i], c) :
           K[i].arcs[j].count = L[i].arcs[j].count
  PROVE  CountsAt(K, f, c) = CountsAt(L, f, c)
<1>1. ASSUME NEW p \in Places(L, f, c)
      PROVE  K[p[1]].arcs[p[2]].count = L[p[1]].arcs[p[2]].count
  <2>1. PICK i \in EntriesOf(L, f) : \E j \in ArcsFrom(L[i], c) : p = <<i, j>>
    BY InPlaces
  <2>. QED
    BY <2>1
<1>. QED
  BY <1>1 DEF CountsAt

LEMMA EntryAt ==
  ASSUME NEW L \in Seq(FnEntry), NEW i \in DOMAIN L
  PROVE  /\ L[i].self \in Functions /\ L[i].arcs \in Seq(Arc)
         /\ L[i] = [self |-> L[i].self, arcs |-> L[i].arcs]
         /\ \A j \in DOMAIN L[i].arcs :
              /\ L[i].arcs[j].from \in Callers /\ L[i].arcs[j].count \in Nat
              /\ L[i].arcs[j] = [from |-> L[i].arcs[j].from, count |-> L[i].arcs[j].count]
<1>1. L[i] \in FnEntry
  OBVIOUS
<1>2. L[i].self \in Functions /\ L[i].arcs \in Seq(Arc)
      /\ L[i] = [self |-> L[i].self, arcs |-> L[i].arcs]
  BY <1>1 DEF FnEntry
<1>3. ASSUME NEW j \in DOMAIN L[i].arcs
      PROVE  /\ L[i].arcs[j].from \in Callers /\ L[i].arcs[j].count \in Nat
             /\ L[i].arcs[j] = [from |-> L[i].arcs[j].from, count |-> L[i].arcs[j].count]
  <2>1. L[i].arcs[j] \in Arc
    BY <1>2
  <2>. QED
    BY <2>1 DEF Arc
<1>. QED
  BY <1>2, <1>3

CountChanged(L, K, f, c, e, a, n) ==
  /\ K \in Seq(FnEntry) /\ DOMAIN K = DOMAIN L
  /\ \A i \in DOMAIN L : K[i].self = L[i].self
  /\ K[e].arcs[a].count = n
  /\ \A g \in Functions : SameArcs(L, K, g)
  /\ \A g \in Functions \ {f} : SameCounts(L, K, g)
  /\ \A d \in Callers \ {c} : CountsAt(K, f, d) = CountsAt(L, f, d)
  /\ CountsAt(K, f, c) = [CountsAt(L, f, c) EXCEPT ![<<e, a>>] = n]

\* A count that changes changes nothing else.
LEMMA CountSet ==
  ASSUME NEW L \in Seq(FnEntry), NEW f \in Functions, NEW e \in EntriesOf(L, f),
         NEW c \in Callers, NEW a \in ArcsFrom(L[e], c), NEW n \in Nat,
         NEW K, K = WithCount(L, e, a, n)
  PROVE  CountChanged(L, K, f, c, e, a, n)
<1> DEFINE arcs == L[e].arcs
           new == [arcs EXCEPT ![a] = [from |-> c, count |-> n]]
<1>1. e \in DOMAIN L /\ L[e].self = f /\ a \in DOMAIN arcs /\ arcs[a].from = c
      /\ arcs \in Seq(Arc)
  BY EntryAt DEF EntriesOf, ArcsFrom
<1>2. K = [L EXCEPT ![e] = [self |-> f, arcs |-> new]]
  <2>1. [arcs[a] EXCEPT !.count = n] = [from |-> c, count |-> n]
    <3>1. PICK m : arcs[a] = [from |-> c, count |-> m]
      BY <1>1, EntryAt
    <3>. QED
      BY <3>1
  <2>2. [L[e] EXCEPT !.arcs = new] = [self |-> f, arcs |-> new]
    BY <1>1, EntryAt, SMTT(30)
  <2>. QED
    BY <2>1, <2>2 DEF WithCount
<1>3. new \in Seq(Arc) /\ DOMAIN new = DOMAIN arcs
      /\ new[a] = [from |-> c, count |-> n]
      /\ \A j \in DOMAIN arcs : j # a => new[j] = arcs[j]
  <2>1. [from |-> c, count |-> n] \in Arc
    BY DEF Arc
  <2>. QED
    BY <1>1, <2>1
<1> HIDE DEF new
<1>4. /\ K \in Seq(FnEntry) /\ DOMAIN K = DOMAIN L /\ Len(K) = Len(L)
      /\ K[e] = [self |-> f, arcs |-> new]
      /\ \A i \in DOMAIN L : i # e => K[i] = L[i]
  <2>1. [self |-> f, arcs |-> new] \in FnEntry
    BY <1>3 DEF FnEntry
  <2>. QED
    BY <1>1, <1>2, <2>1
<1>5. \A i \in DOMAIN L : K[i].self = L[i].self
  BY <1>1, <1>4
<1>6. /\ \A d \in Callers : ArcsFrom(K[e], d) = ArcsFrom(L[e], d)
      /\ DOMAIN K[e].arcs = DOMAIN L[e].arcs
      /\ (K[e].arcs = <<>>) = (L[e].arcs = <<>>)
  <2>1. \A j \in DOMAIN arcs : new[j].from = arcs[j].from
    BY <1>1, <1>3
  <2>2. DOMAIN K[e].arcs = DOMAIN L[e].arcs /\ K[e].arcs = new
    BY <1>3, <1>4
  <2>3. K[e].arcs # <<>> /\ L[e].arcs # <<>>
    BY <1>1, <2>2
  <2>. QED
    BY <2>1, <2>2, <2>3 DEF ArcsFrom
<1>7. \A g \in Functions : EntriesOf(K, g) = EntriesOf(L, g)
  BY <1>4, <1>5 DEF EntriesOf
<1>8. ASSUME NEW g \in Functions PROVE SameArcs(L, K, g)
  <2>1. \A i \in EntriesOf(L, g) : i \in DOMAIN L
    BY DEF EntriesOf
  <2>2. Len(L) \in Nat
    OBVIOUS
  <2>. QED
    BY <1>4, <1>6, <1>7, <2>1, <2>2 DEF SameArcs
<1>9. ASSUME NEW g \in Functions, NEW d \in Callers PROVE Places(K, g, d) = Places(L, g, d)
  BY <1>8, SameArcsKeep
<1>10. ASSUME NEW g \in Functions, NEW d \in Callers, g # f \/ d # c
       PROVE  CountsAt(K, g, d) = CountsAt(L, g, d)
  <2>1. ASSUME NEW i \in EntriesOf(L, g), NEW j \in ArcsFrom(L[i], d)
        PROVE  K[i].arcs[j].count = L[i].arcs[j].count
    <3>1. i \in DOMAIN L /\ L[i].self = g /\ j \in DOMAIN L[i].arcs /\ L[i].arcs[j].from = d
      BY DEF EntriesOf, ArcsFrom
    <3>2. CASE i # e
      BY <1>4, <3>1, <3>2
    <3>3. CASE i = e
      <4>1. j # a
        BY <1>1, <1>10, <3>1, <3>3
      <4>. QED
        BY <1>3, <1>4, <3>1, <3>3, <4>1
    <3>. QED
      BY <3>2, <3>3
  <2>. QED
    BY <1>9, <2>1, CountsDiffer
<1>11. CountsAt(K, f, c) = [CountsAt(L, f, c) EXCEPT ![<<e, a>>] = n]
  <2>1. ASSUME NEW p \in Places(L, f, c)
        PROVE  K[p[1]].arcs[p[2]].count
                 = IF p = <<e, a>> THEN n ELSE L[p[1]].arcs[p[2]].count
    <3>1. PICK i \in EntriesOf(L, f) : \E j \in ArcsFrom(L[i], c) : p = <<i, j>>
      BY InPlaces
    <3>. PICK j \in ArcsFrom(L[i], c) : p = <<i, j>>
      BY <3>1
    <3>2. i \in DOMAIN L /\ j \in DOMAIN L[i].arcs
      BY DEF EntriesOf, ArcsFrom
    <3>3. CASE i # e
      BY <1>4, <3>2, <3>3
    <3>4. CASE i = e
      BY <1>3, <1>4, <3>2, <3>4
    <3>. QED
      BY <3>3, <3>4
  <2>. QED
    BY <1>9, <2>1 DEF CountsAt
<1>12. K[e].arcs[a].count = n
  BY <1>3, <1>4
<1>. QED
  BY <1>4, <1>5, <1>8, <1>10, <1>11, <1>12 DEF SameCounts, CountChanged

ArcMore(L, K, f, c, e) ==
  /\ K \in Seq(FnEntry) /\ DOMAIN K = DOMAIN L
  /\ \A i \in DOMAIN L : K[i].self = L[i].self
  /\ K[e].arcs # <<>> /\ DOMAIN K[e].arcs = 1 .. NextArc(L, e) /\ NextArc(L, e) \in Nat
  /\ NextArc(L, e) \notin DOMAIN L[e].arcs
  /\ \A i \in DOMAIN L \ {e} : K[i] = L[i]
  /\ EntriesOf(K, f) = EntriesOf(L, f)
  /\ ArcsFrom(K[e], c) = ArcsFrom(L[e], c) \union {NextArc(L, e)}
  /\ \A d \in Callers \ {c} : ArcsFrom(K[e], d) = ArcsFrom(L[e], d)
  /\ \A j \in DOMAIN L[e].arcs : K[e].arcs[j] = L[e].arcs[j]
  /\ K[e].arcs[NextArc(L, e)] = NewArc(c)
  /\ \A g \in Functions \ {f} : SameCounts(L, K, g)

\* An arc more is the entry's last.
LEMMA ArcAdded ==
  ASSUME NEW L \in Seq(FnEntry), NEW f \in Functions, NEW e \in EntriesOf(L, f),
         NEW c \in Callers, NEW K, K = WithArc(L, e, c)
  PROVE  ArcMore(L, K, f, c, e)
<1>. PICK a : a = NextArc(L, e)
  OBVIOUS
<1>0. a = Len(L[e].arcs) + 1
  BY DEF NextArc
<1> DEFINE arcs == L[e].arcs
           new == Append(arcs, NewArc(c))
<1>1. e \in DOMAIN L /\ L[e].self = f /\ arcs \in Seq(Arc)
      /\ L[e] = [self |-> f, arcs |-> arcs]
  BY EntryAt DEF EntriesOf
<1>2. NewArc(c) \in Arc /\ NewArc(c).from = c
  BY DEF NewArc, Arc
<1>3. /\ new \in Seq(Arc) /\ DOMAIN new = 1 .. a /\ a \in Nat /\ new # <<>>
      /\ DOMAIN arcs = 1 .. a - 1 /\ new[a] = NewArc(c)
      /\ \A j \in DOMAIN arcs : new[j] = arcs[j]
  BY <1>0, <1>1, <1>2
<1> HIDE DEF new
<1>4. K = [L EXCEPT ![e] = [self |-> f, arcs |-> new]]
  <2>1. [L[e] EXCEPT !.arcs = new] = [self |-> f, arcs |-> new]
    BY <1>1
  <2>. QED
    BY <2>1 DEF WithArc, new
<1>5. /\ K \in Seq(FnEntry) /\ DOMAIN K = DOMAIN L /\ Len(K) = Len(L)
      /\ K[e] = [self |-> f, arcs |-> new] /\ K[e].arcs = new
      /\ \A i \in DOMAIN L \ {e} : K[i] = L[i]
  <2>1. [self |-> f, arcs |-> new] \in FnEntry
    BY <1>3 DEF FnEntry
  <2>. QED
    BY <1>1, <1>4, <2>1
<1>6. \A i \in DOMAIN L : K[i].self = L[i].self
  BY <1>1, <1>5
<1>7. \A g \in Functions : EntriesOf(K, g) = EntriesOf(L, g)
  BY <1>5, <1>6 DEF EntriesOf
<1>8. a \notin DOMAIN arcs /\ DOMAIN new = DOMAIN arcs \union {a}
  BY <1>0, <1>3, SMTT(30)
<1>9. ArcsFrom(K[e], c) = ArcsFrom(L[e], c) \union {a}
      /\ \A d \in Callers \ {c} : ArcsFrom(K[e], d) = ArcsFrom(L[e], d)
  <2> HIDE DEF arcs
  <2>1. ASSUME NEW d \in Callers
        PROVE  ArcsFrom(K[e], d) = {j \in DOMAIN arcs \union {a} : new[j].from = d}
               /\ ArcsFrom(L[e], d) = {j \in DOMAIN arcs : new[j].from = d}
    BY <1>3, <1>5, <1>8 DEF ArcsFrom, arcs
  <2>2. new[a].from = c
    BY <1>2, <1>3
  <2>3. ArcsFrom(K[e], c) = ArcsFrom(L[e], c) \union {a}
    <3>1. ArcsFrom(K[e], c) = {j \in DOMAIN arcs \union {a} : new[j].from = c}
          /\ ArcsFrom(L[e], c) = {j \in DOMAIN arcs : new[j].from = c}
      BY <2>1
    <3>. QED
      BY <2>2, <3>1
  <2>4. ASSUME NEW d \in Callers, d # c PROVE ArcsFrom(K[e], d) = ArcsFrom(L[e], d)
    <3>1. ArcsFrom(K[e], d) = {j \in DOMAIN arcs \union {a} : new[j].from = d}
          /\ ArcsFrom(L[e], d) = {j \in DOMAIN arcs : new[j].from = d}
      BY <2>1
    <3>. QED
      BY <2>2, <2>4, <3>1
  <2>. QED
    BY <2>3, <2>4
<1>10. ASSUME NEW g \in Functions \ {f} PROVE SameCounts(L, K, g)
  <2>1. \A i \in EntriesOf(L, g) : i \in DOMAIN L \ {e}
    BY <1>1 DEF EntriesOf
  <2>2. Len(L) \in Nat
    OBVIOUS
  <2>3. SameArcs(L, K, g)
    BY <1>5, <1>7, <2>1, <2>2 DEF SameArcs
  <2>4. ASSUME NEW d \in Callers PROVE CountsAt(K, g, d) = CountsAt(L, g, d)
    <3>1. Places(K, g, d) = Places(L, g, d)
      BY <2>3, SameArcsKeep
    <3>2. \A i \in EntriesOf(L, g) : K[i] = L[i]
      BY <1>5, <2>1
    <3>. QED
      BY <3>1, <3>2, CountsDiffer
  <2>. QED
    BY <2>3, <2>4 DEF SameCounts
<1>. QED
  BY <1>3, <1>5, <1>6, <1>7, <1>8, <1>9, <1>10 DEF ArcMore

EntryMore(L, K, f, arcs) ==
  /\ K \in Seq(FnEntry) /\ NextEntry(L) \in Nat /\ NextEntry(L) \notin DOMAIN L
  /\ DOMAIN K = DOMAIN L \union {NextEntry(L)} /\ Len(L) <= Len(K)
  /\ \A i \in DOMAIN L : K[i] = L[i]
  /\ K[NextEntry(L)].self = f /\ K[NextEntry(L)].arcs = arcs
  /\ EntriesOf(K, f) = EntriesOf(L, f) \union {NextEntry(L)}
  /\ \A i \in EntriesOf(L, f) : i < NextEntry(L)
  /\ \A g \in Functions \ {f} : SameCounts(L, K, g)

\* An entry more is the list's last.
LEMMA EntryAdded ==
  ASSUME NEW L \in Seq(FnEntry), NEW f \in Functions, NEW arcs \in Seq(Arc),
         NEW K, K = WithEntry(L, f, arcs)
  PROVE  EntryMore(L, K, f, arcs)
<1>. PICK e : e = NextEntry(L)
  OBVIOUS
<1>0. e = Len(L) + 1
  BY DEF NextEntry
<1> DEFINE new == [self |-> f, arcs |-> arcs]
<1>1. new \in FnEntry /\ new.self = f /\ new.arcs = arcs
  BY DEF FnEntry
<1> HIDE DEF new
<1>2. /\ K \in Seq(FnEntry) /\ e \in Nat /\ DOMAIN K = 1 .. e /\ DOMAIN L = 1 .. e - 1
      /\ Len(L) \in Nat /\ Len(K) = e /\ Len(L) <= Len(K)
      /\ K[e] = new /\ \A i \in DOMAIN L : K[i] = L[i]
  BY <1>0, <1>1 DEF WithEntry, new
<1>3. e \notin DOMAIN L /\ DOMAIN K = DOMAIN L \union {e} /\ \A i \in DOMAIN L : i < e
  <2>1. e \in Nat /\ DOMAIN K = 1 .. e /\ DOMAIN L = 1 .. e - 1 /\ e >= 1
    BY <1>0, <1>2
  <2>. QED
    BY <2>1
<1>4. EntriesOf(K, f) = EntriesOf(L, f) \union {e}
      /\ \A g \in Functions \ {f} : EntriesOf(K, g) = EntriesOf(L, g)
  <2>1. \A i \in DOMAIN L : K[i].self = L[i].self
    BY <1>2
  <2>2. K[e].self = f
    BY <1>1, <1>2
  <2>3. ASSUME NEW g \in Functions
        PROVE  EntriesOf(K, g) = {i \in DOMAIN L \union {e} : K[i].self = g}
               /\ EntriesOf(L, g) = {i \in DOMAIN L : K[i].self = g}
    BY <1>3, <2>1 DEF EntriesOf
  <2>4. EntriesOf(K, f) = EntriesOf(L, f) \union {e}
    <3>1. EntriesOf(K, f) = {i \in DOMAIN L \union {e} : K[i].self = f}
          /\ EntriesOf(L, f) = {i \in DOMAIN L : K[i].self = f}
      BY <2>3
    <3>. QED
      BY <2>2, <3>1
  <2>5. ASSUME NEW g \in Functions, g # f PROVE EntriesOf(K, g) = EntriesOf(L, g)
    <3>1. EntriesOf(K, g) = {i \in DOMAIN L \union {e} : K[i].self = g}
          /\ EntriesOf(L, g) = {i \in DOMAIN L : K[i].self = g}
      BY <2>3
    <3>. QED
      BY <2>2, <2>5, <3>1
  <2>. QED
    BY <2>4, <2>5
<1>5. ASSUME NEW g \in Functions \ {f} PROVE SameCounts(L, K, g)
  <2>1. \A i \in EntriesOf(L, g) : K[i] = L[i]
    BY <1>2 DEF EntriesOf
  <2>2. EntriesOf(K, g) = EntriesOf(L, g)
    BY <1>4
  <2>3. SameArcs(L, K, g)
    BY <1>2, <2>1, <2>2 DEF SameArcs
  <2>4. ASSUME NEW d \in Callers PROVE CountsAt(K, g, d) = CountsAt(L, g, d)
    <3>1. Places(K, g, d) = Places(L, g, d)
      BY <2>3, SameArcsKeep
    <3>. QED
      BY <2>1, <3>1, CountsDiffer
  <2>. QED
    BY <2>3, <2>4 DEF SameCounts
<1>6. \A i \in EntriesOf(L, f) : i < e
  BY <1>3 DEF EntriesOf
<1>. QED
  BY <1>1, <1>2, <1>3, <1>4, <1>5, <1>6 DEF EntryMore

\* What a change does to the number of calls an arc is counted for.
LEMMA CountRaised ==
  ASSUME NEW L \in Seq(FnEntry), NEW f \in Functions, NEW e \in EntriesOf(L, f),
         NEW c \in Callers, NEW a \in ArcsFrom(L[e], c), NEW n \in Nat, FewCopies(L, f),
         NEW K, CountsAt(K, f, c) = [CountsAt(L, f, c) EXCEPT ![<<e, a>>] = n]
  PROVE  /\ SumFunction(CountsAt(K, f, c))
              = SumFunction(CountsAt(L, f, c)) - L[e].arcs[a].count + n
         /\ SumFunction(CountsAt(L, f, c)) \in Int
<1> DEFINE old == CountsAt(L, f, c)
           new == CountsAt(K, f, c)
           p == <<e, a>>
<1>1. Summable(old)
  BY ThreeCopies, PlacesAre, SMTT(30) DEF Summable, CountsAt
<1>2. p \in DOMAIN old /\ old[p] = L[e].arcs[a].count
  BY InPlaces DEF CountsAt
<1>3. DOMAIN new = DOMAIN old /\ new[p] = n /\ n \in Int
      /\ \A x \in DOMAIN old \ {p} : new[x] = old[x]
  BY <1>2
<1> HIDE DEF old, new, p
<1>4. SumFunction(new) = SumFunction(old) - old[p] + n /\ SumFunction(old) \in Int
  BY <1>1, <1>2, <1>3, SumChanged
<1>. QED
  BY <1>2, <1>4, SMTT(30) DEF old, new

LEMMA CountExtended ==
  ASSUME NEW L \in Seq(FnEntry), NEW f \in Functions, NEW c \in Callers, FewCopies(L, f),
         NEW K, NEW p, p \notin Places(L, f, c), Places(K, f, c) = Places(L, f, c) \union {p},
         CountsAt(K, f, c)[p] = 1,
         \A q \in Places(L, f, c) : CountsAt(K, f, c)[q] = CountsAt(L, f, c)[q]
  PROVE  SumFunction(CountsAt(K, f, c)) = SumFunction(CountsAt(L, f, c)) + 1
<1> DEFINE old == CountsAt(L, f, c)
           new == CountsAt(K, f, c)
<1>1. Summable(old)
  BY ThreeCopies, PlacesAre DEF Summable, CountsAt
<1>2. DOMAIN new = DOMAIN old \union {p} /\ p \notin DOMAIN old
      /\ \A x \in DOMAIN old : new[x] = old[x]
  BY DEF CountsAt
<1>3. new[p] = 1 /\ new[p] \in Int
  OBVIOUS
<1> HIDE DEF old, new
<1>4. SumFunction(new) = SumFunction(old) + new[p]
  BY <1>1, <1>2, <1>3, SumExtended, ZenonT(30)
<1>. QED
  BY <1>3, <1>4 DEF old, new

OneCallMore(L, K, f, c) ==
  /\ FewCopies(K, f) /\ Places(K, f, c) # {}
  /\ SumFunction(CountsAt(K, f, c)) = SumFunction(CountsAt(L, f, c)) + 1
  /\ \A d \in Callers \ {c} : CountsAt(K, f, d) = CountsAt(L, f, d)

\* An arc that is added to the newest entry, where there is at most one.
LEMMA ArcCounted ==
  ASSUME NEW L \in Seq(FnEntry), NEW f \in Functions, NEW c \in Callers, NEW e,
         AtNewest(L, f, e), AtMostOne(ArcsFrom(L[e], c)), FewCopies(L, f),
         NEW K, K = WithArc(L, e, c)
  PROVE  OneCallMore(L, K, f, c)
<1>. PICK a : a = NextArc(L, e)
  OBVIOUS
<1>0. e \in EntriesOf(L, f) /\ \A i \in EntriesOf(L, f) : i <= e
  BY DEF AtNewest
<1>1. /\ K \in Seq(FnEntry) /\ DOMAIN K = DOMAIN L
      /\ K[e].arcs # <<>> /\ DOMAIN K[e].arcs = 1 .. a /\ a \in Nat
      /\ a \notin DOMAIN L[e].arcs
      /\ \A i \in DOMAIN L \ {e} : K[i] = L[i]
      /\ EntriesOf(K, f) = EntriesOf(L, f)
      /\ ArcsFrom(K[e], c) = ArcsFrom(L[e], c) \union {a}
      /\ \A d \in Callers \ {c} : ArcsFrom(K[e], d) = ArcsFrom(L[e], d)
      /\ \A j \in DOMAIN L[e].arcs : K[e].arcs[j] = L[e].arcs[j]
      /\ K[e].arcs[a] = NewArc(c)
  <2>1. ArcMore(L, K, f, c, e)
    BY <1>0, ArcAdded
  <2>. QED
    BY <2>1 DEF ArcMore
<1>2. \A i \in EntriesOf(L, f) : i \in DOMAIN L /\ i \in Nat
  BY DEF EntriesOf
<1>3. \A j \in ArcsFrom(L[e], c) : j \in DOMAIN L[e].arcs
  BY DEF ArcsFrom
<1>4. FewCopies(K, f)
  <2>1. \A i, j, k \in EntriesOf(K, f) : ~(i < j /\ j < k)
    BY <1>1, Zenon DEF FewCopies
  <2>2. ASSUME NEW i \in EntriesOf(K, f), NEW j \in EntriesOf(K, f), i < j
        PROVE  NoCopies(K[i])
    <3>1. NoCopies(L[i])
      BY <1>1, <2>2, Zenon DEF FewCopies
    <3>2. i # e /\ i \in DOMAIN L
      BY <1>0, <1>1, <1>2, <2>2
    <3>. QED
      BY <1>1, <3>1, <3>2
  <2>3. ASSUME NEW i \in EntriesOf(K, f), NEW d \in Callers,
               NEW x \in ArcsFrom(K[i], d), NEW y \in ArcsFrom(K[i], d),
               NEW z \in ArcsFrom(K[i], d), x < y, y < z
        PROVE  FALSE
    <3>1. CASE i # e \/ d # c
      <4>1. ArcsFrom(K[i], d) = ArcsFrom(L[i], d) /\ i \in EntriesOf(L, f)
        BY <1>1, <1>2, <3>1
      <4>. QED
        BY <2>3, <4>1, Zenon DEF FewCopies
    <3>2. CASE i = e /\ d = c
      <4>1. \A u, v \in ArcsFrom(L[e], c) : u = v
        BY DEF AtMostOne
      <4>2. x \in ArcsFrom(L[e], c) \union {a} /\ y \in ArcsFrom(L[e], c) \union {a}
            /\ z \in ArcsFrom(L[e], c) \union {a}
        BY <1>1, <3>2
      <4>3. x = y \/ y = z \/ x = z
        BY <4>1, <4>2
      <4>4. x \in Nat /\ y \in Nat /\ z \in Nat
        <5>1. DOMAIN K[e].arcs \subseteq Nat
          BY <1>1
        <5>. QED
          BY <3>2, <5>1 DEF ArcsFrom
      <4>. QED
        BY <2>3, <4>3, <4>4
    <3>. QED
      BY <3>1, <3>2
  <2>. QED
    BY <2>1, <2>2, <2>3 DEF FewCopies
<1>5. ASSUME NEW d \in Callers \ {c} PROVE CountsAt(K, f, d) = CountsAt(L, f, d)
  <2>1. \A i \in EntriesOf(L, f) : ArcsFrom(K[i], d) = ArcsFrom(L[i], d)
    BY <1>1, <1>2
  <2>2. Places(K, f, d) = Places(L, f, d)
    BY <1>1, <2>1 DEF Places
  <2>3. \A i \in EntriesOf(L, f) : \A j \in ArcsFrom(L[i], d) :
          K[i].arcs[j].count = L[i].arcs[j].count
    BY <1>1, <1>2 DEF ArcsFrom
  <2>. QED
    BY <2>2, <2>3, CountsDiffer
<1>6. /\ Places(K, f, c) = Places(L, f, c) \union {<<e, a>>}
      /\ <<e, a>> \notin Places(L, f, c)
  <2>1. <<e, a>> \notin Places(L, f, c)
    BY <1>1, <1>3, InPlaces
  <2>2. <<e, a>> \in Places(K, f, c)
    BY <1>0, <1>1, InPlaces
  <2>3. ASSUME NEW p \in Places(K, f, c) PROVE p \in Places(L, f, c) \union {<<e, a>>}
    <3>1. PICK i \in EntriesOf(K, f) : \E j \in ArcsFrom(K[i], c) : p = <<i, j>>
      BY InPlaces
    <3>. PICK j \in ArcsFrom(K[i], c) : p = <<i, j>>
      BY <3>1
    <3>2. i \in EntriesOf(L, f) /\ (j \in ArcsFrom(L[i], c) \/ (i = e /\ j = a))
      BY <1>1, <1>2
    <3>. QED
      BY <3>2, InPlaces
  <2>4. ASSUME NEW p \in Places(L, f, c) PROVE p \in Places(K, f, c)
    <3>1. PICK i \in EntriesOf(L, f) : \E j \in ArcsFrom(L[i], c) : p = <<i, j>>
      BY InPlaces
    <3>. PICK j \in ArcsFrom(L[i], c) : p = <<i, j>>
      BY <3>1
    <3>2. i \in EntriesOf(K, f) /\ j \in ArcsFrom(K[i], c)
      BY <1>1, <1>2
    <3>. QED
      BY <3>2, InPlaces
  <2>. QED
    BY <2>1, <2>2, <2>3, <2>4
<1>7. CountsAt(K, f, c)[<<e, a>>] = 1
  BY <1>1, <1>6 DEF CountsAt, NewArc
<1>8. ASSUME NEW p \in Places(L, f, c) PROVE CountsAt(K, f, c)[p] = CountsAt(L, f, c)[p]
  <2>1. PICK i \in EntriesOf(L, f) : \E j \in ArcsFrom(L[i], c) : p = <<i, j>>
    BY InPlaces
  <2>. PICK j \in ArcsFrom(L[i], c) : p = <<i, j>>
    BY <2>1
  <2>2. K[i].arcs[j] = L[i].arcs[j]
    BY <1>1, <1>2 DEF ArcsFrom
  <2>. QED
    BY <1>6, <2>2 DEF CountsAt
<1>9. SumFunction(CountsAt(K, f, c)) = SumFunction(CountsAt(L, f, c)) + 1
  BY <1>6, <1>7, <1>8, CountExtended
<1>. QED
  BY <1>4, <1>5, <1>6, <1>9 DEF OneCallMore

EmptyEntry(L, K, f) ==
  /\ FewCopies(K, f)
  /\ AtNewest(K, f, NextEntry(L))
  /\ \A d \in Callers : ArcsFrom(K[NextEntry(L)], d) = {}
  /\ \A d \in Callers : CountsAt(K, f, d) = CountsAt(L, f, d)

\* An entry without arcs, for a function that has none or one without copies.
LEMMA EntryCounted ==
  ASSUME NEW L \in Seq(FnEntry), NEW f \in Functions, SeesFn(L, f, 0),
         NEW K, K = WithEntry(L, f, <<>>)
  PROVE  EmptyEntry(L, K, f)
<1>. PICK e : e = NextEntry(L)
  OBVIOUS
<1>1. /\ K \in Seq(FnEntry) /\ e \in Nat /\ e \notin DOMAIN L
      /\ \A i \in DOMAIN L : K[i] = L[i]
      /\ K[e].self = f /\ K[e].arcs = <<>>
      /\ EntriesOf(K, f) = EntriesOf(L, f) \union {e}
      /\ \A i \in EntriesOf(L, f) : i < e
  <2>1. <<>> \in Seq(Arc)
    OBVIOUS
  <2>2. EntryMore(L, K, f, <<>>)
    BY <2>1, EntryAdded
  <2>. QED
    BY <2>2 DEF EntryMore
<1>2. \A i \in EntriesOf(L, f) : i \in Nat /\ i # 0 /\ i \in DOMAIN L /\ K[i] = L[i]
  BY <1>1 DEF EntriesOf
<1>3. AtMostOne(EntriesOf(L, f)) /\ \A i \in EntriesOf(L, f) : NoCopies(L[i])
  <2>1. CASE \A i \in EntriesOf(L, f) : i <= 0
    <3>1. EntriesOf(L, f) = {}
      BY <1>2, <2>1
    <3>. QED
      BY <3>1 DEF AtMostOne
  <2>. QED
    BY <2>1 DEF SeesFn
<1>4. \A d \in Callers : ArcsFrom(K[e], d) = {}
  BY <1>1 DEF ArcsFrom
<1>5. AtNewest(K, f, e)
  BY <1>1, <1>2 DEF AtNewest
<1>6. FewCopies(K, f)
  <2>1. ASSUME NEW i \in EntriesOf(K, f), NEW j \in EntriesOf(K, f),
               NEW k \in EntriesOf(K, f), i < j, j < k
        PROVE  FALSE
    <3>1. i \in Nat /\ j \in Nat /\ k \in Nat /\ e \in Nat
      BY <1>1, <1>2
    <3>2. i # e /\ j # e
      BY <1>5, <2>1, <3>1 DEF AtNewest
    <3>3. i = j
      BY <1>1, <1>3, <3>2 DEF AtMostOne
    <3>. QED
      BY <2>1, <3>1, <3>3
  <2>2. ASSUME NEW i \in EntriesOf(K, f), NEW j \in EntriesOf(K, f), i < j
        PROVE  NoCopies(K[i])
    <3>1. i \in Nat /\ j \in Nat /\ e \in Nat
      BY <1>1, <1>2
    <3>2. i # e
      BY <1>5, <2>2, <3>1 DEF AtNewest
    <3>. QED
      BY <1>1, <1>2, <1>3, <3>2
  <2>3. ASSUME NEW i \in EntriesOf(K, f), NEW d \in Callers,
               NEW x \in ArcsFrom(K[i], d), NEW y \in ArcsFrom(K[i], d), x < y
        PROVE  FALSE
    <3>1. i # e
      BY <1>4
    <3>2. i \in EntriesOf(L, f) /\ K[i] = L[i] /\ K[i] \in FnEntry
      BY <1>1, <1>2, <3>1 DEF EntriesOf
    <3>3. x = y
      BY <1>3, <3>2 DEF NoCopies, AtMostOne
    <3>4. x \in Nat
      BY <3>2 DEF FnEntry, ArcsFrom
    <3>. QED
      BY <2>3, <3>3, <3>4
  <2>. QED
    BY <2>1, <2>2, <2>3 DEF FewCopies
<1>7. ASSUME NEW d \in Callers PROVE CountsAt(K, f, d) = CountsAt(L, f, d)
  <2>1. Places(K, f, d) = Places(L, f, d)
    <3>1. \A i \in EntriesOf(L, f) : ArcsFrom(K[i], d) = ArcsFrom(L[i], d)
      BY <1>2
    <3>2. ASSUME NEW p \in Places(K, f, d) PROVE p \in Places(L, f, d)
      <4>1. PICK i \in EntriesOf(K, f) : \E j \in ArcsFrom(K[i], d) : p = <<i, j>>
        BY InPlaces
      <4>2. i \in EntriesOf(L, f)
        BY <1>1, <1>4, <4>1
      <4>. QED
        BY <3>1, <4>1, <4>2, InPlaces
    <3>3. ASSUME NEW p \in Places(L, f, d) PROVE p \in Places(K, f, d)
      <4>1. PICK i \in EntriesOf(L, f) : \E j \in ArcsFrom(L[i], d) : p = <<i, j>>
        BY InPlaces
      <4>2. i \in EntriesOf(K, f)
        BY <1>1
      <4>. QED
        BY <3>1, <4>1, <4>2, InPlaces
    <3>. QED
      BY <3>2, <3>3
  <2>2. \A i \in EntriesOf(L, f) : \A j \in ArcsFrom(L[i], d) :
          K[i].arcs[j].count = L[i].arcs[j].count
    BY <1>2
  <2>. QED
    BY <2>1, <2>2, CountsDiffer
<1>. QED
  BY <1>4, <1>5, <1>6, <1>7 DEF EmptyEntry

LEMMA CountIs ==
  ASSUME NEW L, NEW K, NEW f, NEW c, NEW i \in EntriesOf(L, f), NEW j \in ArcsFrom(L[i], c),
         CountsAt(K, f, c) = CountsAt(L, f, c)
  PROVE  K[i].arcs[j].count = L[i].arcs[j].count
<1>1. <<i, j>> \in Places(L, f, c)
  BY InPlaces
<1>2. DOMAIN CountsAt(K, f, c) = Places(K, f, c) /\ DOMAIN CountsAt(L, f, c) = Places(L, f, c)
  BY DEF CountsAt
<1>3. <<i, j>> \in Places(K, f, c)
  BY <1>1, <1>2
<1>4. CountsAt(K, f, c)[<<i, j>>] = K[i].arcs[j].count
  BY <1>3 DEF CountsAt
<1>5. CountsAt(L, f, c)[<<i, j>>] = L[i].arcs[j].count
  BY <1>1 DEF CountsAt
<1>. QED
  BY <1>4, <1>5

-----------------------------------------------------------------------------
(* Profile: the steps *)

USE ProfileAssumption

LEMMA BucketIs ==
  ASSUME ProfileTypeOK, NEW f \in Functions
  PROVE  Bucket(f) \in Seq(FnEntry)
BY DEF ProfileTypeOK, Bucket

\* The list of one bucket changes; of its functions only f does.
ListBecomes(f, K) ==
  /\ fns' \in [{HashOf[g] : g \in Functions} -> Seq(FnEntry)]
  /\ \A g \in Functions : \A i \in DOMAIN Bucket(g)' :
       HashOf[Bucket(g)'[i].self] = HashOf[g]
  /\ Bucket(f)' = K
  /\ \A g \in Functions \ {f} : SameCounts(Bucket(g), Bucket(g)', g)

LEMMA OneList ==
  ASSUME ProfileTypeOK, NEW f \in Functions, NEW K \in Seq(FnEntry),
         fns' = [fns EXCEPT ![HashOf[f]] = K],
         \A i \in DOMAIN K : HashOf[K[i].self] = HashOf[f],
         \A g \in Functions \ {f} : SameCounts(Bucket(f), K, g)
  PROVE  ListBecomes(f, K)
<1>1. fns \in [{HashOf[g] : g \in Functions} -> Seq(FnEntry)]
      /\ HashOf[f] \in {HashOf[g] : g \in Functions}
      /\ \A g \in Functions : HashOf[g] \in {HashOf[h] : h \in Functions}
  BY DEF ProfileTypeOK
<1>2. fns' \in [{HashOf[g] : g \in Functions} -> Seq(FnEntry)]
  BY <1>1
<1>3. ASSUME NEW g \in Functions
      PROVE  Bucket(g)' = IF HashOf[g] = HashOf[f] THEN K ELSE Bucket(g)
  BY <1>1 DEF Bucket
<1>4. ASSUME NEW g \in Functions, NEW i \in DOMAIN Bucket(g)'
      PROVE  HashOf[Bucket(g)'[i].self] = HashOf[g]
  <2>1. \A j \in DOMAIN Bucket(g) : HashOf[Bucket(g)[j].self] = HashOf[g]
    BY DEF ProfileTypeOK
  <2>. QED
    BY <1>3, <1>4, <2>1
<1>5. ASSUME NEW g \in Functions \ {f} PROVE SameCounts(Bucket(g), Bucket(g)', g)
  <2>1. CASE HashOf[g] = HashOf[f]
    <3>1. Bucket(g) = Bucket(f)
      BY <2>1 DEF Bucket
    <3>. QED
      BY <1>3, <2>1, <3>1
  <2>2. CASE HashOf[g] # HashOf[f]
    <3>1. Bucket(g)' = Bucket(g)
      BY <1>3, <2>2
    <3>2. Len(Bucket(g)) \in Nat
      BY BucketIs
    <3>3. Len(Bucket(g)) <= Len(Bucket(g)')
      BY <3>1, <3>2
    <3>. QED
      BY <3>1, <3>3 DEF SameCounts, SameArcs
  <2>. QED
    BY <2>1, <2>2
<1>. QED
  BY <1>2, <1>3, <1>4, <1>5 DEF ListBecomes

\* The calls of an arc are counted, or no call ends.
LEMMA CopiesCounted ==
  ASSUME ProfileTypeOK, CopiesInv, NEW f \in Functions, NEW c \in Callers, Called(<<f, c>>),
         clobbered' \in Nat, clobbered <= clobbered',
         \A g \in Functions \ {f} : SameCounts(Bucket(g), Bucket(g)', g),
         \A d \in Callers \ {c} : CountsAt(Bucket(f)', f, d) = CountsAt(Bucket(f), f, d),
         FewCopies(Bucket(f)', f), Places(Bucket(f)', f, c) # {},
         SumFunction(CountsAt(Bucket(f)', f, c))
           \in calls[<<f, c>>] + 1 - clobbered' .. calls[<<f, c>>] + 1
  PROVE  CopiesInv' /\ calls' \in [Arcs -> Nat]
<1>1. calls \in [Arcs -> Nat] /\ calls' = [calls EXCEPT ![<<f, c>>] = calls[<<f, c>>] + 1]
      /\ clobbered \in Nat
  BY DEF ProfileTypeOK, Called
<1>2. calls' \in [Arcs -> Nat] /\ calls'[<<f, c>>] = calls[<<f, c>>] + 1
      /\ \A g \in Functions, d \in Callers :
           g # f \/ d # c => calls'[<<g, d>>] = calls[<<g, d>>]
  BY <1>1 DEF Arcs
<1>3. ASSUME NEW g \in Functions, NEW d \in Callers
      PROVE  /\ FewCopies(Bucket(g)', g)
             /\ Counted(g, d)' \in calls'[<<g, d>>] - clobbered' .. calls'[<<g, d>>]
             /\ calls'[<<g, d>>] > 0 => Copies(g, d)' # {}
  <2>1. /\ FewCopies(Bucket(g), g)
        /\ Counted(g, d) \in calls[<<g, d>>] - clobbered .. calls[<<g, d>>]
        /\ calls[<<g, d>>] > 0 => Copies(g, d) # {}
    BY DEF CopiesInv
  <2>2. FewCopies(Bucket(g)', g)
    BY <2>1, SameArcsKeep DEF SameCounts
  <2>3. CASE g = f /\ d = c
    <3>1. Copies(f, c)' # {}
      BY DEF Copies
    <3>2. Counted(f, c)' \in calls'[<<f, c>>] - clobbered' .. calls'[<<f, c>>]
      <4>1. Counted(f, c)' = SumFunction(CountsAt(Bucket(f)', f, c))
        BY DEF Counted
      <4>2. SumFunction(CountsAt(Bucket(f)', f, c))
              \in calls'[<<f, c>>] - clobbered' .. calls'[<<f, c>>]
        <5>1. calls[<<f, c>>] \in Nat /\ calls'[<<f, c>>] = calls[<<f, c>>] + 1
          BY <1>1, <1>2 DEF Arcs
        <5>. QED
          BY <5>1
      <4>. QED
        BY <4>1, <4>2, Zenon
    <3>. QED
      BY <2>2, <2>3, <3>1, <3>2
  <2>4. CASE g # f \/ d # c
    <3>1. CountsAt(Bucket(g)', g, d) = CountsAt(Bucket(g), g, d)
      BY <2>4 DEF SameCounts
    <3>2. DOMAIN CountsAt(Bucket(g)', g, d) = Copies(g, d)'
          /\ DOMAIN CountsAt(Bucket(g), g, d) = Copies(g, d)
      BY DEF CountsAt, Copies
    <3>3. Copies(g, d)' = Copies(g, d)
      BY <3>1, <3>2
    <3>4. Counted(g, d)' = Counted(g, d)
      BY <3>1 DEF Counted
    <3>5. calls'[<<g, d>>] = calls[<<g, d>>] /\ calls[<<g, d>>] \in Nat
      BY <1>1, <1>2, <2>4 DEF Arcs
    <3>6. Counted(g, d) \in calls[<<g, d>>] - clobbered' .. calls[<<g, d>>]
      BY <1>1, <2>1, <3>5
    <3>. QED
      BY <2>1, <2>2, <3>3, <3>4, <3>5, <3>6
  <2>. QED
    BY <2>3, <2>4
<1>. QED
  BY <1>2, <1>3 DEF CopiesInv

LEMMA CopiesLeft ==
  ASSUME CopiesInv, UNCHANGED <<calls, clobbered>>,
         \A g \in Functions : FewCopies(Bucket(g)', g)
           /\ \A d \in Callers : CountsAt(Bucket(g)', g, d) = CountsAt(Bucket(g), g, d)
  PROVE  CopiesInv'
<1>1. ASSUME NEW g \in Functions, NEW d \in Callers
      PROVE  Copies(g, d)' = Copies(g, d) /\ Counted(g, d)' = Counted(g, d)
  <2>1. CountsAt(Bucket(g)', g, d) = CountsAt(Bucket(g), g, d)
    OBVIOUS
  <2>2. DOMAIN CountsAt(Bucket(g)', g, d) = Copies(g, d)'
        /\ DOMAIN CountsAt(Bucket(g), g, d) = Copies(g, d)
    BY DEF CountsAt, Copies
  <2>. QED
    BY <2>1, <2>2 DEF Counted
<1>. QED
  BY <1>1 DEF CopiesInv

\* The thread's walk stays where it is in lists whose arcs stay where they are.
LEMMA WalkKeeps ==
  ASSUME WalkInv, ProfileTypeOK,
         UNCHANGED <<mcount_pc, self_pc, from_pc, fn_entry, arc>>,
         mcount_pc # "idle" => SameArcs(Bucket(self_pc), Bucket(self_pc)', self_pc)
  PROVE  WalkInv'
<1>1. CASE mcount_pc = "idle"
  BY <1>1 DEF WalkInv, Recording
<1>2. CASE mcount_pc # "idle"
  <2> DEFINE L == Bucket(self_pc)
             K == Bucket(self_pc)'
  <2>1. self_pc \in Functions /\ from_pc \in Callers /\ SameArcs(L, K, self_pc)
        /\ fn_entry \in Nat /\ Bucket(self_pc) \in Seq(FnEntry)
    BY <1>2, BucketIs DEF ProfileTypeOK
  <2>2. Len(L) <= Len(K) /\ Len(L) \in Nat
    BY <2>1 DEF SameArcs
  <2>3. SeesFn(L, self_pc, fn_entry) => SeesFn(K, self_pc, fn_entry)
    BY <2>1, SameArcsKeep
  <2>4. SeesFn(L, self_pc, 0) => SeesFn(K, self_pc, 0)
    BY <2>1, SameArcsKeep
  <2>5. AtNewest(L, self_pc, fn_entry) =>
          /\ AtNewest(K, self_pc, fn_entry)
          /\ DOMAIN K[fn_entry].arcs = DOMAIN L[fn_entry].arcs
          /\ ArcsFrom(K[fn_entry], from_pc) = ArcsFrom(L[fn_entry], from_pc)
    <3>1. AtNewest(L, self_pc, fn_entry) => AtNewest(K, self_pc, fn_entry)
      BY <2>1, SameArcsKeep
    <3>2. AtNewest(L, self_pc, fn_entry) => fn_entry \in EntriesOf(L, self_pc)
      BY DEF AtNewest
    <3>. QED
      BY <2>1, <3>1, <3>2 DEF SameArcs
  <2>6. fn_entry <= Len(L) => fn_entry <= Len(K)
    BY <2>1, <2>2
  <2> HIDE DEF L, K
  <2>. QED
    BY <1>2, <2>2, <2>3, <2>4, <2>5, <2>6 DEF WalkInv, SeesArc, L, K
<1>. QED
  BY <1>1, <1>2

LEMMA LargestOrNone ==
  ASSUME NEW n \in Nat, NEW S \in SUBSET (1 .. n)
  PROVE  /\ Max({0} \union S) \in Nat
         /\ Max({0} \union S) = 0 => S = {}
         /\ Max({0} \union S) # 0 =>
              Max({0} \union S) \in S /\ \A y \in S : y <= Max({0} \union S)
<1> DEFINE T == {0} \union S
<1>1. T \in SUBSET (0 .. n) /\ T # {}
  OBVIOUS
<1> HIDE DEF T
<1>2. Max(T) \in T /\ \A y \in T : y <= Max(T)
  BY <1>1, Largest
<1>3. \A y \in S : y \in T /\ y \in Nat /\ y # 0
  BY DEF T
<1>4. Max(T) \in Nat
  <2>1. \A y \in T : y \in Nat
    BY <1>1
  <2>. QED
    BY <1>2, <2>1
<1>5. Max(T) # 0 => Max(T) \in S
  BY <1>2 DEF T
<1>6. Max(T) = 0 => S = {}
  BY <1>2, <1>3
<1>. QED
  BY <1>2, <1>3, <1>4, <1>5, <1>6 DEF T

\* What mcount finds, uninterrupted.
LEMMA Finds ==
  ASSUME ProfileTypeOK, NEW f \in Functions, NEW c \in Callers
  PROVE  /\ FindFn(f) \in Nat /\ FindArc(f, c) \in Nat
         /\ FindFn(f) = 0 => EntriesOf(Bucket(f), f) = {}
         /\ FindFn(f) # 0 => AtNewest(Bucket(f), f, FindFn(f))
         /\ FindArc(f, c) > 0 =>
              /\ FindFn(f) # 0
              /\ FindArc(f, c) \in ArcsFrom(Bucket(f)[FindFn(f)], c)
              /\ \A j \in ArcsFrom(Bucket(f)[FindFn(f)], c) : j <= FindArc(f, c)
         /\ FindArc(f, c) = 0 /\ FindFn(f) # 0 =>
              ArcsFrom(Bucket(f)[FindFn(f)], c) = {}
<1> DEFINE L == Bucket(f)
           e == FindFn(f)
<1>1. L \in Seq(FnEntry)
  BY BucketIs
<1>2. EntriesOf(L, f) \in SUBSET (1 .. Len(L)) /\ Len(L) \in Nat
  BY <1>1 DEF EntriesOf
<1>3. /\ e \in Nat /\ (e = 0 => EntriesOf(L, f) = {})
      /\ (e # 0 => e \in EntriesOf(L, f) /\ \A y \in EntriesOf(L, f) : y <= e)
  BY <1>2, LargestOrNone DEF FindFn
<1>4. CASE e = 0
  BY <1>3, <1>4 DEF FindArc
<1>5. CASE e # 0
  <2>1. AtNewest(L, f, e)
    BY <1>3, <1>5 DEF AtNewest
  <2>2. e \in DOMAIN L
    BY <1>3, <1>5 DEF EntriesOf
  <2>3. L[e].arcs \in Seq(Arc)
    BY <1>1, <2>2, EntryAt
  <2>4. ArcsFrom(L[e], c) \in SUBSET (1 .. Len(L[e].arcs)) /\ Len(L[e].arcs) \in Nat
    BY <2>3 DEF ArcsFrom
  <2>5. FindArc(f, c) = Max({0} \union ArcsFrom(L[e], c))
    BY <1>5 DEF FindArc
  <2> HIDE DEF L, e
  <2> DEFINE S == ArcsFrom(L[e], c)
             n == Len(L[e].arcs)
  <2>6. S \in SUBSET (1 .. n) /\ n \in Nat /\ FindArc(f, c) = Max({0} \union S)
    BY <2>4, <2>5
  <2> HIDE DEF S, n
  <2>7. /\ Max({0} \union S) \in Nat
        /\ Max({0} \union S) = 0 => S = {}
        /\ Max({0} \union S) # 0 =>
             Max({0} \union S) \in S /\ \A y \in S : y <= Max({0} \union S)
    BY <2>6, LargestOrNone
  <2>8. /\ FindArc(f, c) \in Nat
        /\ FindArc(f, c) = 0 => ArcsFrom(L[e], c) = {}
        /\ FindArc(f, c) # 0 => FindArc(f, c) \in ArcsFrom(L[e], c)
             /\ \A y \in ArcsFrom(L[e], c) : y <= FindArc(f, c)
    BY <2>6, <2>7 DEF S
  <2>. QED
    BY <1>3, <1>5, <2>1, <2>8 DEF L, e
<1>. QED
  BY <1>4, <1>5

\* A step that leaves the lists and counts.
LEMMA ListsLeft ==
  ASSUME ListsInv, UNCHANGED <<fns, calls, clobbered>>, mcount_pc # "add"
  PROVE  ArcsInv' /\ CopiesInv'
<1>1. ArcsInv'
  BY DEF ListsInv, ArcsInv, Bucket
<1>2. CopiesInv'
  BY DEF ListsInv, CopiesInv, Bucket, Counted, Copies
<1>. QED
  BY <1>1, <1>2

LEMMA ArcsKeep ==
  ASSUME ArcsInv, mcount_pc # "add",
         \A g \in Functions : SameArcs(Bucket(g), Bucket(g)', g)
  PROVE  ArcsInv'
BY DEF ArcsInv, SameArcs

LEMMA CallStep ==
  ASSUME ListsInv, NEW f \in Functions, NEW c \in Callers, McountCall(f, c)
  PROVE  ListsInv'
<1>1. UNCHANGED <<fns, calls, clobbered>> /\ mcount_pc = "idle"
  BY DEF McountCall, Lists, History
<1>2. ArcsInv' /\ CopiesInv'
  BY <1>1, ListsLeft
<1>3. Bucket(f) \in Seq(FnEntry)
  BY BucketIs DEF ListsInv
<1>4. Bucket(self_pc)' = Bucket(f)
  BY DEF McountCall, Lists, Bucket
<1>5. ProfileTypeOK'
  BY <1>3 DEF ListsInv, ProfileTypeOK, McountPcs, McountCall, Goto, Lists, History, Bucket
<1>6. SeesFn(Bucket(f), f, Len(Bucket(f)))
  BY <1>3 DEF SeesFn, EntriesOf
<1>7. WalkInv'
  <2>1. mcount_pc' = "fn" /\ self_pc' = f /\ fn_entry' = Len(Bucket(f))
    BY DEF McountCall, Goto
  <2>2. Len(Bucket(f)) <= Len(Bucket(f))
    BY <1>3
  <2>. QED
    BY <1>4, <1>6, <2>1, <2>2 DEF WalkInv, Recording
<1>8. StoreInv'
  BY DEF McountCall, Goto, StoreInv
<1>. QED
  BY <1>2, <1>5, <1>7, <1>8 DEF ListsInv

LEMMA FnStep == ListsInv /\ McountFn => ListsInv'
<1> SUFFICES ASSUME ListsInv, McountFn PROVE ListsInv'
  OBVIOUS
<1> DEFINE L == Bucket(self_pc)
<1>1. UNCHANGED <<fns, calls, clobbered, self_pc, from_pc>> /\ mcount_pc = "fn"
      /\ Bucket(self_pc)' = L
  BY DEF McountFn, Lists, History, Bucket
<1>2. ArcsInv' /\ CopiesInv'
  BY <1>1, ListsLeft
<1>3. /\ self_pc \in Functions /\ from_pc \in Callers /\ L \in Seq(FnEntry)
      /\ fn_entry \in Nat /\ arc \in Nat
  BY <1>1, BucketIs DEF ListsInv, ProfileTypeOK
<1>4. fn_entry <= Len(L) /\ SeesFn(L, self_pc, fn_entry)
  BY <1>1 DEF ListsInv, WalkInv
<1>5. \A i \in EntriesOf(L, self_pc) : i \in DOMAIN L /\ i \in Nat
                                        /\ L[i].arcs # <<>> /\ L[i].arcs \in Seq(Arc)
  <2>1. \A i \in EntriesOf(L, self_pc) : i \in DOMAIN L /\ i \in Nat
    BY <1>3 DEF EntriesOf
  <2>2. \A i \in EntriesOf(L, self_pc) : L[i].arcs # <<>>
    BY <1>1, <1>3 DEF ListsInv, ArcsInv
  <2>. QED
    BY <1>3, <2>1, <2>2, EntryAt
<1> HIDE DEF L
<1>6. CASE fn_entry = 0 /\ Goto("record") /\ UNCHANGED <<fn_entry, arc>>
  <2>1. ProfileTypeOK'
    BY <1>1, <1>3, <1>6 DEF ListsInv, ProfileTypeOK, McountPcs, McountFn, Goto, Lists, History, Bucket
  <2>2. WalkInv'
    BY <1>1, <1>4, <1>6 DEF WalkInv, Goto, Recording
  <2>3. StoreInv'
    BY <1>6 DEF Goto, StoreInv
  <2>. QED
    BY <1>2, <2>1, <2>2, <2>3 DEF ListsInv
<1>7. CASE fn_entry > 0 /\ L[fn_entry].self = self_pc
           /\ arc' = Len(L[fn_entry].arcs) /\ Goto("arc") /\ UNCHANGED fn_entry
  <2>1. fn_entry \in EntriesOf(L, self_pc)
    BY <1>3, <1>4, <1>7 DEF EntriesOf
  <2>2. arc' \in Nat /\ arc' \in DOMAIN L[fn_entry].arcs
        /\ \A j \in ArcsFrom(L[fn_entry], from_pc) : j <= arc'
    BY <1>5, <1>7, <2>1 DEF ArcsFrom
  <2>3. AtNewest(L, self_pc, fn_entry)
    <3>1. CASE \A i \in EntriesOf(L, self_pc) : i <= fn_entry
      BY <2>1, <3>1 DEF AtNewest
    <3>2. CASE AtMostOne(EntriesOf(L, self_pc))
      BY <1>3, <2>1, <3>2 DEF AtNewest, AtMostOne
    <3>. QED
      BY <1>4, <3>1, <3>2 DEF SeesFn
  <2>4. ProfileTypeOK'
    BY <1>1, <1>3, <1>7, <2>2 DEF ListsInv, ProfileTypeOK, McountPcs, McountFn, Goto, Lists, History, Bucket
  <2>5. WalkInv'
    BY <1>1, <1>7, <2>2, <2>3 DEF WalkInv, Goto, Recording, SeesArc
  <2>6. StoreInv'
    BY <1>7 DEF Goto, StoreInv
  <2>. QED
    BY <1>2, <2>4, <2>5, <2>6 DEF ListsInv
<1>8. CASE fn_entry > 0 /\ L[fn_entry].self # self_pc
           /\ fn_entry' = fn_entry - 1 /\ UNCHANGED <<arc, mcount_pc>>
  <2>1. fn_entry' \in Nat /\ fn_entry' <= Len(L)
    BY <1>3, <1>4, <1>8
  <2>2. SeesFn(L, self_pc, fn_entry')
    <3>1. fn_entry \notin EntriesOf(L, self_pc)
      BY <1>8 DEF EntriesOf
    <3>2. (\A i \in EntriesOf(L, self_pc) : i <= fn_entry) =>
            \A i \in EntriesOf(L, self_pc) : i <= fn_entry'
      BY <1>3, <1>5, <1>8, <3>1
    <3>. QED
      BY <1>4, <3>2 DEF SeesFn
  <2>3. ProfileTypeOK'
    BY <1>1, <1>3, <1>8, <2>1 DEF ListsInv, ProfileTypeOK, McountPcs, McountFn, Goto, Lists, History, Bucket
  <2>4. WalkInv'
    BY <1>1, <1>8, <2>1, <2>2 DEF WalkInv, Recording
  <2>5. StoreInv'
    BY <1>1, <1>8 DEF StoreInv
  <2>. QED
    BY <1>2, <2>3, <2>4, <2>5 DEF ListsInv
<1>. QED
  BY <1>6, <1>7, <1>8 DEF McountFn, L

LEMMA ArcStep == ListsInv /\ McountArc => ListsInv'
<1> SUFFICES ASSUME ListsInv, McountArc PROVE ListsInv'
  OBVIOUS
<1> DEFINE L == Bucket(self_pc)
           here == L[fn_entry].arcs[arc]
<1>1. UNCHANGED <<fns, calls, clobbered, self_pc, from_pc, fn_entry>> /\ mcount_pc = "arc"
      /\ Bucket(self_pc)' = L
  BY DEF McountArc, Lists, History, Bucket
<1>2. ArcsInv' /\ CopiesInv'
  BY <1>1, ListsLeft
<1>3. /\ self_pc \in Functions /\ from_pc \in Callers /\ L \in Seq(FnEntry)
      /\ fn_entry \in Nat /\ arc \in Nat
  BY <1>1, BucketIs DEF ListsInv, ProfileTypeOK
<1>4. AtNewest(L, self_pc, fn_entry) /\ arc \in DOMAIN L[fn_entry].arcs
      /\ SeesArc(L[fn_entry], from_pc, arc)
  BY <1>1 DEF ListsInv, WalkInv
<1>5. fn_entry \in EntriesOf(L, self_pc) /\ fn_entry \in DOMAIN L /\ fn_entry # 0
  BY <1>3, <1>4 DEF AtNewest, EntriesOf
<1>6. L[fn_entry].arcs \in Seq(Arc) /\ here.count \in Nat /\ here.from \in Callers
  BY <1>3, <1>4, <1>5, EntryAt
<1>7. \A j \in ArcsFrom(L[fn_entry], from_pc) : j \in Nat /\ j \in DOMAIN L[fn_entry].arcs
  BY <1>6 DEF ArcsFrom
<1>8. Counted(self_pc, from_pc) \in
        calls[<<self_pc, from_pc>>] - clobbered .. calls[<<self_pc, from_pc>>]
  BY <1>3 DEF ListsInv, CopiesInv
<1> HIDE DEF L
<1>9. CASE here.from = from_pc /\ count' = here.count /\ Goto("found") /\ UNCHANGED arc
  <2>1. arc \in ArcsFrom(L[fn_entry], from_pc)
    BY <1>4, <1>9 DEF ArcsFrom
  <2>2. \A j \in ArcsFrom(L[fn_entry], from_pc) : j <= arc
    <3>1. CASE AtMostOne(ArcsFrom(L[fn_entry], from_pc))
      BY <1>3, <2>1, <3>1 DEF AtMostOne
    <3>. QED
      BY <1>4, <3>1 DEF SeesArc
  <2>3. ProfileTypeOK'
    BY <1>1, <1>3, <1>6, <1>9 DEF ListsInv, ProfileTypeOK, McountPcs, McountArc, Goto, Lists, History, Bucket
  <2>4. WalkInv'
    BY <1>1, <1>4, <1>9, <2>1, <2>2 DEF WalkInv, Goto, Recording
  <2>5. StoreInv'
    <3>1. Bucket(self_pc)'[fn_entry'].arcs[arc'].count = count' /\ count' \in Nat
          /\ Counted(self_pc, from_pc)' = Counted(self_pc, from_pc)
      BY <1>1, <1>6, <1>9 DEF Counted, Bucket
    <3>2. /\ Counted(self_pc, from_pc) \in Int
          /\ Counted(self_pc, from_pc) >= calls[<<self_pc, from_pc>>] - clobbered
      <4>1. calls[<<self_pc, from_pc>>] \in Int /\ clobbered \in Int
        BY <1>3 DEF ListsInv, ProfileTypeOK, Arcs
      <4>. QED
        BY <1>8, <4>1
    <3>3. /\ Bucket(self_pc)'[fn_entry'].arcs[arc'].count >= count'
          /\ Counted(self_pc, from_pc)'
               - (Bucket(self_pc)'[fn_entry'].arcs[arc'].count - count')
               = Counted(self_pc, from_pc)
      BY <3>1, <3>2
    <3>4. calls'[<<self_pc', from_pc'>>] - clobbered' = calls[<<self_pc, from_pc>>] - clobbered
      BY <1>1
    <3>. QED
      BY <3>2, <3>3, <3>4 DEF StoreInv
  <2>. QED
    BY <1>2, <2>3, <2>4, <2>5 DEF ListsInv
<1>10. CASE here.from # from_pc /\ arc > 1 /\ arc' = arc - 1 /\ UNCHANGED <<count, mcount_pc>>
  <2>1. arc \notin ArcsFrom(L[fn_entry], from_pc)
    BY <1>10 DEF ArcsFrom
  <2>2. arc' \in DOMAIN L[fn_entry].arcs /\ arc' \in Nat
    BY <1>3, <1>4, <1>6, <1>10
  <2>3. SeesArc(L[fn_entry], from_pc, arc')
    <3>1. (\A j \in ArcsFrom(L[fn_entry], from_pc) : j <= arc) =>
            \A j \in ArcsFrom(L[fn_entry], from_pc) : j <= arc'
      BY <1>3, <1>7, <1>10, <2>1
    <3>. QED
      BY <1>4, <3>1 DEF SeesArc
  <2>4. ProfileTypeOK'
    BY <1>1, <1>3, <1>10, <2>2 DEF ListsInv, ProfileTypeOK, McountPcs, McountArc, Goto, Lists, History, Bucket
  <2>5. WalkInv'
    BY <1>1, <1>4, <1>10, <2>2, <2>3 DEF WalkInv, Recording
  <2>6. StoreInv'
    BY <1>1, <1>10 DEF StoreInv
  <2>. QED
    BY <1>2, <2>4, <2>5, <2>6 DEF ListsInv
<1>11. CASE here.from # from_pc /\ arc = 1 /\ Goto("record") /\ UNCHANGED <<arc, count>>
  <2>1. arc \notin ArcsFrom(L[fn_entry], from_pc)
    BY <1>11 DEF ArcsFrom
  <2>2. AtMostOne(ArcsFrom(L[fn_entry], from_pc))
    <3>1. CASE \A j \in ArcsFrom(L[fn_entry], from_pc) : j <= arc
      <4>1. \A j \in ArcsFrom(L[fn_entry], from_pc) : j <= 1 /\ j # 1 /\ j \in DOMAIN L[fn_entry].arcs
        BY <1>7, <1>11, <2>1, <3>1
      <4>2. \A j \in DOMAIN L[fn_entry].arcs : j \in Nat /\ j >= 1
        BY <1>6
      <4>3. ArcsFrom(L[fn_entry], from_pc) = {}
        BY <4>1, <4>2
      <4>. QED
        BY <4>3 DEF AtMostOne
    <3>. QED
      BY <1>4, <3>1 DEF SeesArc
  <2>3. ProfileTypeOK'
    BY <1>1, <1>3, <1>11 DEF ListsInv, ProfileTypeOK, McountPcs, McountArc, Goto, Lists, History, Bucket
  <2>4. WalkInv'
    BY <1>1, <1>4, <1>5, <1>11, <2>2 DEF WalkInv, Goto, Recording
  <2>5. StoreInv'
    BY <1>11 DEF Goto, StoreInv
  <2>. QED
    BY <1>2, <2>3, <2>4, <2>5 DEF ListsInv
<1>. QED
  BY <1>9, <1>10, <1>11 DEF McountArc, L

\* The thread in __mcount_record, before it touches the lists.
LEMMA RecordSteps ==
  ListsInv /\ (RecordCheck \/ RecordClaim \/ RecordStart \/ RecordDisable) => ListsInv'
<1> SUFFICES ASSUME ListsInv, RecordCheck \/ RecordClaim \/ RecordStart \/ RecordDisable
             PROVE  ListsInv'
  OBVIOUS
<1>1. /\ UNCHANGED <<fns, calls, clobbered, self_pc, from_pc, fn_entry, arc, count>>
      /\ UNCHANGED <<ticking, overtaken, sample>>
      /\ mcount_pc \in {"record", "claim", "start", "disable"}
      /\ mcount_pc' \in {"claim", "start", "disable", "entry", "add"}
      /\ mcount_pc' = "entry" => fn_entry = 0
      /\ mcount_pc' = "add" => fn_entry # 0
  BY DEF RecordCheck, RecordClaim, RecordStart, RecordDisable, Goto, Lists, Call, History
<1>2. need_init' \in BOOLEAN /\ alarms' \in Nat
  <2>1. need_init \in BOOLEAN /\ ticking \in BOOLEAN /\ alarms \in Nat /\ alarms + 1 \in Nat
    BY DEF ListsInv, ProfileTypeOK
  <2>2. need_init' \in BOOLEAN
    BY <2>1, Zenon DEF RecordCheck, RecordClaim, RecordStart, RecordDisable, Lists
  <2>3. alarms' \in Nat
    BY <2>1, Zenon DEF RecordCheck, RecordClaim, RecordStart, RecordDisable, Lists
  <2>. QED
    BY <2>2, <2>3
<1>3. mcount_pie' \in BOOLEAN /\ (mcount_pie' <=> mcount_pc' \notin {"entry", "add"})
  BY DEF RecordCheck, RecordClaim, RecordStart, RecordDisable, Goto, Lists, ListsInv, ProfileTypeOK
<1>4. Bucket(self_pc)' = Bucket(self_pc)
  BY <1>1 DEF Bucket
<1>5. ArcsInv' /\ CopiesInv'
  BY <1>1, ListsLeft
<1>6. ProfileTypeOK'
  BY <1>1, <1>2, <1>3 DEF ListsInv, ProfileTypeOK, McountPcs, Bucket
<1>7. WalkInv'
  BY <1>1, <1>4 DEF ListsInv, WalkInv, Recording
<1>8. StoreInv'
  BY <1>1 DEF StoreInv
<1>. QED
  BY <1>5, <1>6, <1>7, <1>8 DEF ListsInv

LEMMA FoundStep == ListsInv /\ McountFound => ListsInv'
<1> SUFFICES ASSUME ListsInv, McountFound PROVE ListsInv'
  OBVIOUS
<1>0. ProfileTypeOK /\ CopiesInv /\ ArcsInv
  BY DEF ListsInv
<1>1. mcount_pc = "found" /\ mcount_pc' = "idle"
      /\ UNCHANGED <<need_init, alarms, mcount_pie, self_pc, from_pc, fn_entry, arc, count>>
      /\ UNCHANGED <<clobbered, overtaken, ticking, sample>>
  BY DEF McountFound, Goto, Call, History
<1>. PICK f \in Functions, c \in Callers, e \in Nat, a \in Nat :
       f = self_pc /\ c = from_pc /\ e = fn_entry /\ a = arc
  BY <1>0, <1>1 DEF ProfileTypeOK
<1> DEFINE L == Bucket(f)
           now == L[e].arcs[a].count
           sum == SumFunction(CountsAt(L, f, c))
<1>. PICK n : n = count
  OBVIOUS
<1>. PICK K : K = WithCount(L, e, a, n + 1)
  OBVIOUS
<1>2. /\ L \in Seq(FnEntry) /\ n \in Nat /\ n + 1 \in Nat /\ clobbered \in Nat
      /\ calls[<<f, c>>] \in Nat
  BY <1>0, BucketIs DEF ProfileTypeOK, Arcs
<1>3. e \in EntriesOf(L, f) /\ a \in ArcsFrom(L[e], c)
  BY <1>1 DEF ListsInv, WalkInv, AtNewest
<1>4. FewCopies(L, f) /\ sum \in calls[<<f, c>>] - clobbered .. calls[<<f, c>>]
  BY <1>0 DEF CopiesInv, Counted
<1>5. now >= n /\ sum - (now - n) >= calls[<<f, c>>] - clobbered
  BY <1>1 DEF ListsInv, StoreInv, Counted
<1>6. now \in Nat
  BY <1>2, <1>3, EntryAt DEF EntriesOf, ArcsFrom
<1>7. fns' = [fns EXCEPT ![HashOf[f]] = K] /\ Called(<<f, c>>)
  BY <1>0 DEF McountFound, WithCount, Bucket, ProfileTypeOK
<1>8. CountChanged(L, K, f, c, e, a, n + 1)
  BY <1>2, <1>3, CountSet
<1>9. K \in Seq(FnEntry) /\ DOMAIN K = DOMAIN L /\ (\A i \in DOMAIN L : K[i].self = L[i].self)
      /\ (\A g \in Functions : SameArcs(L, K, g))
      /\ \A g \in Functions \ {f} : SameCounts(L, K, g)
  BY <1>8 DEF CountChanged
<1>10. \A i \in DOMAIN K : HashOf[K[i].self] = HashOf[f]
  BY <1>0, <1>9 DEF ProfileTypeOK
<1>11. ListBecomes(f, K)
  BY <1>0, <1>7, <1>9, <1>10, OneList, ZenonT(30)
<1>12. \A g \in Functions : SameArcs(Bucket(g), Bucket(g)', g)
  BY <1>9, <1>11 DEF SameCounts, ListBecomes
<1>13. CopiesInv' /\ calls' \in [Arcs -> Nat]
  <2>1. \A d \in Callers \ {c} : CountsAt(K, f, d) = CountsAt(L, f, d)
    BY <1>8 DEF CountChanged
  <2>2. FewCopies(K, f) /\ Places(K, f, c) = Places(L, f, c)
    BY <1>2, <1>4, <1>9, SameArcsKeep
  <2>3. Places(K, f, c) # {}
    <3>1. <<e, a>> \in Places(K, f, c)
      BY <1>3, <2>2, InPlaces
    <3>. QED
      BY <3>1
  <2>4. SumFunction(CountsAt(K, f, c)) = sum - now + (n + 1) /\ sum \in Int
    <3>1. CountsAt(K, f, c) = [CountsAt(L, f, c) EXCEPT ![<<e, a>>] = n + 1]
      BY <1>8 DEF CountChanged
    <3>. QED
      BY <1>2, <1>3, <1>4, <3>1, CountRaised
  <2>5. SumFunction(CountsAt(K, f, c)) \in calls[<<f, c>>] + 1 - clobbered .. calls[<<f, c>>] + 1
    <3> HIDE DEF sum, now
    <3>. QED
      BY <1>2, <1>4, <1>5, <1>6, <2>4, SMTT(30)
  <2>6. clobbered' \in Nat /\ clobbered' = clobbered /\ clobbered <= clobbered'
    BY <1>1, <1>2
  <2>7. SumFunction(CountsAt(K, f, c)) \in calls[<<f, c>>] + 1 - clobbered' .. calls[<<f, c>>] + 1
    BY <2>5, <2>6
  <2>. QED
    BY <1>0, <1>7, <1>11, <2>1, <2>2, <2>3, <2>6, <2>7, CopiesCounted DEF ListBecomes
<1>14. ArcsInv'
  BY <1>0, <1>1, <1>12, ArcsKeep
<1>15. ProfileTypeOK'
  BY <1>0, <1>1, <1>11, <1>13 DEF ProfileTypeOK, McountPcs, ListBecomes
<1>16. WalkInv' /\ StoreInv'
  BY <1>1 DEF WalkInv, StoreInv, Recording
<1>. QED
  BY <1>13, <1>14, <1>15, <1>16 DEF ListsInv

LEMMA EntryStep == ListsInv /\ RecordEntry => ListsInv'
<1> SUFFICES ASSUME ListsInv, RecordEntry PROVE ListsInv'
  OBVIOUS
<1>0. ProfileTypeOK /\ CopiesInv /\ ArcsInv
  BY DEF ListsInv
<1>1. mcount_pc = "entry" /\ mcount_pc' = "add" /\ fn_entry' = Len(Bucket(self_pc)) + 1
      /\ UNCHANGED <<need_init, alarms, mcount_pie, calls, self_pc, from_pc, arc, count>>
      /\ UNCHANGED <<clobbered, overtaken, ticking, sample>>
  BY DEF RecordEntry, Goto, History
<1>. PICK f \in Functions, c \in Callers : f = self_pc /\ c = from_pc
  BY <1>0, <1>1 DEF ProfileTypeOK
<1> DEFINE L == Bucket(f)
<1>. PICK e : e = NextEntry(L)
  OBVIOUS
<1>. PICK K : K = WithEntry(L, f, <<>>)
  OBVIOUS
<1>2. L \in Seq(FnEntry) /\ <<>> \in Seq(Arc) /\ e = fn_entry'
  BY <1>0, <1>1, BucketIs DEF NextEntry
<1>3. SeesFn(L, f, 0)
  BY <1>1 DEF ListsInv, WalkInv, Recording
<1>4. fns' = [fns EXCEPT ![HashOf[f]] = K]
  BY <1>0 DEF RecordEntry, WithEntry, Bucket, ProfileTypeOK
<1>5. EntryMore(L, K, f, <<>>)
  BY <1>2, EntryAdded
<1>6. /\ K \in Seq(FnEntry) /\ e \in Nat /\ DOMAIN K = DOMAIN L \union {e} /\ e \notin DOMAIN L
      /\ \A i \in DOMAIN L : K[i] = L[i]
      /\ K[e].self = f /\ K[e].arcs = <<>>
      /\ EntriesOf(K, f) = EntriesOf(L, f) \union {e}
      /\ \A g \in Functions \ {f} : SameCounts(L, K, g)
  BY <1>5 DEF EntryMore
<1>8. \A i \in DOMAIN K : HashOf[K[i].self] = HashOf[f]
  BY <1>0, <1>6 DEF ProfileTypeOK
<1>9. ListBecomes(f, K)
  BY <1>0, <1>4, <1>6, <1>8, OneList, ZenonT(30)
<1>10. /\ FewCopies(K, f) /\ AtNewest(K, f, e)
       /\ \A d \in Callers : ArcsFrom(K[e], d) = {}
       /\ \A d \in Callers : CountsAt(K, f, d) = CountsAt(L, f, d)
  <2>1. EmptyEntry(L, K, f)
    BY <1>2, <1>3, EntryCounted
  <2>. QED
    BY <2>1 DEF EmptyEntry
<1>11. CopiesInv'
  <2>1. ASSUME NEW g \in Functions
        PROVE  /\ FewCopies(Bucket(g)', g)
               /\ \A d \in Callers : CountsAt(Bucket(g)', g, d) = CountsAt(Bucket(g), g, d)
    <3>1. CASE g = f
      BY <1>9, <1>10, <3>1 DEF ListBecomes
    <3>2. CASE g # f
      <4>1. FewCopies(Bucket(g), g)
        BY <1>0 DEF CopiesInv
      <4>. QED
        BY <1>9, <3>2, <4>1, SameArcsKeep DEF SameCounts, ListBecomes
    <3>. QED
      BY <3>1, <3>2
  <2>. QED
    BY <1>0, <1>1, <2>1, CopiesLeft
<1>12. ArcsInv'
  <2>1. ASSUME NEW g \in Functions, NEW i \in EntriesOf(Bucket(g)', g), Bucket(g)'[i].arcs = <<>>
        PROVE  g = f /\ i = e
    <3>1. CASE g = f
      <4>1. ASSUME i # e PROVE FALSE
        <5>1. i \in EntriesOf(L, f) /\ K[i] = L[i]
          BY <1>6, <1>9, <2>1, <3>1, <4>1 DEF EntriesOf, ListBecomes
        <5>. QED
          BY <1>0, <1>1, <1>9, <2>1, <3>1, <5>1 DEF ArcsInv, ListBecomes
      <4>. QED
        BY <3>1, <4>1
    <3>2. CASE g # f
      BY <1>0, <1>1, <1>9, <2>1, <3>2 DEF ArcsInv, SameCounts, SameArcs, ListBecomes
    <3>. QED
      BY <3>1, <3>2
  <2>. QED
    BY <1>1, <1>2, <2>1 DEF ArcsInv
<1>13. ProfileTypeOK'
  BY <1>0, <1>1, <1>2, <1>6, <1>9 DEF ProfileTypeOK, McountPcs, ListBecomes
<1>14. WalkInv'
  <2>1. Bucket(self_pc)' = K
    BY <1>1, <1>9 DEF Bucket, ListBecomes
  <2>2. e # 0
    BY <1>2 DEF NextEntry
  <2>3. AtMostOne(ArcsFrom(K[e], c))
    BY <1>10 DEF AtMostOne
  <2>. QED
    BY <1>1, <1>2, <1>10, <2>1, <2>2, <2>3 DEF WalkInv, Recording
<1>15. StoreInv'
  BY <1>1 DEF StoreInv
<1>. QED
  BY <1>11, <1>12, <1>13, <1>14, <1>15 DEF ListsInv

\* An arc is added to a function's newest entry, by the thread or a handler.
LEMMA ArcAppended ==
  ASSUME ProfileTypeOK, CopiesInv, NEW f \in Functions, NEW c \in Callers, NEW e,
         AtNewest(Bucket(f), f, e), AtMostOne(ArcsFrom(Bucket(f)[e], c)),
         NEW K, K = WithArc(Bucket(f), e, c), fns' = [fns EXCEPT ![HashOf[f]] = K],
         Called(<<f, c>>), UNCHANGED clobbered
  PROVE  /\ ListBecomes(f, K) /\ ArcMore(Bucket(f), K, f, c, e)
         /\ CopiesInv' /\ calls' \in [Arcs -> Nat]
<1> DEFINE L == Bucket(f)
           sum == SumFunction(CountsAt(L, f, c))
<1>1. e \in EntriesOf(L, f) /\ L \in Seq(FnEntry) /\ FewCopies(L, f)
  BY BucketIs DEF AtNewest, CopiesInv
<1>2. ArcMore(L, K, f, c, e)
  BY <1>1, ArcAdded
<1>3. K \in Seq(FnEntry) /\ DOMAIN K = DOMAIN L /\ (\A i \in DOMAIN L : K[i].self = L[i].self)
      /\ \A g \in Functions \ {f} : SameCounts(L, K, g)
  BY <1>2 DEF ArcMore
<1>4. \A i \in DOMAIN K : HashOf[K[i].self] = HashOf[f]
  BY <1>3 DEF ProfileTypeOK
<1>5. ListBecomes(f, K)
  BY <1>3, <1>4, OneList
<1>6. /\ FewCopies(K, f) /\ Places(K, f, c) # {}
      /\ SumFunction(CountsAt(K, f, c)) = sum + 1
      /\ \A d \in Callers \ {c} : CountsAt(K, f, d) = CountsAt(L, f, d)
  <2>1. OneCallMore(L, K, f, c)
    BY <1>1, ArcCounted
  <2>. QED
    BY <2>1 DEF OneCallMore
<1>7. /\ sum \in calls[<<f, c>>] - clobbered .. calls[<<f, c>>]
      /\ calls[<<f, c>>] \in Nat /\ clobbered \in Nat
  BY DEF CopiesInv, Counted, ProfileTypeOK, Arcs
<1>8. SumFunction(CountsAt(K, f, c)) \in calls[<<f, c>>] + 1 - clobbered' .. calls[<<f, c>>] + 1
  <2> HIDE DEF sum
  <2>. QED
    BY <1>6, <1>7
<1>9. clobbered' \in Nat /\ clobbered <= clobbered'
  BY <1>7
<1>10. CopiesInv' /\ calls' \in [Arcs -> Nat]
  BY <1>5, <1>6, <1>8, <1>9, CopiesCounted DEF ListBecomes
<1>. QED
  BY <1>2, <1>5, <1>10

LEMMA AddStep == ListsInv /\ RecordArc => ListsInv'
<1> SUFFICES ASSUME ListsInv, RecordArc PROVE ListsInv'
  OBVIOUS
<1>0. ProfileTypeOK /\ CopiesInv /\ ArcsInv
  BY DEF ListsInv
<1>1. mcount_pc = "add" /\ mcount_pc' = "idle" /\ mcount_pie' = TRUE
      /\ UNCHANGED <<need_init, alarms, self_pc, from_pc, fn_entry, arc, count>>
      /\ UNCHANGED <<clobbered, overtaken, ticking, sample>>
  BY DEF RecordArc, Goto, Call, History
<1>. PICK f \in Functions, c \in Callers, e \in Nat : f = self_pc /\ c = from_pc /\ e = fn_entry
  BY <1>0, <1>1 DEF ProfileTypeOK
<1>. PICK K : K = WithArc(Bucket(f), e, c)
  OBVIOUS
<1>2. AtNewest(Bucket(f), f, e) /\ AtMostOne(ArcsFrom(Bucket(f)[e], c))
  BY <1>1 DEF ListsInv, WalkInv, Recording
<1>3. fns' = [fns EXCEPT ![HashOf[f]] = K] /\ Called(<<f, c>>)
  BY <1>0 DEF RecordArc, WithArc, Bucket, ProfileTypeOK
<1>4. /\ ListBecomes(f, K) /\ ArcMore(Bucket(f), K, f, c, e)
      /\ CopiesInv' /\ calls' \in [Arcs -> Nat]
  BY <1>0, <1>1, <1>2, <1>3, ArcAppended
<1>5. ProfileTypeOK'
  BY <1>0, <1>1, <1>4 DEF ProfileTypeOK, McountPcs, ListBecomes
<1>6. ArcsInv'
  <2>1. ASSUME NEW g \in Functions, NEW i \in EntriesOf(Bucket(g)', g), Bucket(g)'[i].arcs = <<>>
        PROVE  FALSE
    <3>1. CASE g = f
      <4>1. i \in EntriesOf(Bucket(f), f) /\ (i # e => K[i] = Bucket(f)[i]) /\ K[e].arcs # <<>>
        BY <1>4, <2>1, <3>1 DEF ArcMore, EntriesOf, ListBecomes
      <4>. QED
        BY <1>0, <1>4, <2>1, <3>1, <4>1 DEF ArcsInv, ListBecomes
    <3>2. CASE g # f
      BY <1>0, <1>1, <1>4, <2>1, <3>2 DEF ArcsInv, SameCounts, SameArcs, ListBecomes
    <3>. QED
      BY <3>1, <3>2
  <2>. QED
    BY <2>1 DEF ArcsInv
<1>7. WalkInv' /\ StoreInv'
  BY <1>1 DEF WalkInv, StoreInv, Recording
<1>. QED
  BY <1>4, <1>5, <1>6, <1>7 DEF ListsInv

\* A handler leaves the thread's call where it is; the list it changed is its
\* function's, which may be the one the thread is in.
LEMMA CountsStep ==
  ASSUME ListsInv, NEW f \in Functions, NEW c \in Callers, HandlerCounts(f, c)
  PROVE  ListsInv'
<1>0. ProfileTypeOK /\ CopiesInv /\ ArcsInv /\ WalkInv /\ StoreInv
  BY DEF ListsInv
<1>1. UNCHANGED <<need_init, alarms, mcount_pie, mcount_pc, self_pc, from_pc, fn_entry, arc, count>>
      /\ UNCHANGED <<overtaken, ticking, sample>>
      /\ mcount_pie /\ FindArc(f, c) > 0 /\ Called(<<f, c>>)
  BY DEF HandlerCounts, Call
<1>. PICK e, a : e = FindFn(f) /\ a = FindArc(f, c)
  OBVIOUS
<1> DEFINE L == Bucket(f)
           sum == SumFunction(CountsAt(L, f, c))
<1>. PICK n : n = L[e].arcs[a].count
  OBVIOUS
<1>. PICK K : K = WithCount(L, e, a, n + 1)
  OBVIOUS
<1>2. /\ AtNewest(L, f, e) /\ e \in EntriesOf(L, f) /\ a \in ArcsFrom(L[e], c)
      /\ \A j \in ArcsFrom(L[e], c) : j <= a
  BY <1>0, <1>1, Finds DEF AtNewest
<1>3. /\ L \in Seq(FnEntry) /\ n \in Nat /\ n + 1 \in Nat /\ clobbered \in Nat
      /\ calls[<<f, c>>] \in Nat /\ FewCopies(L, f)
      /\ sum \in calls[<<f, c>>] - clobbered .. calls[<<f, c>>]
  <2>1. L \in Seq(FnEntry)
    BY <1>0, BucketIs
  <2>2. n \in Nat /\ n + 1 \in Nat
    <3>1. e \in DOMAIN L /\ a \in DOMAIN L[e].arcs
      BY <1>2 DEF EntriesOf, ArcsFrom
    <3>2. L[e].arcs[a].count \in Nat
      BY <2>1, <3>1, EntryAt
    <3>. QED
      BY <3>2
  <2>3. clobbered \in Nat /\ calls[<<f, c>>] \in Nat
    BY <1>0 DEF ProfileTypeOK, Arcs
  <2>4. FewCopies(L, f) /\ sum \in calls[<<f, c>>] - clobbered .. calls[<<f, c>>]
    BY <1>0 DEF CopiesInv, Counted
  <2>. QED
    BY <2>1, <2>2, <2>3, <2>4
<1>4. mcount_pc \notin {"entry", "add"}
  BY <1>0, <1>1, SMTT(30) DEF ProfileTypeOK
<1>5. fns' = [fns EXCEPT ![HashOf[f]] = K]
  BY <1>0 DEF HandlerCounts, WithCount, Bucket, ProfileTypeOK
<1>6. CountChanged(L, K, f, c, e, a, n + 1)
  BY <1>2, <1>3, CountSet, ZenonT(30)
<1>7. K \in Seq(FnEntry) /\ DOMAIN K = DOMAIN L /\ (\A i \in DOMAIN L : K[i].self = L[i].self)
      /\ (\A g \in Functions : SameArcs(L, K, g))
      /\ \A g \in Functions \ {f} : SameCounts(L, K, g)
  BY <1>6, Zenon DEF CountChanged
<1>8. ListBecomes(f, K)
  <2>1. \A i \in DOMAIN K : HashOf[K[i].self] = HashOf[f]
    BY <1>0, <1>7, SMTT(30) DEF ProfileTypeOK
  <2>. QED
    BY <1>0, <1>5, <1>7, <2>1, OneList, ZenonT(30)
<1>9. \A g \in Functions : SameArcs(Bucket(g), Bucket(g)', g)
  BY <1>7, <1>8 DEF SameCounts, ListBecomes
<1>10. SumFunction(CountsAt(K, f, c)) = sum + 1 /\ sum \in Int
  <2>1. CountsAt(K, f, c) = [CountsAt(L, f, c) EXCEPT ![<<e, a>>] = n + 1]
    BY <1>6, Zenon DEF CountChanged
  <2>2. SumFunction(CountsAt(K, f, c)) = sum - n + (n + 1) /\ sum \in Int
    <3>1. L \in Seq(FnEntry) /\ n + 1 \in Nat /\ FewCopies(L, f)
      BY <1>3
    <3>. QED
      BY <1>2, <2>1, <3>1, CountRaised
  <2> HIDE DEF sum
  <2>. QED
    BY <1>3, <2>2, SMTT(30)
<1>11. clobbered' \in Nat /\ clobbered <= clobbered'
  BY <1>3, SMTT(30) DEF HandlerCounts
<1>12. CopiesInv' /\ calls' \in [Arcs -> Nat]
  <2>1. \A d \in Callers \ {c} : CountsAt(K, f, d) = CountsAt(L, f, d)
    BY <1>6, Zenon DEF CountChanged
  <2>2. FewCopies(K, f) /\ Places(K, f, c) = Places(L, f, c)
    <3>1. FewCopies(L, f) /\ SameArcs(L, K, f)
      BY <1>3, <1>7
    <3>. QED
      BY <3>1, SameArcsKeep
  <2>3. Places(K, f, c) # {}
    <3>1. <<e, a>> \in Places(K, f, c)
      BY <1>2, <2>2, InPlaces
    <3>. QED
      BY <3>1
  <2>4. SumFunction(CountsAt(K, f, c)) \in calls[<<f, c>>] + 1 - clobbered' .. calls[<<f, c>>] + 1
    <3> HIDE DEF sum
    <3>. QED
      BY <1>3, <1>10, <1>11, SMTT(30)
  <2>. QED
    BY <1>0, <1>1, <1>8, <1>11, <2>1, <2>2, <2>3, <2>4, CopiesCounted DEF ListBecomes
<1>13. ArcsInv'
  BY <1>0, <1>4, <1>9, ArcsKeep
<1>14. ProfileTypeOK'
  BY <1>0, <1>1, <1>8, <1>11, <1>12 DEF ProfileTypeOK, ListBecomes
<1>15. WalkInv'
  <2>1. mcount_pc # "idle" => SameArcs(Bucket(self_pc), Bucket(self_pc)', self_pc)
    <3>1. ASSUME mcount_pc # "idle" PROVE SameArcs(Bucket(self_pc), Bucket(self_pc)', self_pc)
      <4>1. PICK g \in Functions : g = self_pc
        BY <1>0, <3>1 DEF ProfileTypeOK
      <4>2. SameArcs(Bucket(g), Bucket(g)', g) /\ Bucket(g)' = Bucket(self_pc)'
        BY <1>1, <1>9, <4>1, SMTT(30) DEF Bucket
      <4>. QED
        BY <4>1, <4>2
    <3>. QED
      BY <3>1
  <2>. QED
    BY <1>0, <1>1, <2>1, WalkKeeps
<1>16. StoreInv'
  <2>1. SUFFICES ASSUME mcount_pc = "found" PROVE StoreInv'
    BY <1>1 DEF StoreInv
  <2>2. PICK g \in Functions, d \in Callers, k \in Nat, m \in Nat :
          g = self_pc /\ d = from_pc /\ k = fn_entry /\ m = arc
    BY <1>0, <2>1 DEF ProfileTypeOK
  <2> DEFINE now == Bucket(g)[k].arcs[m].count
             of == SumFunction(CountsAt(Bucket(g), g, d))
             now1 == Bucket(g)'[k].arcs[m].count
             of1 == SumFunction(CountsAt(Bucket(g)', g, d))
  <2>3. /\ AtNewest(Bucket(g), g, k) /\ m \in ArcsFrom(Bucket(g)[k], d)
        /\ \A j \in ArcsFrom(Bucket(g)[k], d) : j <= m
    BY <1>0, <2>1, <2>2 DEF WalkInv
  <2>4. now >= count /\ of - (now - count) >= calls[<<g, d>>] - clobbered
    BY <1>0, <2>1, <2>2 DEF StoreInv, Counted
  <2>5. calls[<<g, d>>] \in Nat /\ count \in Nat /\ of \in Int /\ now \in Nat
    <3>1. calls[<<g, d>>] \in Nat /\ count \in Nat
      BY <1>0 DEF ProfileTypeOK, Arcs
    <3>2. of \in calls[<<g, d>>] - clobbered .. calls[<<g, d>>]
      BY <1>0 DEF CopiesInv, Counted
    <3>3. now \in Nat
      BY <1>0, <2>3, BucketIs, EntryAt DEF AtNewest, EntriesOf, ArcsFrom
    <3> HIDE DEF of, now
    <3>. QED
      BY <1>3, <3>1, <3>2, <3>3
  <2>6. now1 >= count /\ of1 - (now1 - count) >= calls'[<<g, d>>] - clobbered'
    <3>1. CASE g = f /\ d = c
      <4>1. k = e
        <5>1. k <= e /\ e <= k /\ e \in Nat /\ k \in Nat
          BY <1>2, <1>3, <2>3, <3>1 DEF AtNewest, EntriesOf
        <5>. QED
          BY <5>1
      <4>2. m = a
        <5>1. m <= a /\ a <= m
          BY <1>2, <2>3, <3>1, <4>1
        <5>2. L[e].arcs \in Seq(Arc)
          BY <1>2, <1>3, EntryAt DEF EntriesOf
        <5>3. m \in Nat /\ a \in Nat
          BY <1>2, <2>3, <3>1, <4>1, <5>2 DEF ArcsFrom
        <5>. QED
          BY <5>1, <5>3
      <4>3. clobbered' = clobbered + 1
        BY <2>1, <2>2, <3>1, <4>1, <4>2 DEF HandlerCounts
      <4>4. calls'[<<g, d>>] = calls[<<g, d>>] + 1
        BY <1>0, <1>1, <3>1, SMTT(30) DEF Called, ProfileTypeOK, Arcs
      <4>5. now1 = now + 1
        <5>1. K[e].arcs[a].count = n + 1
          BY <1>6, Zenon DEF CountChanged
        <5>. QED
          BY <1>8, <3>1, <4>1, <4>2, <5>1, ZenonT(30) DEF ListBecomes
      <4>6. of1 = of + 1
        BY <1>8, <1>10, <3>1 DEF ListBecomes
      <4> HIDE DEF now, of, now1, of1
      <4>. QED
        BY <1>3, <2>4, <2>5, <4>3, <4>4, <4>5, <4>6
    <3>2. CASE g # f \/ d # c
      <4>1. CountsAt(Bucket(g)', g, d) = CountsAt(Bucket(g), g, d)
        BY <1>6, <1>8, <3>2, ZenonT(30) DEF ListBecomes, SameCounts, CountChanged
      <4>2. of1 = of
        BY <4>1
      <4>3. now1 = now
        BY <2>3, <4>1, CountIs DEF AtNewest
      <4>4. calls'[<<g, d>>] = calls[<<g, d>>]
        BY <1>0, <1>1, <3>2 DEF Called, ProfileTypeOK, Arcs
      <4> HIDE DEF now, of, now1, of1
      <4>. QED
        BY <1>3, <1>11, <2>4, <2>5, <4>2, <4>3, <4>4, SMTT(30)
    <3>. QED
      BY <3>1, <3>2
  <2>. QED
    BY <1>1, <2>2, <2>6 DEF StoreInv, Counted, Bucket
<1>. QED
  BY <1>12, <1>13, <1>14, <1>15, <1>16 DEF ListsInv

\* What the thread is about to store, when a handler counts another arc.
LEMMA StoreKeeps ==
  ASSUME ProfileTypeOK, WalkInv, StoreInv,
         UNCHANGED <<mcount_pc, self_pc, from_pc, fn_entry, arc, count, clobbered>>,
         NEW f \in Functions, NEW c \in Callers, Called(<<f, c>>),
         mcount_pc = "found" => self_pc # f \/ from_pc # c,
         \A g \in Functions, d \in Callers : g # f \/ d # c =>
           CountsAt(Bucket(g)', g, d) = CountsAt(Bucket(g), g, d)
  PROVE  StoreInv'
<1>1. SUFFICES ASSUME mcount_pc = "found" PROVE StoreInv'
  BY DEF StoreInv
<1>2. PICK g \in Functions, d \in Callers, k \in Nat, m \in Nat :
        g = self_pc /\ d = from_pc /\ k = fn_entry /\ m = arc
  BY <1>1 DEF ProfileTypeOK
<1>3. k \in EntriesOf(Bucket(g), g) /\ m \in ArcsFrom(Bucket(g)[k], d)
  BY <1>1, <1>2 DEF WalkInv, AtNewest
<1>4. CountsAt(Bucket(g)', g, d) = CountsAt(Bucket(g), g, d)
  BY <1>1, <1>2
<1>5. Bucket(g)'[k].arcs[m].count = Bucket(g)[k].arcs[m].count
  BY <1>3, <1>4, CountIs
<1>6. Counted(g, d)' = Counted(g, d)
  BY <1>4 DEF Counted
<1>7. calls'[<<g, d>>] = calls[<<g, d>>]
  BY <1>1, <1>2 DEF Called, ProfileTypeOK, Arcs
<1>8. Counted(self_pc, from_pc)' = Counted(g, d)' /\ Bucket(self_pc)' = Bucket(g)'
  BY <1>2 DEF Counted, Bucket
<1>. QED
  BY <1>1, <1>2, <1>5, <1>6, <1>7, <1>8 DEF StoreInv

\* A handler records an arc of a function that has an entry.
LEMMA RecordsArcStep ==
  ASSUME ListsInv, NEW f \in Functions, NEW c \in Callers, HandlerRecords(f, c), FindFn(f) # 0
  PROVE  ListsInv'
<1>0. ProfileTypeOK /\ CopiesInv /\ ArcsInv /\ WalkInv /\ StoreInv
  BY DEF ListsInv
<1>1. UNCHANGED <<mcount_pie, mcount_pc, self_pc, from_pc, fn_entry, arc, count>>
      /\ UNCHANGED <<clobbered, ticking, sample>>
      /\ mcount_pie /\ FindArc(f, c) = 0 /\ Called(<<f, c>>)
  BY DEF HandlerRecords, Call
<1>. PICK e : e = FindFn(f)
  OBVIOUS
<1> DEFINE L == Bucket(f)
<1>. PICK K : K = WithArc(L, e, c)
  OBVIOUS
<1>2. /\ AtNewest(L, f, e) /\ e \in EntriesOf(L, f) /\ ArcsFrom(L[e], c) = {}
      /\ AtMostOne(ArcsFrom(L[e], c)) /\ L \in Seq(FnEntry) /\ e \in Nat
  BY <1>0, <1>1, BucketIs, Finds DEF AtNewest, AtMostOne
<1>3. mcount_pc \notin {"entry", "add"}
  BY <1>0, <1>1 DEF ProfileTypeOK
<1>4. fns' = [fns EXCEPT ![HashOf[f]] = K]
  BY DEF HandlerRecords, WithArc
<1>5. ListBecomes(f, K) /\ ArcMore(L, K, f, c, e) /\ CopiesInv' /\ calls' \in [Arcs -> Nat]
  BY <1>0, <1>1, <1>2, <1>4, ArcAppended
<1>6. /\ DOMAIN K = DOMAIN L /\ K \in Seq(FnEntry)
      /\ K[e].arcs # <<>>
      /\ \A i \in DOMAIN L \ {e} : K[i] = L[i]
      /\ EntriesOf(K, f) = EntriesOf(L, f)
      /\ \A d \in Callers \ {c} : ArcsFrom(K[e], d) = ArcsFrom(L[e], d)
  BY <1>5 DEF ArcMore
<1>7. /\ AtMostOne(ArcsFrom(K[e], c)) /\ DOMAIN L[e].arcs \subseteq DOMAIN K[e].arcs
      /\ Len(L) = Len(K)
  <2>1. ArcsFrom(K[e], c) = {NextArc(L, e)}
    BY <1>2, <1>5 DEF ArcMore
  <2>2. DOMAIN L[e].arcs = 1 .. Len(L[e].arcs) /\ Len(L[e].arcs) \in Nat
        /\ DOMAIN K[e].arcs = 1 .. Len(L[e].arcs) + 1
    BY <1>2, <1>5, EntryAt DEF ArcMore, EntriesOf, NextArc
  <2>3. Len(L) = Len(K)
    BY <1>2, <1>6
  <2>. QED
    BY <2>1, <2>2, <2>3 DEF AtMostOne
<1>8. \A i \in EntriesOf(L, f) : i \in DOMAIN L /\ i \in Nat
  BY <1>2 DEF EntriesOf
<1>9. ProfileTypeOK'
  <2>1. need_init' \in BOOLEAN /\ alarms' \in Nat /\ overtaken' \in BOOLEAN
    <3>1. need_init \in BOOLEAN /\ ticking \in BOOLEAN /\ overtaken \in BOOLEAN
          /\ alarms \in Nat /\ alarms + 1 \in Nat
      BY <1>0 DEF ProfileTypeOK
    <3>. QED
      BY <3>1, Zenon DEF HandlerRecords
  <2>. QED
    BY <1>0, <1>1, <1>5, <2>1 DEF ProfileTypeOK, ListBecomes
<1>10. ArcsInv'
  <2>1. ASSUME NEW g \in Functions, NEW i \in EntriesOf(Bucket(g)', g), Bucket(g)'[i].arcs = <<>>
        PROVE  FALSE
    <3>1. CASE g = f
      <4>1. i \in EntriesOf(L, f) /\ i # e /\ K[i] = L[i]
        BY <1>5, <1>6, <1>8, <2>1, <3>1 DEF ListBecomes
      <4>. QED
        BY <1>0, <1>3, <1>5, <2>1, <3>1, <4>1 DEF ArcsInv, ListBecomes
    <3>2. CASE g # f
      BY <1>0, <1>3, <1>5, <2>1, <3>2 DEF ArcsInv, SameCounts, SameArcs, ListBecomes
    <3>. QED
      BY <3>1, <3>2
  <2>. QED
    BY <2>1 DEF ArcsInv
<1>11. ASSUME mcount_pc # "idle", self_pc = f PROVE WalkInv'
  <2>1. Bucket(self_pc)' = K /\ Bucket(self_pc) = L
    BY <1>1, <1>5, <1>11 DEF ListBecomes, Bucket
  <2>2. from_pc \in Callers /\ fn_entry \in Nat
    BY <1>0, <1>11 DEF ProfileTypeOK
  <2>3. AtMostOne(EntriesOf(L, f)) /\ (\A i \in EntriesOf(L, f) : NoCopies(L[i])) =>
          AtMostOne(EntriesOf(K, f)) /\ \A i \in EntriesOf(K, f) : NoCopies(K[i])
    <3>1. ASSUME AtMostOne(EntriesOf(L, f)), \A i \in EntriesOf(L, f) : NoCopies(L[i]),
                 NEW i \in EntriesOf(K, f), NEW d \in Callers
          PROVE  AtMostOne(ArcsFrom(K[i], d))
      <4>1. i = e
        BY <1>2, <1>6, <3>1 DEF AtMostOne
      <4>. QED
        BY <1>2, <1>6, <1>7, <3>1, <4>1 DEF NoCopies
    <3>. QED
      BY <1>6, <3>1 DEF NoCopies
  <2>4. ASSUME NEW k, SeesFn(L, f, k) PROVE SeesFn(K, f, k)
    BY <1>6, <2>3, <2>4 DEF SeesFn
  <2>5. AtNewest(L, f, fn_entry) => fn_entry = e
    BY <1>2, <1>8 DEF AtNewest
  <2>6. AtNewest(K, f, e)
    BY <1>2, <1>6 DEF AtNewest
  <2>7. SeesArc(L[e], from_pc, arc) => SeesArc(K[e], from_pc, arc)
    BY <1>6, <1>7, <2>2 DEF SeesArc
  <2>8. AtMostOne(ArcsFrom(L[e], from_pc)) => AtMostOne(ArcsFrom(K[e], from_pc))
    BY <1>6, <1>7, <2>2
  <2>9. arc \in ArcsFrom(L[e], from_pc) => ArcsFrom(K[e], from_pc) = ArcsFrom(L[e], from_pc)
    BY <1>2, <1>6, <2>2
  <2>10. UNCHANGED <<mcount_pc, self_pc, from_pc, fn_entry, arc>>
    BY <1>1
  <2>11. (mcount_pc = "fn" =>
            /\ fn_entry <= Len(K) /\ SeesFn(K, f, fn_entry))
    BY <1>0, <1>7, <1>11, <2>1, <2>4 DEF WalkInv
  <2>12. (mcount_pc = "arc" =>
            /\ AtNewest(K, f, fn_entry) /\ arc \in DOMAIN K[fn_entry].arcs
            /\ SeesArc(K[fn_entry], from_pc, arc))
    BY <1>0, <1>7, <1>11, <2>1, <2>5, <2>6, <2>7 DEF WalkInv
  <2>13. (mcount_pc = "found" =>
            /\ AtNewest(K, f, fn_entry) /\ arc \in ArcsFrom(K[fn_entry], from_pc)
            /\ \A j \in ArcsFrom(K[fn_entry], from_pc) : j <= arc)
    BY <1>0, <1>11, <2>1, <2>5, <2>6, <2>9 DEF WalkInv
  <2>14. (mcount_pc \in Recording /\ fn_entry = 0 => SeesFn(K, f, 0))
    BY <1>0, <1>11, <2>1, <2>4 DEF WalkInv
  <2>15. (mcount_pc \in Recording /\ fn_entry # 0 =>
            AtNewest(K, f, fn_entry) /\ AtMostOne(ArcsFrom(K[fn_entry], from_pc)))
    BY <1>0, <1>11, <2>1, <2>5, <2>6, <2>8 DEF WalkInv
  <2>. QED
    BY <1>3, <1>11, <2>1, <2>10, <2>11, <2>12, <2>13, <2>14, <2>15 DEF WalkInv
<1>12. WalkInv'
  <2>1. CASE mcount_pc # "idle" /\ self_pc = f
    BY <1>11, <2>1
  <2>2. CASE ~(mcount_pc # "idle" /\ self_pc = f)
    <3>1. mcount_pc # "idle" => SameArcs(Bucket(self_pc), Bucket(self_pc)', self_pc)
      <4>1. ASSUME mcount_pc # "idle" PROVE SameArcs(Bucket(self_pc), Bucket(self_pc)', self_pc)
        <5>1. PICK g \in Functions : g = self_pc
          BY <1>0, <4>1 DEF ProfileTypeOK
        <5>2. SameArcs(Bucket(g), Bucket(g)', g) /\ Bucket(g)' = Bucket(self_pc)'
          BY <1>1, <1>5, <2>2, <4>1, <5>1 DEF Bucket, ListBecomes, SameCounts
        <5>. QED
          BY <5>1, <5>2
      <4>. QED
        BY <4>1
    <3>. QED
      BY <1>0, <1>1, <3>1, WalkKeeps
  <2>. QED
    BY <2>1, <2>2
<1>13. StoreInv'
  <2>1. mcount_pc = "found" => self_pc # f \/ from_pc # c
    <3>1. mcount_pc = "found" /\ self_pc = f => fn_entry = e /\ arc \in ArcsFrom(L[e], from_pc)
      <4>1. ASSUME mcount_pc = "found", self_pc = f
            PROVE  fn_entry = e /\ arc \in ArcsFrom(L[e], from_pc)
        <5>1. AtNewest(L, f, fn_entry) /\ arc \in ArcsFrom(L[fn_entry], from_pc)
          BY <1>0, <4>1 DEF WalkInv
        <5>2. fn_entry = e
          BY <1>2, <1>8, <5>1 DEF AtNewest
        <5>. QED
          BY <5>1, <5>2
      <4>. QED
        BY <4>1
    <3>. QED
      BY <1>2, <3>1
  <2>2. \A g \in Functions, d \in Callers : g # f \/ d # c =>
          CountsAt(Bucket(g)', g, d) = CountsAt(Bucket(g), g, d)
    <3>1. \A d \in Callers \ {c} : CountsAt(K, f, d) = CountsAt(L, f, d)
      <4>1. FewCopies(L, f)
        BY <1>0 DEF CopiesInv
      <4>2. OneCallMore(L, K, f, c)
        BY <1>2, <4>1, ArcCounted
      <4>. QED
        BY <4>2 DEF OneCallMore
    <3>. QED
      BY <1>5, <3>1 DEF ListBecomes, SameCounts
  <2>. QED
    BY <1>0, <1>1, <2>1, <2>2, StoreKeeps
<1>. QED
  BY <1>5, <1>9, <1>10, <1>12, <1>13 DEF ListsInv

\* An element appended, and then replaced.
LEMMA AppendReplaced ==
  ASSUME NEW S, NEW L \in Seq(S), NEW x \in S, NEW y \in S
  PROVE  [Append(L, x) EXCEPT ![Len(L) + 1] = y] = Append(L, y)
<1>1. /\ DOMAIN L = 1 .. Len(L) /\ Len(L) \in Nat
      /\ DOMAIN Append(L, x) = 1 .. Len(L) + 1 /\ DOMAIN Append(L, y) = 1 .. Len(L) + 1
  OBVIOUS
<1> DEFINE A == Append(L, x)
           B == Append(L, y)
           F == [A EXCEPT ![Len(L) + 1] = y]
<1>2. /\ A \in Seq(S) /\ B \in Seq(S) /\ Len(A) = Len(L) + 1 /\ Len(B) = Len(L) + 1
      /\ \A i \in 1 .. Len(L) : A[i] = L[i] /\ B[i] = L[i]
      /\ B[Len(L) + 1] = y
  OBVIOUS
<1>3. Len(L) + 1 \in 1 .. Len(A)
  BY <1>1, <1>2
<1>. HIDE DEF A, B
<1>4. /\ F \in Seq(S) /\ Len(F) = Len(A)
      /\ \A j \in 1 .. Len(A) : F[j] = IF j = Len(L) + 1 THEN y ELSE A[j]
  BY <1>2, <1>3, ExceptSeq
<1>5. \A i \in 1 .. Len(F) : F[i] = B[i]
  BY <1>1, <1>2, <1>4
<1>. HIDE DEF F
<1>6. F = B
  BY <1>2, <1>4, <1>5, SeqEqual
<1>. QED
  BY <1>6 DEF F, A, B

\* A handler records an arc of a function that has none.
LEMMA RecordsEntryStep ==
  ASSUME ListsInv, NEW f \in Functions, NEW c \in Callers, HandlerRecords(f, c), FindFn(f) = 0
  PROVE  ListsInv'
<1>0. ProfileTypeOK /\ CopiesInv /\ ArcsInv /\ WalkInv /\ StoreInv
  BY DEF ListsInv
<1>1. UNCHANGED <<mcount_pie, mcount_pc, self_pc, from_pc, fn_entry, arc, count>>
      /\ UNCHANGED <<clobbered, ticking, sample>>
      /\ mcount_pie /\ Called(<<f, c>>)
  BY DEF HandlerRecords, Call
<1> DEFINE L == Bucket(f)
           sum == SumFunction(CountsAt(L, f, c))
<1>. PICK e : e = NextEntry(L)
  OBVIOUS
<1>. PICK M : M = WithEntry(L, f, <<>>)
  OBVIOUS
<1>. PICK K : K = WithArc(M, e, c)
  OBVIOUS
<1>2. /\ EntriesOf(L, f) = {} /\ L \in Seq(FnEntry) /\ <<>> \in Seq(Arc)
      /\ SeesFn(L, f, 0)
  <2>1. EntriesOf(L, f) = {} /\ L \in Seq(FnEntry)
    BY <1>0, BucketIs, Finds
  <2>. QED
    BY <2>1 DEF SeesFn
<1>3. mcount_pc \notin {"entry", "add"}
  BY <1>0, <1>1 DEF ProfileTypeOK
<1>4. EntryMore(L, M, f, <<>>) /\ EmptyEntry(L, M, f)
  BY <1>2, EntryAdded, EntryCounted
<1>5. /\ M \in Seq(FnEntry) /\ e \in Nat /\ e # 0 /\ DOMAIN M = DOMAIN L \union {e} /\ e \notin DOMAIN L
      /\ \A i \in DOMAIN L : M[i] = L[i]
      /\ M[e].self = f /\ M[e].arcs = <<>>
      /\ EntriesOf(M, f) = {e}
      /\ \A g \in Functions \ {f} : SameCounts(L, M, g)
      /\ Len(L) <= Len(M)
  <2>1. e # 0
    BY <1>2 DEF NextEntry
  <2>. QED
    BY <1>2, <1>4, <2>1 DEF EntryMore
<1>6. /\ FewCopies(M, f) /\ AtNewest(M, f, e) /\ ArcsFrom(M[e], c) = {}
      /\ \A d \in Callers : ArcsFrom(M[e], d) = {}
      /\ \A d \in Callers : CountsAt(M, f, d) = CountsAt(L, f, d)
  BY <1>4 DEF EmptyEntry
<1>7. e \in EntriesOf(M, f) /\ AtMostOne(ArcsFrom(M[e], c))
  BY <1>5, <1>6 DEF AtMostOne
<1>8. ArcMore(M, K, f, c, e) /\ OneCallMore(M, K, f, c)
  BY <1>5, <1>6, <1>7, ArcAdded, ArcCounted
<1>9. /\ K \in Seq(FnEntry) /\ DOMAIN K = DOMAIN M
      /\ \A i \in DOMAIN M : K[i].self = M[i].self
      /\ K[e].arcs # <<>>
      /\ EntriesOf(K, f) = {e}
      /\ \A d \in Callers \ {c} : ArcsFrom(K[e], d) = {}
      /\ ArcsFrom(K[e], c) = {NextArc(M, e)}
      /\ \A g \in Functions \ {f} : SameCounts(M, K, g)
  BY <1>5, <1>6, <1>8 DEF ArcMore
<1>10. Len(L) <= Len(K)
  <2>1. Len(K) = Len(M)
    BY <1>5, <1>9
  <2>. QED
    BY <1>5, <2>1
<1>11. fns' = [fns EXCEPT ![HashOf[f]] = K]
  <2>1. K = Append(L, [self |-> f, arcs |-> <<NewArc(c)>>])
    <3> DEFINE one == [self |-> f, arcs |-> <<NewArc(c)>>]
               new == [self |-> f, arcs |-> <<>>]
    <3>1. one.arcs = <<NewArc(c)>> /\ [new EXCEPT !.arcs = Append(@, NewArc(c))] = one
      OBVIOUS
    <3>2. M = Append(L, new) /\ M[e] = new
      BY <1>2 DEF WithEntry, NextEntry
    <3>3. K = [M EXCEPT ![e] = one]
      BY <3>1, <3>2 DEF WithArc
    <3> HIDE DEF one, new
    <3>4. [Append(L, new) EXCEPT ![e] = one] = Append(L, one)
      <4>1. e = Len(L) + 1
        BY DEF NextEntry
      <4>2. one \in FnEntry /\ new \in FnEntry
        BY <1>2 DEF one, new, FnEntry, NewArc, Arc
      <4>. HIDE DEF L
      <4>. QED
        BY <1>2, <4>1, <4>2, AppendReplaced
    <3>. QED
      BY <3>2, <3>3, <3>4 DEF one
  <2>. QED
    BY <2>1 DEF HandlerRecords
<1>12. \A g \in Functions \ {f} : SameCounts(L, K, g)
  <2>1. Len(L) <= Len(K)
    BY <1>10
  <2>2. ASSUME NEW g \in Functions \ {f} PROVE SameCounts(L, K, g)
    <3>1. SameCounts(L, M, g) /\ SameCounts(M, K, g)
      BY <1>5, <1>9
    <3>. QED
      BY <2>1, <3>1 DEF SameCounts, SameArcs
  <2>. QED
    BY <2>2
<1>13. ListBecomes(f, K)
  <2>1. \A i \in DOMAIN K : HashOf[K[i].self] = HashOf[f]
    <3>1. \A i \in DOMAIN L : HashOf[L[i].self] = HashOf[f]
      BY <1>0 DEF ProfileTypeOK
    <3>. QED
      BY <1>5, <1>9, <3>1
  <2>. QED
    BY <1>0, <1>9, <1>11, <1>12, <2>1, OneList
<1>14. /\ FewCopies(K, f) /\ Places(K, f, c) # {}
       /\ SumFunction(CountsAt(K, f, c)) = sum + 1
       /\ \A d \in Callers \ {c} : CountsAt(K, f, d) = CountsAt(L, f, d)
  BY <1>6, <1>8 DEF OneCallMore
<1>15. CopiesInv' /\ calls' \in [Arcs -> Nat]
  <2>1. /\ sum \in calls[<<f, c>>] - clobbered .. calls[<<f, c>>]
        /\ calls[<<f, c>>] \in Nat /\ clobbered \in Nat
    BY <1>0 DEF CopiesInv, Counted, ProfileTypeOK, Arcs
  <2>2. clobbered' \in Nat /\ clobbered' = clobbered /\ clobbered <= clobbered'
    BY <1>1, <2>1
  <2>3. SumFunction(CountsAt(K, f, c)) \in calls[<<f, c>>] + 1 - clobbered' .. calls[<<f, c>>] + 1
    <3> HIDE DEF sum
    <3>. QED
      BY <1>14, <2>1, <2>2
  <2>. QED
    BY <1>0, <1>1, <1>13, <1>14, <2>2, <2>3, CopiesCounted DEF ListBecomes
<1>16. ProfileTypeOK'
  <2>1. need_init' \in BOOLEAN /\ alarms' \in Nat /\ overtaken' \in BOOLEAN
    <3>1. need_init \in BOOLEAN /\ ticking \in BOOLEAN /\ overtaken \in BOOLEAN
          /\ alarms \in Nat /\ alarms + 1 \in Nat
      BY <1>0 DEF ProfileTypeOK
    <3>. QED
      BY <3>1, Zenon DEF HandlerRecords
  <2>. QED
    BY <1>0, <1>1, <1>13, <1>15, <2>1 DEF ProfileTypeOK, ListBecomes
<1>17. ArcsInv'
  <2>1. ASSUME NEW g \in Functions, NEW i \in EntriesOf(Bucket(g)', g), Bucket(g)'[i].arcs = <<>>
        PROVE  FALSE
    <3>1. CASE g = f
      BY <1>9, <1>13, <2>1, <3>1 DEF ListBecomes
    <3>2. CASE g # f
      BY <1>0, <1>3, <1>13, <2>1, <3>2 DEF ArcsInv, SameCounts, SameArcs, ListBecomes
    <3>. QED
      BY <3>1, <3>2
  <2>. QED
    BY <2>1 DEF ArcsInv
<1>18. ASSUME mcount_pc # "idle", self_pc = f PROVE WalkInv'
  <2>1. Bucket(self_pc)' = K /\ Bucket(self_pc) = L
    BY <1>1, <1>13, <1>18 DEF ListBecomes, Bucket
  <2>2. \A k : SeesFn(K, f, k)
    <3>1. AtMostOne(EntriesOf(K, f))
      BY <1>9 DEF AtMostOne
    <3>2. ASSUME NEW d \in Callers PROVE AtMostOne(ArcsFrom(K[e], d))
      <4>1. CASE d = c
        BY <1>9, <4>1 DEF AtMostOne
      <4>2. CASE d # c
        BY <1>9, <4>2 DEF AtMostOne
      <4>. QED
        BY <4>1, <4>2
    <3>3. NoCopies(K[e])
      BY <3>2 DEF NoCopies
    <3>. QED
      BY <1>9, <3>1, <3>3 DEF SeesFn
  <2>3. ~AtNewest(L, f, fn_entry)
    BY <1>2 DEF AtNewest
  <2>4. UNCHANGED <<mcount_pc, self_pc, from_pc, fn_entry, arc>>
    BY <1>1
  <2>5. mcount_pc = "fn" => fn_entry <= Len(L)
    BY <1>0, <1>18, <2>1 DEF WalkInv
  <2>6. mcount_pc = "fn" => fn_entry <= Len(K)
    <3>1. fn_entry \in Nat /\ Len(L) \in Nat /\ Len(K) \in Nat
      BY <1>0, <1>2, <1>9 DEF ProfileTypeOK
    <3>. QED
      BY <1>10, <2>5, <3>1
  <2>7. mcount_pc # "arc" /\ mcount_pc # "found" /\ ~(mcount_pc \in Recording /\ fn_entry # 0)
    BY <1>0, <1>18, <2>1, <2>3 DEF WalkInv
  <2>. QED
    BY <1>3, <1>18, <2>1, <2>2, <2>4, <2>6, <2>7 DEF WalkInv
<1>19. WalkInv'
  <2>1. CASE mcount_pc # "idle" /\ self_pc = f
    BY <1>18, <2>1
  <2>2. CASE ~(mcount_pc # "idle" /\ self_pc = f)
    <3>1. mcount_pc # "idle" => SameArcs(Bucket(self_pc), Bucket(self_pc)', self_pc)
      <4>1. ASSUME mcount_pc # "idle" PROVE SameArcs(Bucket(self_pc), Bucket(self_pc)', self_pc)
        <5>1. PICK g \in Functions : g = self_pc
          BY <1>0, <4>1 DEF ProfileTypeOK
        <5>2. SameArcs(Bucket(g), Bucket(g)', g) /\ Bucket(g)' = Bucket(self_pc)'
          BY <1>1, <1>13, <2>2, <4>1, <5>1 DEF Bucket, ListBecomes, SameCounts
        <5>. QED
          BY <5>1, <5>2
      <4>. QED
        BY <4>1
    <3>. QED
      BY <1>0, <1>1, <3>1, WalkKeeps
  <2>. QED
    BY <2>1, <2>2
<1>20. StoreInv'
  <2>1. mcount_pc = "found" => self_pc # f \/ from_pc # c
    BY <1>0, <1>2 DEF WalkInv, AtNewest
  <2>2. \A g \in Functions, d \in Callers : g # f \/ d # c =>
          CountsAt(Bucket(g)', g, d) = CountsAt(Bucket(g), g, d)
    BY <1>13, <1>14 DEF ListBecomes, SameCounts
  <2>. QED
    BY <1>0, <1>1, <2>1, <2>2, StoreKeeps
<1>. QED
  BY <1>15, <1>16, <1>17, <1>19, <1>20 DEF ListsInv

\* The clock and the samples leave the lists.
LEMMA ListsStay ==
  ASSUME ListsInv,
         UNCHANGED <<fns, need_init, alarms, mcount_pie, mcount_pc, self_pc, from_pc, fn_entry,
                     arc, count, calls, clobbered, overtaken>>,
         ticking' \in BOOLEAN
  PROVE  ListsInv'
BY ZenonT(30) DEF ListsInv, ProfileTypeOK, WalkInv, ArcsInv, CopiesInv, StoreInv, Counted, Copies, Bucket

LEMMA ListsStep == ListsInv /\ [ProfileNext]_profileVars => ListsInv'
<1> SUFFICES ASSUME ListsInv, [ProfileNext]_profileVars PROVE ListsInv'
  OBVIOUS
<1>0. ticking \in BOOLEAN
  BY DEF ListsInv, ProfileTypeOK
<1>1. CASE UNCHANGED profileVars
  BY <1>0, <1>1, ListsStay DEF profileVars
<1>2. ASSUME NEW f \in Functions, NEW c \in Callers, HandlerRecords(f, c) PROVE ListsInv'
  BY <1>2, RecordsArcStep, RecordsEntryStep
<1>3. ASSUME ClockStarts PROVE ListsInv'
  BY <1>3, ListsStay DEF ClockStarts, Lists, Call
<1>4. ASSUME NEW site \in TextStart - 1 .. TextEnd, PcSample(site) PROVE ListsInv'
  BY <1>0, <1>4, ListsStay DEF PcSample, Lists, Call
<1>. QED
  BY <1>1, <1>2, <1>3, <1>4, CallStep, CountsStep, FnStep, ArcStep, FoundStep, RecordSteps,
     EntryStep, AddStep, Zenon DEF ProfileNext

-----------------------------------------------------------------------------
(* What the profiler starts with, its alarm and its samples *)

LEMMA ProfileStarts == ProfileInit => GmonInv
<1>. SUFFICES ASSUME ProfileInit PROVE GmonInv
  OBVIOUS
<1>0. HashOf \in [Functions -> Nat]
  BY ProfileAssumption
<1>1. mcount_pc = "idle" /\ clobbered = 0 /\ calls = [a \in Arcs |-> 0]
  BY DEF ProfileInit
<1>2. \A f \in Functions : Bucket(f) = <<>>
  BY <1>0 DEF ProfileInit, Bucket
<1>3. \A f : EntriesOf(<<>>, f) = {}
  BY DEF EntriesOf
<1>4. ASSUME NEW f \in Functions, NEW c \in Callers
      PROVE  Places(Bucket(f), f, c) = {} /\ Counted(f, c) = 0 /\ FewCopies(Bucket(f), f)
  <2>1. Bucket(f) = <<>> /\ EntriesOf(Bucket(f), f) = {}
    BY <1>2, <1>3
  <2>2. Places(Bucket(f), f, c) = {}
    BY <2>1 DEF Places
  <2> DEFINE counts == CountsAt(Bucket(f), f, c)
  <2>3. DOMAIN counts = {}
    BY <2>2 DEF CountsAt
  <2> HIDE DEF counts
  <2>4. IsFiniteSet({}) /\ \A x \in {} : counts[x] \in Int
    BY FS_EmptySet
  <2>5. SumFunctionOnSet(counts, {}) = 0
    BY <2>4, SumOf
  <2>6. SumFunction(counts) = 0
    BY <2>3, <2>5 DEF SumFunction
  <2>7. FewCopies(Bucket(f), f)
    BY <2>1 DEF FewCopies
  <2>. QED
    BY <2>2, <2>6, <2>7 DEF Counted, counts
<1>5. ProfileTypeOK
  <2>1. fns \in [{HashOf[f] : f \in Functions} -> Seq(FnEntry)]
    BY DEF ProfileInit
  <2>2. \A f \in Functions : DOMAIN Bucket(f) = {}
    BY <1>2
  <2>3. calls \in [Arcs -> Nat] /\ "idle" \in McountPcs
    BY <1>1 DEF McountPcs
  <2>4. mcount_pie = TRUE /\ need_init = TRUE /\ ticking = FALSE /\ overtaken = FALSE
        /\ alarms = 0 /\ fn_entry = 0 /\ arc = 0 /\ count = 0
    BY DEF ProfileInit
  <2>5. mcount_pie \in BOOLEAN /\ (mcount_pie <=> mcount_pc \notin {"entry", "add"})
    BY <1>1, <2>4
  <2>6. alarms \in Nat /\ fn_entry \in Nat /\ arc \in Nat /\ count \in Nat /\ clobbered \in Nat
        /\ need_init \in BOOLEAN /\ ticking \in BOOLEAN /\ overtaken \in BOOLEAN
    BY <1>1, <2>4
  <2>. QED
    BY <1>1, <2>1, <2>2, <2>3, <2>5, <2>6 DEF ProfileTypeOK
<1>6. WalkInv /\ StoreInv
  BY <1>1 DEF WalkInv, StoreInv, Recording
<1>7. ArcsInv
  BY <1>2, <1>3 DEF ArcsInv
<1>8. CopiesInv
  <2>1. \A f \in Functions, c \in Callers : calls[f, c] = 0
    BY <1>1 DEF Arcs
  <2>2. ASSUME NEW f \in Functions, NEW c \in Callers
        PROVE  /\ FewCopies(Bucket(f), f)
               /\ Counted(f, c) \in calls[f, c] - clobbered .. calls[f, c]
               /\ calls[f, c] > 0 => Copies(f, c) # {}
    <3>1. calls[f, c] = 0 /\ clobbered = 0 /\ Counted(f, c) = 0 /\ FewCopies(Bucket(f), f)
      BY <1>1, <1>4, <2>1
    <3>2. 0 \in 0 - 0 .. 0 /\ ~(0 > 0)
      OBVIOUS
    <3>. QED
      BY <3>1, <3>2, Zenon
  <2>. QED
    BY <2>2 DEF CopiesInv
<1>9. AlarmInv /\ SamplesInv
  BY DEF ProfileInit, AlarmInv, SamplesInv
<1>. QED
  BY <1>5, <1>6, <1>7, <1>8, <1>9 DEF GmonInv, ListsInv

LEMMA AlarmStep == ProfileTypeOK /\ AlarmInv /\ [ProfileNext]_profileVars => AlarmInv'
<1>. SUFFICES ASSUME ProfileTypeOK, AlarmInv, [ProfileNext]_profileVars PROVE AlarmInv'
  OBVIOUS
<1>0. alarms \in Nat /\ ticking \in BOOLEAN /\ need_init \in BOOLEAN /\ overtaken \in BOOLEAN
  BY DEF ProfileTypeOK
<1>1. ASSUME NEW f \in Functions, NEW c \in Callers, McountCall(f, c) PROVE AlarmInv'
  BY <1>1 DEF McountCall, AlarmInv, Goto, Lists, History
<1>2. ASSUME NEW f \in Functions, NEW c \in Callers, HandlerCounts(f, c) PROVE AlarmInv'
  BY <1>2 DEF HandlerCounts, AlarmInv
<1>3. ASSUME NEW f \in Functions, NEW c \in Callers, HandlerRecords(f, c) PROVE AlarmInv'
  <2>1. /\ need_init' = (need_init /\ ~ticking)
        /\ alarms' = IF need_init /\ ticking THEN alarms + 1 ELSE alarms
        /\ overtaken' = (overtaken \/ (need_init /\ ticking /\ mcount_pc = "claim"))
        /\ mcount_pc' = mcount_pc /\ ticking' = ticking
    BY <1>3 DEF HandlerRecords
  <2>2. CASE need_init /\ ticking
    <3>1. alarms' = 1 /\ ~need_init' /\ ticking' /\ (mcount_pc = "claim" => overtaken')
          /\ 1 <= 1
      <4>1. alarms = 0 /\ alarms' = alarms + 1
        BY <2>1, <2>2 DEF AlarmInv
      <4>2. alarms' = 1 /\ 1 <= 1
        BY <4>1
      <4>. QED
        BY <2>1, <2>2, <4>2, Zenon
    <3>2. mcount_pc # "start"
      BY <2>2 DEF AlarmInv
    <3>. QED
      BY <2>1, <3>1, <3>2, Zenon DEF AlarmInv
  <2>3. CASE ~(need_init /\ ticking)
    <3>1. UNCHANGED <<alarms, ticking, mcount_pc>> /\ need_init' = need_init /\ overtaken' = overtaken
      BY <1>0, <2>1, <2>3
    <3>. QED
      BY <3>1 DEF AlarmInv
  <2>. QED
    BY <2>2, <2>3
<1>4. CASE McountFn \/ McountArc \/ McountFound
  BY <1>4 DEF McountFn, McountArc, McountFound, AlarmInv, Goto, Lists, Call, History
<1>5. CASE RecordCheck
  <2>1. UNCHANGED <<ticking, alarms, need_init, overtaken>> /\ mcount_pc = "record"
        /\ mcount_pc' = IF need_init THEN "claim" ELSE "disable"
    BY <1>5 DEF RecordCheck, Goto, Lists, History
  <2>2. CASE need_init
    <3>1. need_init' /\ alarms' = 0 /\ mcount_pc' = "claim"
      BY <2>1, <2>2 DEF AlarmInv
    <3>2. ticking' = ticking /\ 0 <= 1 /\ "claim" # "start"
      BY <2>1
    <3>. QED
      BY <3>1, <3>2, Zenon DEF AlarmInv
  <2>3. CASE ~need_init
    BY <2>1, <2>3 DEF AlarmInv
  <2>. QED
    BY <2>2, <2>3
<1>6. CASE RecordClaim
  <2>1. UNCHANGED <<ticking, alarms, overtaken>> /\ mcount_pc = "claim"
        /\ need_init' = FALSE /\ mcount_pc' = "start"
    BY <1>6 DEF RecordClaim, Goto, History
  <2>2. alarms = 0 \/ (overtaken /\ alarms = 1)
    BY <2>1 DEF AlarmInv
  <2>3. ~ticking => alarms = 0
    BY DEF AlarmInv
  <2>4. alarms <= 1
    BY <2>2
  <2>. QED
    BY <2>1, <2>2, <2>3, <2>4, Zenon DEF AlarmInv
<1>7. CASE RecordStart
  <2>1. UNCHANGED <<ticking, overtaken>> /\ mcount_pc = "start"
        /\ need_init' = ~ticking /\ mcount_pc' = "disable"
        /\ alarms' = IF ticking THEN alarms + 1 ELSE alarms
    BY <1>7 DEF RecordStart, Goto, History
  <2>2. (alarms = 0 \/ (overtaken /\ alarms = 1)) /\ (~ticking => alarms = 0)
    BY <2>1 DEF AlarmInv
  <2>3. /\ ~ticking => alarms' = 0 /\ need_init'
        /\ need_init' => alarms' = 0
        /\ alarms' <= 1 \/ (overtaken /\ alarms' = 2)
    <3>0. need_init' <=> ~ticking
      BY <2>1, Zenon
    <3>1. CASE ticking
      <4>1. alarms' = alarms + 1 /\ ~need_init'
        BY <2>1, <3>0, <3>1, Zenon
      <4>2. alarms' = 1 \/ (overtaken /\ alarms' = 2)
        BY <2>2, <4>1
      <4>3. alarms' = 1 => alarms' <= 1
        OBVIOUS
      <4>. QED
        BY <3>1, <4>1, <4>2, <4>3, Zenon
    <3>2. CASE ~ticking
      <4>1. alarms' = 0 /\ need_init'
        BY <2>1, <2>2, <3>0, <3>2, Zenon
      <4>2. 0 <= 1
        OBVIOUS
      <4>. QED
        BY <4>1, <4>2, Zenon
    <3>. QED
      BY <3>1, <3>2
  <2>4. mcount_pc' \notin {"claim", "start"}
    BY <2>1
  <2>. QED
    BY <2>1, <2>3, <2>4, Zenon DEF AlarmInv
<1>8. CASE RecordDisable \/ RecordEntry \/ RecordArc
  BY <1>8 DEF RecordDisable, RecordEntry, RecordArc, AlarmInv, Goto, History
<1>9. CASE ClockStarts
  BY <1>0, <1>9 DEF ClockStarts, AlarmInv, Lists
<1>10. ASSUME NEW site \in TextStart - 1 .. TextEnd, PcSample(site) PROVE AlarmInv'
  BY <1>10 DEF PcSample, AlarmInv, Lists
<1>11. CASE UNCHANGED profileVars
  BY <1>11 DEF profileVars, AlarmInv
<1>. QED
  BY <1>1, <1>2, <1>3, <1>4, <1>5, <1>6, <1>7, <1>8, <1>9, <1>10, <1>11 DEF ProfileNext

LEMMA SamplesStep == SamplesInv /\ [ProfileNext]_profileVars => SamplesInv'
<1>. SUFFICES ASSUME SamplesInv, [ProfileNext]_profileVars PROVE SamplesInv'
  OBVIOUS
<1>1. ASSUME NEW site \in TextStart - 1 .. TextEnd, PcSample(site) PROVE SamplesInv'
  <2>1. TextStart \in Nat /\ TextEnd \in Nat /\ site \in Int
    BY ProfileAssumption
  <2>2. TextStart <= site /\ site < TextEnd /\ sample' = {(site - TextStart) \div PcBucket}
    BY <1>1 DEF PcSample, SampleAt
  <2>3. site \in TextStart .. TextEnd - 1
    BY <2>1, <2>2
  <2>. QED
    BY <2>2, <2>3 DEF SamplesInv
<1>2. CASE UNCHANGED sample
  BY <1>2, SMTT(30) DEF SamplesInv
<1>3. (\E site \in TextStart - 1 .. TextEnd : PcSample(site)) \/ UNCHANGED sample
  BY Zenon DEF ProfileNext, profileVars, McountCall, HandlerCounts, HandlerRecords, McountFn, McountArc,
     McountFound, RecordCheck, RecordClaim, RecordStart, RecordDisable, RecordEntry, RecordArc,
     ClockStarts, History
<1>. QED
  BY <1>1, <1>2, <1>3

\* A sample out of the histogram is of the bucket of which the text has only a part.
LEMMA JustPast ==
  ASSUME NEW n \in Nat, NEW b \in Nat \ {0}, NEW x \in 0 .. n - 1,
         x \div b \notin 0 .. n \div b - 1
  PROVE  n % b # 0 /\ x \div b = n \div b
<1>1. /\ n \div b \in Nat /\ n % b \in 0 .. b - 1 /\ n = (n \div b) * b + (n % b)
      /\ x \div b \in Nat /\ x % b \in 0 .. b - 1 /\ x = (x \div b) * b + (x % b)
      /\ x \in Nat
  <2>1. x \in Nat
    OBVIOUS
  <2>. QED
    BY <2>1, Division
<1>2. x \div b >= n \div b
  BY <1>1
<1>3. (n \div b) * b <= (x \div b) * b
  BY <1>1, <1>2, ProductGrows
<1>4. ~(x \div b > n \div b)
  <2>1. ASSUME x \div b >= n \div b + 1 PROVE FALSE
    <3>1. (n \div b + 1) * b <= (x \div b) * b
      BY <1>1, <2>1, ProductGrows
    <3>2. (n \div b + 1) * b = (n \div b) * b + b
      BY <1>1
    <3> DEFINE p == (n \div b) * b
               q == (x \div b) * b
    <3>3. p \in Nat /\ q \in Nat
      BY <1>1
    <3>. HIDE DEF p, q
    <3>4. p + b <= q
      BY <3>1, <3>2 DEF p, q
    <3>5. n = p + (n % b) /\ x = q + (x % b)
      BY <1>1 DEF p, q
    <3>. QED
      BY <1>1, <3>3, <3>4, <3>5
  <2>. QED
    BY <1>1, <2>1
<1>5. x \div b = n \div b
  BY <1>1, <1>2, <1>4
<1>. QED
  BY <1>1, <1>5

LEMMA GmonPromises == GmonInv => ProfileInv
<1>. SUFFICES ASSUME GmonInv PROVE ProfileInv
  OBVIOUS
<1>0. ProfileTypeOK /\ ArcsInv /\ CopiesInv /\ AlarmInv /\ SamplesInv
  BY DEF GmonInv, ListsInv
<1>1. \A f \in Functions, c \in Callers :
        /\ Counted(f, c) \in calls[f, c] - clobbered .. calls[f, c]
        /\ calls[f, c] > 0 => Copies(f, c) # {}
  BY <1>0 DEF CopiesInv
<1>2. ASSUME mcount_pie, NEW f \in Functions, NEW i \in DOMAIN Bucket(f)
      PROVE  Bucket(f)[i].arcs # <<>>
  <2>1. Bucket(f)[i].self \in Functions /\ HashOf[Bucket(f)[i].self] = HashOf[f]
    BY <1>0, BucketIs, EntryAt DEF ProfileTypeOK
  <2>2. PICK g \in Functions : g = Bucket(f)[i].self /\ Bucket(g) = Bucket(f)
    BY <2>1 DEF Bucket
  <2>3. i \in EntriesOf(Bucket(g), g)
    BY <2>2 DEF EntriesOf
  <2>4. mcount_pc # "add"
    BY <1>0, <1>2 DEF ProfileTypeOK
  <2>. QED
    BY <1>0, <2>2, <2>3, <2>4 DEF ArcsInv
<1>3. ASSUME NEW k \in sample \ Histogram
      PROVE  (TextEnd - TextStart) % PcBucket # 0 /\ k = Max({-1} \union Histogram) + 1
  <2> DEFINE n == TextEnd - TextStart
             m == n \div PcBucket
  <2>1. TextStart \in Nat /\ TextEnd \in Nat /\ n \in Nat /\ PcBucket \in Nat \ {0}
    BY ProfileAssumption
  <2>2. PICK site \in TextStart .. TextEnd - 1 : k = (site - TextStart) \div PcBucket
    BY <1>0, <1>3 DEF SamplesInv
  <2>3. site - TextStart \in 0 .. n - 1 /\ k \notin 0 .. m - 1
    BY <1>3, <2>1, <2>2 DEF Histogram
  <2>4. n % PcBucket # 0 /\ k = m
    BY <2>1, <2>2, <2>3, JustPast
  <2>5. m \in Nat
    BY <2>1, Division
  <2> HIDE DEF m
  <2>6. Max({-1} \union (0 .. m - 1)) = m - 1
    BY <2>5 DEF Max
  <2>7. Histogram = 0 .. m - 1
    BY DEF Histogram, m
  <2>. QED
    BY <2>4, <2>5, <2>6, <2>7
<1>. QED
  BY <1>0, <1>1, <1>2, <1>3 DEF ProfileInv, AlarmInv

HIDE ProfileAssumption
-----------------------------------------------------------------------------
(* Printing: runs and place values *)

\* What holds at 0, and of i + 1 when of i, holds up to n.
LEMMA UpToN ==
  ASSUME NEW n \in Nat, NEW T \in SUBSET (0 .. n), 0 \in T,
         \A i \in 1 .. n : i - 1 \in T => i \in T
  PROVE  T = 0 .. n
<1> DEFINE bad == (0 .. n) \ T
<1>1. ASSUME bad # {} PROVE FALSE
  <2>1. bad \in SUBSET Nat
    OBVIOUS
  <2>. HIDE DEF bad
  <2>2. Min(bad) \in bad /\ \A y \in bad : Min(bad) <= y
    BY <1>1, <2>1, Smallest
  <2>3. PICK m \in Nat : m \in bad /\ \A y \in bad : m <= y
    BY <2>1, <2>2
  <2>4. m \in 1 .. n /\ m - 1 \in 0 .. n /\ ~(m <= m - 1)
    BY <2>3 DEF bad
  <2>5. m - 1 \in T
    BY <2>3, <2>4 DEF bad
  <2>. QED
    BY <2>3, <2>4, <2>5 DEF bad
<1>. QED
  BY <1>1

\* A run of n steps from base, F taking the step.
Run(g, n, V, base, F) ==
  /\ g \in [0 .. n -> V]
  /\ g[0] = base
  /\ \A i \in 1 .. n : g[i] = F[<<i, g[i - 1]>>]

LEMMA RunExists ==
  ASSUME NEW n \in Nat, NEW V, NEW base \in V, NEW F,
         \A i \in 1 .. n, v \in V : F[<<i, v>>] \in V
  PROVE  \E g : Run(g, n, V, base, F)
<1> DEFINE T == {k \in 0 .. n : \E g : Run(g, k, V, base, F)}
<1>1. 0 \in T
  <2> DEFINE h == [i \in 0 .. 0 |-> base]
  <2>1. Run(h, 0, V, base, F)
    BY DEF Run
  <2>. QED
    BY <2>1
<1>2. ASSUME NEW k \in 1 .. n, k - 1 \in T PROVE k \in T
  <2>1. PICK g : Run(g, k - 1, V, base, F)
    BY <1>2
  <2> DEFINE v == F[<<k, g[k - 1]>>]
             h == [i \in 0 .. k |-> IF i = k THEN v ELSE g[i]]
  <2>2. g \in [0 .. k - 1 -> V] /\ g[0] = base
        /\ \A i \in 1 .. k - 1 : g[i] = F[<<i, g[i - 1]>>]
    BY <2>1 DEF Run
  <2>3. v \in V /\ k - 1 \in 0 .. k - 1 /\ k \in Nat
    BY <2>2
  <2>4. v = F[<<k, g[k - 1]>>]
    OBVIOUS
  <2>. HIDE DEF v
  <2>5. h \in [0 .. k -> V] /\ h[0] = base /\ h[k] = v /\ h[k - 1] = g[k - 1]
    BY <2>2, <2>3
  <2>6. \A i \in 1 .. k : h[i] = F[<<i, h[i - 1]>>]
    <3>1. ASSUME NEW i \in 1 .. k - 1 PROVE h[i] = F[<<i, h[i - 1]>>]
      <4>1. i \in 0 .. k /\ i - 1 \in 0 .. k /\ i # k /\ i - 1 # k
        BY <2>3
      <4>2. h[i] = g[i] /\ h[i - 1] = g[i - 1]
        BY <4>1
      <4>. QED
        BY <2>2, <4>2
    <3>. HIDE DEF h
    <3>. QED
      BY <2>3, <2>4, <2>5, <3>1
  <2>. HIDE DEF h
  <2>7. Run(h, k, V, base, F)
    BY <2>5, <2>6 DEF Run
  <2>. QED
    BY <2>7
<1>. HIDE DEF T
<1>3. T \in SUBSET (0 .. n)
  BY DEF T
<1>4. T = 0 .. n
  BY <1>1, <1>2, <1>3, UpToN
<1>5. n \in T
  BY <1>4
<1>. QED
  BY <1>5 DEF T

\* There is one run.
LEMMA OneRun ==
  ASSUME NEW n \in Nat, NEW V, NEW base, NEW F, NEW g, NEW h, NEW m \in Nat, n <= m,
         Run(g, n, V, base, F), Run(h, m, V, base, F)
  PROVE  \A k \in 0 .. n : g[k] = h[k]
<1> DEFINE T == {k \in 0 .. n : g[k] = h[k]}
<1>1. 0 \in T
  BY DEF Run
<1>2. ASSUME NEW k \in 1 .. n, k - 1 \in T PROVE k \in T
  <2>1. g[k - 1] = h[k - 1] /\ k \in 1 .. n /\ k \in 1 .. m /\ k \in 0 .. n
    BY <1>2
  <2>2. g[k] = F[<<k, g[k - 1]>>] /\ h[k] = F[<<k, h[k - 1]>>]
    BY <2>1 DEF Run
  <2>. QED
    BY <2>1, <2>2
<1>. HIDE DEF T
<1>3. T \in SUBSET (0 .. n)
  BY DEF T
<1>4. T = 0 .. n
  BY <1>1, <1>2, <1>3, UpToN
<1>. QED
  BY <1>4 DEF T

\* The place values of a base.
Weights(p, base, n) == p = [k \in 0 .. n |-> IF k = 0 THEN 1 ELSE p[k - 1] * base]

LEMMA PlaceValueIs ==
  ASSUME NEW base \in Nat \ {0}, NEW n \in Nat
  PROVE  /\ PlaceValue(base, 0) = 1
         /\ PlaceValue(base, n) \in Nat \ {0}
         /\ PlaceValue(base, n + 1) = PlaceValue(base, n) * base
<1> DEFINE V == Nat \ {0}
           F == [x \in Nat \X V |-> x[2] * base]
<1>0. \A v \in V : v * base \in V
  OBVIOUS
<1>1. \A i \in Nat, v \in V : F[<<i, v>>] = v * base
  OBVIOUS
<1>v. V = Nat \ {0} /\ 1 \in V
  OBVIOUS
<1>. HIDE DEF F, V
<1>2. ASSUME NEW m \in Nat
      PROVE  \E g : Run(g, m, V, 1, F) /\ PlaceValue(base, m) = g[m]
  <2>0. \A i \in 1 .. m : i \in Nat
    OBVIOUS
  <2>1. \A i \in 1 .. m, v \in V : F[<<i, v>>] \in V
    BY <1>0, <1>1, <2>0
  <2>2. PICK h : Run(h, m, V, 1, F)
    BY <1>v, <2>1, RunExists
  <2>3. Weights(h, base, m)
    <3>1. h \in [0 .. m -> V] /\ h[0] = 1 /\ \A i \in 1 .. m : h[i] = F[<<i, h[i - 1]>>]
      BY <2>2 DEF Run
    <3>2. \A i \in 1 .. m : h[i] = h[i - 1] * base
      <4>1. \A i \in 1 .. m : i - 1 \in 0 .. m
        OBVIOUS
      <4>. QED
        BY <1>1, <2>0, <3>1, <4>1
    <3>3. \A i \in 0 .. m : h[i] = IF i = 0 THEN 1 ELSE h[i - 1] * base
      BY <3>1, <3>2
    <3>. QED
      BY <3>1, <3>3 DEF Weights
  <2> DEFINE p == CHOOSE p : Weights(p, base, m)
  <2>4. Weights(p, base, m)
    BY <2>3
  <2>5. PlaceValue(base, m) = p[m]
    BY DEF PlaceValue, Weights
  <2>. HIDE DEF p
  <2>6. DOMAIN p = 0 .. m /\ p[0] = 1 /\ \A i \in 1 .. m : p[i] = p[i - 1] * base
    BY <2>4 DEF Weights
  <2>7. \A i \in 0 .. m : p[i] \in V
    <3> DEFINE T == {k \in 0 .. m : p[k] \in V}
    <3>1. 0 \in T /\ \A i \in 1 .. m : i - 1 \in T => i \in T
      BY <1>0, <1>v, <2>6
    <3>. HIDE DEF T
    <3>2. T \in SUBSET (0 .. m)
      BY DEF T
    <3>3. T = 0 .. m
      BY <3>1, <3>2, UpToN
    <3>. QED
      BY <3>3 DEF T
  <2>8. p \in [0 .. m -> V]
    BY <2>4, <2>7 DEF Weights
  <2>9. Run(p, m, V, 1, F)
    <3>1. \A i \in 1 .. m : i - 1 \in 0 .. m
      OBVIOUS
    <3>. QED
      BY <1>1, <2>0, <2>6, <2>7, <2>8, <3>1 DEF Run
  <2>. QED
    BY <2>5, <2>9
<1>3. PICK g : Run(g, 0, V, 1, F) /\ PlaceValue(base, 0) = g[0]
  BY <1>2
<1>4. PICK h : Run(h, n, V, 1, F) /\ PlaceValue(base, n) = h[n]
  BY <1>2
<1>5. PICK f : Run(f, n + 1, V, 1, F) /\ PlaceValue(base, n + 1) = f[n + 1]
  BY <1>2
<1>6. h[n] = f[n]
  BY <1>4, <1>5, OneRun
<1>7. f[n + 1] = F[<<n + 1, f[n]>>] /\ f[n] \in V /\ h[n] \in V /\ g[0] = 1
  BY <1>3, <1>4, <1>5 DEF Run
<1>. QED
  BY <1>1, <1>v, <1>3, <1>4, <1>5, <1>6, <1>7

-----------------------------------------------------------------------------
(* Printing: digits *)

\* The letters that digits are printed with, and the characters of a text.
Alphabets == {Digits, Uppers}
Letters16 == Range(Digits) \union Range(Uppers)
Labels == {" SW CirBuf = ", ", HW FIFO wspace=", " AC=", " WI=", " RI=", " WE=", " RE=",
           "\r", "\n"}
Headers == {"JTAG Startup Info:", "JTAG Alarm:", "JTAG IRQ:"}
Chars == Letters16 \union {"-", " ", "<", ">", "%", "x"} \union Labels \union Headers

\* No letter stands for two values.
LEMMA LettersDiffer ==
  /\ \A i, j \in 1 .. 16 : Digits[i] = Digits[j] => i = j
  /\ \A i, j \in 1 .. 16 : Uppers[i] = Uppers[j] => i = j
  /\ \A i, j \in 1 .. 16 : Digits[i] = Uppers[j] => i = j
<1>1. \A i \in 1 .. 16 : i = 1 \/ i = 2 \/ i = 3 \/ i = 4 \/ i = 5 \/ i = 6 \/ i = 7 \/ i = 8
        \/ i = 9 \/ i = 10 \/ i = 11 \/ i = 12 \/ i = 13 \/ i = 14 \/ i = 15 \/ i = 16
  OBVIOUS
<1>2. \A i, j \in 1 .. 16 : Digits[i] = Digits[j] => i = j
  BY <1>1, SMTT(30) DEF Digits
<1>3. \A i, j \in 1 .. 16 : Uppers[i] = Uppers[j] => i = j
  BY <1>1, SMTT(30) DEF Uppers
<1>4. \A i, j \in 1 .. 16 : Digits[i] = Uppers[j] => i = j
  BY <1>1, SMTT(30) DEF Digits, Uppers
<1>. QED
  BY <1>2, <1>3, <1>4

LEMMA LettersAre ==
  ASSUME NEW letters \in Alphabets, NEW k \in 0 .. 15
  PROVE  /\ letters[k + 1] \in Letters16 /\ letters[k + 1] \in Chars
         /\ ValueOf(letters[k + 1]) = k
         /\ letters[k + 1] = "0" => k = 0
         /\ letters[k + 1] # "-"
<1>1. k + 1 \in 1 .. 16
  OBVIOUS
<1>2. /\ \A i \in 1 .. 16 : Digits[i] # "-" /\ Uppers[i] # "-"
      /\ Digits[1] = "0" /\ Uppers[1] = "0"
      /\ DOMAIN Digits = 1 .. 16 /\ DOMAIN Uppers = 1 .. 16
  <2>0. \A i \in 1 .. 16 : i = 1 \/ i = 2 \/ i = 3 \/ i = 4 \/ i = 5 \/ i = 6 \/ i = 7 \/ i = 8
          \/ i = 9 \/ i = 10 \/ i = 11 \/ i = 12 \/ i = 13 \/ i = 14 \/ i = 15 \/ i = 16
    OBVIOUS
  <2>1. \A i \in 1 .. 16 : Digits[i] # "-"
    BY <2>0 DEF Digits
  <2>2. \A i \in 1 .. 16 : Uppers[i] # "-"
    BY <2>0 DEF Uppers
  <2>3. Digits[1] = "0" /\ Uppers[1] = "0"
    BY DEF Digits, Uppers
  <2>4. DOMAIN Digits = 1 .. 16 /\ DOMAIN Uppers = 1 .. 16
    BY DEF Digits, Uppers
  <2>. QED
    BY <2>1, <2>2, <2>3, <2>4
<1>3. letters = Digits \/ letters = Uppers
  BY DEF Alphabets
<1> DEFINE d == letters[k + 1]
<1>4. \A i \in 1 .. 16 : (Digits[i] = d \/ Uppers[i] = d) <=> i = k + 1
  BY <1>1, <1>3, LettersDiffer
<1>5. ValueOf(d) = k
  <2>1. (CHOOSE i \in 1 .. 16 : Digits[i] = d \/ Uppers[i] = d) = k + 1
    BY <1>1, <1>4
  <2>2. (k + 1) - 1 = k
    OBVIOUS
  <2>. QED
    BY <2>1, <2>2, Zenon DEF ValueOf
<1>6. d \in Letters16 /\ d \in Chars
  BY <1>1, <1>2, <1>3 DEF Letters16, Chars, Range
<1>. QED
  BY <1>1, <1>2, <1>3, <1>5, <1>6, LettersDiffer

\* Dividing by one weight and then by the base.
LEMMA DivisionTwice ==
  ASSUME NEW v \in Nat, NEW P \in Nat \ {0}, NEW base \in Nat \ {0}
  PROVE  /\ v \div P = (v \div (P * base)) * base + ((v \div P) % base)
         /\ v \div (P * base) \in Nat /\ v \div P \in Nat /\ (v \div P) % base \in 0 .. base - 1
<1> DEFINE q == v \div P
           r == v % P
           q2 == q \div base
           d == q % base
<1>1. q \in Nat /\ r \in 0 .. P - 1 /\ v = q * P + r
  BY Division
<1>2. q2 \in Nat /\ d \in 0 .. base - 1 /\ q = q2 * base + d
  BY <1>1, Division
<1>. HIDE DEF q, r
<1>3. q2 * base \in Nat
  BY <1>2
<1>. HIDE DEF q2, d
<1>4. v = q2 * (P * base) + (d * P + r)
  <2>1. (q2 * base + d) * P = q2 * (base * P) + d * P
    BY <1>1, <1>2, Distributes
  <2>2. base * P = P * base /\ q2 * (P * base) \in Nat /\ d * P \in Nat /\ r \in Nat
    BY <1>1, <1>2
  <2>3. q * P = q2 * (P * base) + d * P
    BY <1>2, <2>1, <2>2
  <2>. QED
    BY <1>1, <2>2, <2>3
<1>5. d * P + r \in 0 .. P * base - 1
  <2>1. d \in Nat /\ base - 1 \in Nat /\ d <= base - 1
    BY <1>2
  <2>2. d * P <= (base - 1) * P /\ d * P \in Nat
    BY <2>1, ProductGrows
  <2>3. (base - 1) * P = P * base - P
    OBVIOUS
  <2>4. P * base \in Nat
    OBVIOUS
  <2>. QED
    BY <1>1, <2>2, <2>3, <2>4
<1>6. P * base \in Nat \ {0}
  OBVIOUS
<1>7. v \div (P * base) = q2
  BY <1>2, <1>4, <1>5, <1>6, DivisionUnique
<1>. QED
  BY <1>1, <1>2, <1>7 DEF q, q2, d

\* The n digits of v, however many it needs.
DigitText(v, base, letters, n) ==
  [i \in 1 .. n |-> letters[((v \div PlaceValue(base, n - i)) % base) + 1]]

Reading(value, digits, base) ==
  value = [i \in 0 .. Len(digits) |->
             IF i = 0 THEN 0 ELSE value[i - 1] * base + ValueOf(digits[i])]

\* They are letters, and each stands for its digit.
Digital(s, v, base, n) ==
  /\ s \in Seq(Chars) /\ Len(s) = n
  /\ \A i \in 1 .. n : s[i] \in Letters16 /\ s[i] # "-"
  /\ \A i \in 1 .. n : ValueOf(s[i]) = (v \div PlaceValue(base, n - i)) % base
  /\ \A i \in 1 .. n : s[i] = "0" => (v \div PlaceValue(base, n - i)) % base = 0

LEMMA DigitTextIs ==
  ASSUME NEW base \in 1 .. 16, NEW letters \in Alphabets, NEW v \in Nat, NEW n \in Nat
  PROVE  Digital(DigitText(v, base, letters, n), v, base, n)
<1> DEFINE s == DigitText(v, base, letters, n)
           digit(i) == (v \div PlaceValue(base, n - i)) % base
<1>1. \A i \in 1 .. n : digit(i) \in 0 .. 15
  <2>1. ASSUME NEW i \in 1 .. n PROVE digit(i) \in 0 .. 15
    <3>1. n - i \in Nat /\ base \in Nat \ {0}
      OBVIOUS
    <3>2. PlaceValue(base, n - i) \in Nat \ {0}
      BY <3>1, PlaceValueIs
    <3>3. v \div PlaceValue(base, n - i) \in Nat
      BY <3>2, Division
    <3>4. digit(i) \in 0 .. base - 1
      BY <3>1, <3>3, Division
    <3>. HIDE DEF digit
    <3>. QED
      BY <3>4
  <2>. QED
    BY <2>1
<1>2. s = [i \in 1 .. n |-> letters[digit(i) + 1]]
  BY DEF DigitText
<1>. HIDE DEF s, digit
<1>3. \A i \in 1 .. n :  /\ s[i] = letters[digit(i) + 1] /\ s[i] \in Chars
                       /\ s[i] \in Letters16 /\ s[i] # "-"
                       /\ ValueOf(s[i]) = digit(i) /\ (s[i] = "0" => digit(i) = 0)
  BY <1>1, <1>2, LettersAre
<1>4. s \in Seq(Chars) /\ Len(s) = n
  BY <1>2, <1>3
<1>5. \A i \in 1 .. n : digit(i) = (v \div PlaceValue(base, n - i)) % base
  BY DEF digit
<1>6. Digital(s, v, base, n)
  BY <1>3, <1>4, <1>5 DEF Digital
<1>. QED
  BY <1>6 DEF s

\* They read back to the number.
LEMMA DigitTextReads ==
  ASSUME NEW base \in 2 .. 16, NEW letters \in Alphabets, NEW v \in Nat, NEW n \in Nat \ {0},
         v < PlaceValue(base, n), n > 1 => v >= PlaceValue(base, n - 1)
  PROVE  Reads(DigitText(v, base, letters, n), base, v)
<1> DEFINE s == DigitText(v, base, letters, n)
           h == [i \in 0 .. n |-> v \div PlaceValue(base, n - i)]
<1>0. base \in Nat \ {0} /\ base \in 1 .. 16
  OBVIOUS
<1>d. Digital(s, v, base, n)
  BY <1>0, DigitTextIs
<1>. HIDE DEF s
<1>1. /\ s \in Seq(Chars) /\ Len(s) = n
      /\ \A i \in 1 .. n : s[i] \in Letters16
      /\ \A i \in 1 .. n : ValueOf(s[i]) = (v \div PlaceValue(base, n - i)) % base
      /\ \A i \in 1 .. n : s[i] = "0" => (v \div PlaceValue(base, n - i)) % base = 0
  BY <1>d DEF Digital
<1>2. \A i \in 0 .. n : h[i] \in Nat
  <2>0. \A i \in 0 .. n : n - i \in Nat
    OBVIOUS
  <2>1. \A i \in 0 .. n : PlaceValue(base, n - i) \in Nat \ {0}
    BY <1>0, <2>0, PlaceValueIs
  <2>. QED
    BY <2>1, Division
<1>3. h[0] = 0
  <2>1. PlaceValue(base, n) \in Nat \ {0} /\ n - 0 = n /\ 0 \in 0 .. n
    BY <1>0, PlaceValueIs
  <2>2. v = 0 * PlaceValue(base, n) + v /\ v \in 0 .. PlaceValue(base, n) - 1
    BY <2>1
  <2>. QED
    BY <2>1, <2>2, DivisionUnique
<1>4. ASSUME NEW i \in 1 .. n PROVE h[i] = h[i - 1] * base + ValueOf(s[i])
  <2>1. n - i \in Nat /\ n - (i - 1) = n - i + 1 /\ i \in 0 .. n /\ i - 1 \in 0 .. n
    OBVIOUS
  <2>2. /\ PlaceValue(base, n - i) \in Nat \ {0}
        /\ PlaceValue(base, n - i + 1) = PlaceValue(base, n - i) * base
    BY <1>0, <2>1, PlaceValueIs
  <2>3. v \div PlaceValue(base, n - i)
          = (v \div PlaceValue(base, n - i + 1)) * base + ((v \div PlaceValue(base, n - i)) % base)
    BY <1>0, <2>2, DivisionTwice
  <2>4. h[i] = v \div PlaceValue(base, n - i) /\ h[i - 1] = v \div PlaceValue(base, n - i + 1)
    BY <2>1
  <2>. HIDE DEF h
  <2>. QED
    BY <1>1, <2>3, <2>4
<1>5. h[n] = v
  <2>1. PlaceValue(base, 0) = 1 /\ n - n = 0 /\ n \in 0 .. n
    BY <1>0, PlaceValueIs
  <2>2. v \div 1 = v
    OBVIOUS
  <2>. QED
    BY <2>1, <2>2
<1>6. DOMAIN h = 0 .. n
  OBVIOUS
<1>7. Reading(h, s, base)
  <2>1. h = [i \in 0 .. n |-> h[i]]
    OBVIOUS
  <2>. HIDE DEF h
  <2>2. \A i \in 0 .. n : h[i] = IF i = 0 THEN 0 ELSE h[i - 1] * base + ValueOf(s[i])
    BY <1>3, <1>4
  <2>. QED
    BY <1>1, <2>1, <2>2 DEF Reading
<1>. HIDE DEF h
<1> DEFINE value == CHOOSE value : Reading(value, s, base)
<1>8. Reading(value, s, base)
  BY <1>7
<1>9. ReadBack(s, base) = value[n]
  BY <1>1 DEF ReadBack, Reading
<1>. HIDE DEF value
<1>10. value[0] = 0 /\ \A i \in 1 .. n : value[i] = value[i - 1] * base + ValueOf(s[i])
  BY <1>1, <1>8 DEF Reading
<1>11. value[n] = h[n]
  <2> DEFINE T == {k \in 0 .. n : value[k] = h[k]}
  <2>1. 0 \in T
    BY <1>3, <1>10
  <2>2. ASSUME NEW k \in 1 .. n, k - 1 \in T PROVE k \in T
    <3>1. value[k] = h[k]
      BY <1>4, <1>10, <2>2
    <3>. QED
      BY <3>1
  <2>. HIDE DEF T
  <2>3. T \in SUBSET (0 .. n)
    BY DEF T
  <2>4. T = 0 .. n
    BY <2>1, <2>2, <2>3, UpToN
  <2>. QED
    BY <2>4 DEF T
<1>12. n > 1 => s[1] # "0"
  <2>1. ASSUME n > 1, s[1] = "0" PROVE FALSE
    <3> DEFINE P == PlaceValue(base, n - 1)
    <3>0. n - 1 \in Nat /\ (n - 1) + 1 = n
      OBVIOUS
    <3>1. P \in Nat \ {0} /\ PlaceValue(base, n) = P * base
      BY <1>0, <3>0, PlaceValueIs
    <3>2. (v \div P) % base = 0 /\ v >= P /\ v < P * base
      BY <1>1, <2>1, <3>1
    <3>. HIDE DEF P
    <3>3. v \div P = (v \div (P * base)) * base + ((v \div P) % base)
      BY <1>0, <3>1, DivisionTwice
    <3>4. v \div (P * base) = 0
      <4>1. P * base \in Nat \ {0} /\ v = 0 * (P * base) + v /\ v \in 0 .. P * base - 1
        BY <3>1, <3>2
      <4>. QED
        BY <4>1, DivisionUnique
    <3>5. v \div P = 0
      <4>1. 0 * base = 0 /\ 0 + 0 = 0
        OBVIOUS
      <4>. QED
        BY <3>2, <3>3, <3>4, <4>1, Zenon
    <3>6. v = (v \div P) * P + (v % P) /\ v % P \in 0 .. P - 1
      BY <3>1, Division
    <3>. QED
      BY <3>1, <3>2, <3>5, <3>6
  <2>. QED
    BY <2>1
<1>13. DOMAIN s = 1 .. n
  BY <1>1
<1>. QED
  BY <1>1, <1>5, <1>9, <1>11, <1>12, <1>13 DEF Reads, s, Letters16

-----------------------------------------------------------------------------
(* Printing: how many digits *)

\* A digit more weighs more, and four binary digits are one of sixteen.
LEMMA PlaceValuesGrow ==
  ASSUME NEW base \in Nat \ {0}, NEW m \in Nat, NEW n \in Nat, m <= n
  PROVE  PlaceValue(base, m) <= PlaceValue(base, n)
<1> DEFINE T == {k \in 0 .. n - m : PlaceValue(base, m) <= PlaceValue(base, m + k)}
<1>1. 0 \in T
  <2>1. m + 0 = m /\ PlaceValue(base, m) \in Nat
    BY PlaceValueIs
  <2>. QED
    BY <2>1
<1>2. ASSUME NEW k \in 1 .. n - m, k - 1 \in T PROVE k \in T
  <2>1. m + (k - 1) \in Nat /\ m + (k - 1) + 1 = m + k
    OBVIOUS
  <2>2. /\ PlaceValue(base, m + (k - 1)) \in Nat \ {0}
        /\ PlaceValue(base, m + k) = PlaceValue(base, m + (k - 1)) * base
        /\ PlaceValue(base, m) \in Nat
    BY <2>1, PlaceValueIs
  <2>3. PlaceValue(base, m) <= PlaceValue(base, m + (k - 1))
    BY <1>2
  <2> DEFINE P == PlaceValue(base, m + (k - 1))
  <2>4. P <= P * base
    <3>1. P \in Nat /\ 1 <= base /\ 1 \in Nat /\ base \in Nat
      BY <2>2
    <3>. HIDE DEF P
    <3>2. P * 1 <= P * base
      BY <3>1, ProductGrows
    <3>. QED
      BY <3>1, <3>2
  <2>5. P * base \in Nat
    BY <2>2
  <2>. QED
    BY <2>2, <2>3, <2>4, <2>5
<1>. HIDE DEF T
<1>3. T \in SUBSET (0 .. n - m)
  BY DEF T
<1>4. n - m \in Nat
  OBVIOUS
<1>5. T = 0 .. n - m
  BY <1>1, <1>2, <1>3, <1>4, UpToN
<1>6. n - m \in T /\ m + (n - m) = n
  BY <1>4, <1>5
<1>. QED
  BY <1>6 DEF T

LEMMA SmallDivides ==
  ASSUME NEW v \in Nat, NEW P \in Nat \ {0}, v < P
  PROVE  v \div P = 0
OBVIOUS

Bases == {8, 10, 16}

LEMMA TwoForOne ==
  ASSUME NEW base \in Bases, NEW n \in Nat
  PROVE  PlaceValue(16, n) <= PlaceValue(base, 2 * n)
<1> DEFINE T == {k \in 0 .. n : PlaceValue(16, k) <= PlaceValue(base, 2 * k)}
<1>0. base \in Nat \ {0} /\ 16 \in Nat \ {0} /\ base * base >= 16
  BY DEF Bases
<1>1. 0 \in T
  <2>1. 2 * 0 = 0 /\ PlaceValue(base, 0) = 1 /\ PlaceValue(16, 0) = 1
    BY <1>0, PlaceValueIs
  <2>. QED
    BY <2>1
<1>2. ASSUME NEW k \in 1 .. n, k - 1 \in T PROVE k \in T
  <2>1. k - 1 \in Nat /\ (k - 1) + 1 = k /\ 2 * (k - 1) \in Nat
        /\ 2 * (k - 1) + 1 \in Nat /\ 2 * (k - 1) + 1 + 1 = 2 * k
    OBVIOUS
  <2>2. PlaceValue(16, k - 1) \in Nat /\ PlaceValue(16, k) = PlaceValue(16, k - 1) * 16
    BY <1>0, <2>1, PlaceValueIs
  <2>3. /\ PlaceValue(base, 2 * (k - 1)) \in Nat
        /\ PlaceValue(base, 2 * (k - 1) + 1) = PlaceValue(base, 2 * (k - 1)) * base
        /\ PlaceValue(base, 2 * k) = PlaceValue(base, 2 * (k - 1) + 1) * base
    BY <1>0, <2>1, PlaceValueIs
  <2>4. PlaceValue(16, k - 1) <= PlaceValue(base, 2 * (k - 1))
    BY <1>2
  <2> DEFINE P == PlaceValue(base, 2 * (k - 1))
             S == PlaceValue(16, k - 1)
  <2>5. S * 16 <= (P * base) * base
    <3>1. P \in Nat /\ S \in Nat /\ S <= P
      BY <2>2, <2>3, <2>4
    <3>. HIDE DEF P, S
    <3>. QED
      BY <3>1 DEF Bases
  <2>. QED
    BY <2>2, <2>3, <2>5
<1>. HIDE DEF T
<1>3. T \in SUBSET (0 .. n)
  BY DEF T
<1>4. T = 0 .. n
  BY <1>1, <1>2, <1>3, UpToN
<1>5. n \in T
  BY <1>4
<1>. QED
  BY <1>5 DEF T

\* The digits of a number: as many as it needs.
Needs(v, base, n) ==
  /\ n \in Nat \ {0}
  /\ v < PlaceValue(base, n)
  /\ n = 1 \/ v >= PlaceValue(base, n - 1)

LEMMA SomeNeeded ==
  ASSUME NEW base \in Nat \ {0}, NEW v \in Nat, NEW m \in Nat \ {0}, v < PlaceValue(base, m)
  PROVE  \E n \in 1 .. m : Needs(v, base, n)
<1> DEFINE T == {k \in 1 .. m : v < PlaceValue(base, k)}
<1>1. T \in SUBSET Nat /\ T # {} /\ \A k \in T : k \in 1 .. m
  OBVIOUS
<1>. HIDE DEF T
<1>2. Min(T) \in T /\ \A y \in T : Min(T) <= y
  BY <1>1, Smallest
<1>3. PICK n \in T : \A y \in T : n <= y
  BY <1>2
<1>4. n \in 1 .. m /\ v < PlaceValue(base, n)
  BY <1>3 DEF T
<1>5. n = 1 \/ v >= PlaceValue(base, n - 1)
  <2>1. ASSUME n # 1 PROVE v >= PlaceValue(base, n - 1)
    <3>1. n - 1 \in 1 .. m /\ n - 1 \in Nat /\ ~(n <= n - 1)
      BY <1>4, <2>1
    <3>2. n - 1 \notin T
      BY <1>3, <3>1
    <3>3. ~(v < PlaceValue(base, n - 1)) /\ PlaceValue(base, n - 1) \in Nat
      BY <3>1, <3>2, PlaceValueIs DEF T
    <3>. QED
      BY <3>3
  <2>. QED
    BY <2>1
<1>. QED
  BY <1>4, <1>5 DEF Needs


LEMMA WordIs ==
  /\ Nibbles \in Nat \ {0} /\ Word \in Nat \ {0}
  /\ Word = PlaceValue(16, Nibbles) /\ Word >= 2
<1>0. Nibbles \in Nat \ {0}
  BY PrintingAssumption
<1>1. Nibbles \in Nat \ {0} /\ 16 \in Nat \ {0} /\ 1 \in Nat /\ 0 \in Nat /\ 0 + 1 = 1
      /\ 1 <= Nibbles
  BY <1>0
<1>2. PlaceValue(16, Nibbles) \in Nat \ {0}
  BY <1>1, PlaceValueIs
<1>3. PlaceValue(16, 0) = 1 /\ PlaceValue(16, 0 + 1) = PlaceValue(16, 0) * 16
  BY <1>1, PlaceValueIs
<1>4. PlaceValue(16, 1) <= PlaceValue(16, Nibbles)
  BY <1>1, PlaceValuesGrow
<1>. QED
  BY <1>1, <1>2, <1>3, <1>4 DEF Word

\* A text of digits that reads as v.
Numeral(s, v, base) ==
  /\ s \in Seq(Chars) /\ Len(s) \in Nat \ {0} /\ Reads(s, base, v)
  /\ \A i \in 1 .. Len(s) : s[i] \in Letters16 /\ s[i] # "-"

LEMMA DigitTextNumeral ==
  ASSUME NEW base \in Bases, NEW letters \in Alphabets, NEW v \in Nat, NEW n,
         Needs(v, base, n)
  PROVE  Numeral(DigitText(v, base, letters, n), v, base)
<1>1. base \in 2 .. 16 /\ base \in 1 .. 16
  BY DEF Bases
<1>2. n \in Nat \ {0} /\ v < PlaceValue(base, n) /\ (n > 1 => v >= PlaceValue(base, n - 1))
  BY DEF Needs
<1>3. Reads(DigitText(v, base, letters, n), base, v)
  BY <1>1, <1>2, DigitTextReads
<1> DEFINE s == DigitText(v, base, letters, n)
<1>4. Digital(s, v, base, n) /\ Reads(s, base, v)
  BY <1>1, <1>2, <1>3, DigitTextIs
<1>. HIDE DEF s
<1>5. Numeral(s, v, base)
  BY <1>2, <1>4 DEF Digital, Numeral
<1>. QED
  BY <1>5 DEF s

LEMMA DigitsOfNumeral ==
  ASSUME NEW base \in Bases, NEW letters \in Alphabets, NEW v \in 0 .. Word - 1
  PROVE  Numeral(DigitsOf(v, base, letters), v, base)
<1>0. base \in Nat \ {0} /\ Nibbles * 4 \in Nat \ {0} /\ v \in Nat
      /\ 2 * Nibbles \in Nat /\ 2 * Nibbles <= Nibbles * 4
  BY WordIs DEF Bases
<1>1. v < PlaceValue(base, Nibbles * 4)
  <2>1. v < PlaceValue(16, Nibbles)
    BY WordIs
  <2>2. PlaceValue(16, Nibbles) <= PlaceValue(base, 2 * Nibbles)
    BY WordIs, TwoForOne
  <2>3. PlaceValue(base, 2 * Nibbles) <= PlaceValue(base, Nibbles * 4)
    BY <1>0, PlaceValuesGrow
  <2>4. PlaceValue(base, 2 * Nibbles) \in Nat /\ PlaceValue(base, Nibbles * 4) \in Nat
        /\ PlaceValue(16, Nibbles) \in Nat
    BY <1>0, WordIs, PlaceValueIs
  <2>. QED
    BY <1>0, <2>1, <2>2, <2>3, <2>4
<1> DEFINE fits(k) == v < PlaceValue(base, k) /\ (k = 1 \/ v >= PlaceValue(base, k - 1))
           n == CHOOSE k \in 1 .. Nibbles * 4 : fits(k)
<1>2. \E k \in 1 .. Nibbles * 4 : fits(k)
  <2>1. PICK k \in 1 .. Nibbles * 4 : Needs(v, base, k)
    BY <1>0, <1>1, SomeNeeded
  <2>2. fits(k)
    BY <2>1 DEF Needs
  <2>. QED
    BY <2>2
<1>3. n \in 1 .. Nibbles * 4 /\ fits(n)
  BY <1>2
<1>4. DigitsOf(v, base, letters) = DigitText(v, base, letters, n)
  BY DEF DigitsOf, DigitText
<1>. HIDE DEF n
<1>5. Needs(v, base, n)
  BY <1>0, <1>3 DEF Needs
<1>. QED
  BY <1>0, <1>4, <1>5, DigitTextNumeral

\* alt_printf begins with the first nibble that is not zero.
LEMMA HexTextNumeral ==
  ASSUME NEW v \in 0 .. Word - 1
  PROVE  Numeral(HexText(v), v, 16)
<1>0. 16 \in Nat \ {0} /\ 16 \in Bases /\ Digits \in Alphabets /\ v \in Nat
  BY WordIs DEF Bases, Alphabets
<1>1. CASE v = 0
  <2>1. PlaceValue(16, 0) = 1 /\ PlaceValue(16, 0 + 1) = PlaceValue(16, 0) * 16
    BY <1>0, PlaceValueIs
  <2>2. Needs(0, 16, 1)
    BY <2>1 DEF Needs
  <2>3. DigitText(0, 16, Digits, 1) = <<"0">>
    <3>1. (0 \div 1) % 16 = 0 /\ Digits[0 + 1] = "0"
      BY DEF Digits
    <3>2. \A i \in 1 .. 1 : 1 - i = 0
      OBVIOUS
    <3>3. DigitText(0, 16, Digits, 1) = [i \in 1 .. 1 |-> "0"]
      BY <2>1, <3>1, <3>2 DEF DigitText
    <3>4. [i \in 1 .. 1 |-> "0"] = <<"0">>
      OBVIOUS
    <3>. QED
      BY <3>3, <3>4
  <2>4. Numeral(DigitText(0, 16, Digits, 1), 0, 16)
    BY <1>0, <2>2, DigitTextNumeral
  <2>5. HexText(v) = <<"0">>
    BY <1>1 DEF HexText
  <2>. QED
    BY <1>1, <2>3, <2>4, <2>5
<1>2. CASE v # 0
  <2>0. v < PlaceValue(16, Nibbles) /\ Nibbles \in Nat \ {0}
    BY <1>0, WordIs
  <2>1. PICK k \in 1 .. Nibbles : Needs(v, 16, k)
    BY <1>0, <2>0, SomeNeeded
  <2> DEFINE f == Nibbles - k + 1
             leads(i) == Nibble(v, i) # 0 /\ \A j \in 1 .. i - 1 : Nibble(v, j) = 0
             first == CHOOSE i \in 1 .. Nibbles : leads(i)
  <2>2. f \in 1 .. Nibbles /\ Nibbles - f + 1 = k /\ Nibbles - f = k - 1
    BY WordIs
  <2>3. Nibble(v, f) # 0
    <3>1. k - 1 \in Nat /\ (k - 1) + 1 = k
      OBVIOUS
    <3> DEFINE P == PlaceValue(16, k - 1)
    <3>2. P \in Nat \ {0} /\ PlaceValue(16, k) = P * 16 /\ v < P * 16
      BY <1>0, <2>1, <3>1, PlaceValueIs DEF Needs
    <3>3. P <= v
      <4>1. CASE k = 1
        BY <1>0, <1>2, <4>1, PlaceValueIs
      <4>2. CASE k # 1
        BY <1>0, <2>1, <3>2, <4>2 DEF Needs
      <4>. QED
        BY <4>1, <4>2
    <3>4. Nibble(v, f) = (v \div P) % 16
      BY <2>2 DEF Nibble
    <3>. HIDE DEF P
    <3>5. v \div P \in Nat /\ v % P \in 0 .. P - 1 /\ v = (v \div P) * P + (v % P)
      BY <1>0, <3>2, Division
    <3>6. v \div P # 0
      <4>1. ASSUME v \div P = 0 PROVE FALSE
        BY <3>2, <3>3, <3>5, <4>1
      <4>. QED
        BY <4>1
    <3>7. v \div P < 16
      <4>1. ASSUME 16 <= v \div P PROVE FALSE
        <5>1. 16 * P <= (v \div P) * P
          BY <3>2, <3>5, <4>1, ProductGrows
        <5>. QED
          BY <3>2, <3>5, <5>1
      <4>. QED
        BY <3>5, <4>1
    <3>8. (v \div P) % 16 = v \div P
      BY <3>5, <3>7
    <3>. QED
      BY <3>4, <3>6, <3>8
  <2>4. ASSUME NEW j \in 1 .. f - 1 PROVE Nibble(v, j) = 0
    <3>1. Nibbles - j \in Nat /\ k <= Nibbles - j /\ k \in Nat
      BY <2>2, WordIs
    <3>2. PlaceValue(16, k) <= PlaceValue(16, Nibbles - j)
      BY <1>0, <3>1, PlaceValuesGrow
    <3> DEFINE P == PlaceValue(16, Nibbles - j)
    <3>3. P \in Nat \ {0} /\ PlaceValue(16, k) \in Nat /\ v < PlaceValue(16, k)
      BY <1>0, <2>1, <3>1, PlaceValueIs DEF Needs
    <3>4. Nibble(v, j) = (v \div P) % 16
      BY DEF Nibble
    <3>. HIDE DEF P
    <3>5. v \in Nat /\ v < P
      BY <1>0, <3>2, <3>3 DEF P
    <3>6. v \div P = 0
      BY <3>3, <3>5, SmallDivides
    <3>. QED
      BY <3>4, <3>6
  <2>. HIDE DEF f
  <2>5. f \in 1 .. Nibbles /\ leads(f)
    BY <2>2, <2>3, <2>4
  <2>6. first \in 1 .. Nibbles /\ leads(first)
    BY <2>5
  <2>7. HexText(v) = [i \in 1 .. Nibbles - first + 1 |-> Digits[Nibble(v, first + i - 1) + 1]]
    BY <1>2 DEF HexText
  <2>. HIDE DEF first
  <2>8. first = f
    <3>1. ASSUME first < f PROVE FALSE
      <4>1. first \in 1 .. f - 1
        BY <2>5, <2>6, <3>1, WordIs
      <4>. QED
        BY <2>5, <2>6, <4>1
    <3>2. ASSUME f < first PROVE FALSE
      <4>1. f \in 1 .. first - 1
        BY <2>5, <2>6, <3>2, WordIs
      <4>. QED
        BY <2>5, <2>6, <4>1
    <3>3. first \in Int /\ f \in Int
      BY <2>5, <2>6, WordIs
    <3>. QED
      BY <3>1, <3>2, <3>3
  <2>9. HexText(v) = DigitText(v, 16, Digits, k)
    <3>1. \A i \in 1 .. k : Nibble(v, f + i - 1) = (v \div PlaceValue(16, k - i)) % 16
      <4>1. \A i \in 1 .. k : Nibbles - (f + i - 1) = k - i
        BY <2>2, WordIs
      <4>. QED
        BY <4>1 DEF Nibble
    <3>. QED
      BY <2>2, <2>7, <2>8, <3>1 DEF DigitText
  <2>. QED
    BY <1>0, <2>1, <2>9, DigitTextNumeral
<1>. QED
  BY <1>1, <1>2

-----------------------------------------------------------------------------
(* Printing: formats *)

LEMMA CharsAre ==
  /\ "-" \in Chars /\ " " \in Chars /\ "<" \in Chars /\ ">" \in Chars /\ "%" \in Chars
  /\ "x" \in Chars /\ "\r" \in Chars /\ "\n" \in Chars
  /\ Labels \subseteq Chars /\ Headers \subseteq Chars /\ Letters16 \subseteq Chars
BY DEF Chars, Labels

LEMMA Longer ==
  ASSUME NEW S, NEW s \in Seq(S), NEW k \in 1 .. Len(s)
  PROVE  SubSeq(s, 1, k) = Append(SubSeq(s, 1, k - 1), s[k])
OBVIOUS

LEMMA Between ==
  ASSUME NEW S, NEW s \in Seq(S), NEW a \in S, NEW b \in S
  PROVE  Append(<<a>> \o s, b) = <<a>> \o s \o <<b>>
OBVIOUS

LEMMA Bracketed ==
  ASSUME NEW text \in Seq(Chars)
  PROVE  Append(<<"<">> \o text, ">") = <<"<">> \o text \o <<">">>
<1>. DEFINE a == "<"
            b == ">"
<1>1. a \in Chars /\ b \in Chars
  BY CharsAre
<1>. HIDE DEF a
<1>. HIDE DEF b
<1>2. Append(<<a>> \o text, b) = <<a>> \o text \o <<b>>
  BY <1>1, Between
<1>. QED
  BY <1>2, Zenon DEF a, b

Join(f, s, t, S, n, m) ==
  /\ f \in Seq(S) /\ Len(f) = n + m /\ n \in Nat /\ m \in Nat
  /\ \A i \in 1 .. n : f[i] = s[i]
  /\ \A i \in 1 .. m : f[n + i] = t[i]

LEMMA Joined ==
  ASSUME NEW S, NEW s \in Seq(S), NEW t \in Seq(S)
  PROVE  Join(s \o t, s, t, S, Len(s), Len(t))
BY DEF Join

LEMMA AppendJoined ==
  ASSUME NEW S, NEW o \in Seq(S), NEW b \in Seq(S), NEW c \in S
  PROVE  Append(b, c) \in Seq(S) /\ o \o Append(b, c) = Append(o \o b, c)
OBVIOUS

\* Four pieces in a row.
Row(f, x, u, w, y, nx, nu, nw, ny) ==
  /\ Len(f) = nx + nu + nw + ny
  /\ \A i \in 1 .. nx : f[i] = x[i]
  /\ \A i \in 1 .. nu : f[nx + i] = u[i]
  /\ \A i \in 1 .. nw : f[nx + nu + i] = w[i]
  /\ \A i \in 1 .. ny : f[nx + nu + nw + i] = y[i]

LEMMA InARow ==
  ASSUME NEW S, NEW x \in Seq(S), NEW u \in Seq(S), NEW w \in Seq(S), NEW y \in Seq(S),
         NEW nx, NEW nu, NEW nw, NEW ny,
         nx = Len(x), nu = Len(u), nw = Len(w), ny = Len(y)
  PROVE  Row(x \o u \o w \o y, x, u, w, y, nx, nu, nw, ny)
<1>0. nx \in Nat /\ nu \in Nat /\ nw \in Nat /\ ny \in Nat
  OBVIOUS
<1> DEFINE a == x \o u
           b == a \o w
           f == b \o y
           na == nx + nu
           nb == na + nw
<1>j. Join(a, x, u, S, nx, nu)
  BY Joined
<1>. HIDE DEF a
<1>1. /\ a \in Seq(S) /\ Len(a) = na
      /\ \A i \in 1 .. nx : a[i] = x[i]
      /\ \A i \in 1 .. nu : a[nx + i] = u[i]
  BY <1>j DEF Join
<1>k. Join(b, a, w, S, na, nw)
  BY <1>1, Joined
<1>. HIDE DEF b
<1>2. /\ b \in Seq(S) /\ Len(b) = nb
      /\ \A i \in 1 .. na : b[i] = a[i]
      /\ \A i \in 1 .. nw : b[na + i] = w[i]
  BY <1>k DEF Join
<1>l. Join(f, b, y, S, nb, ny)
  BY <1>2, Joined
<1>. HIDE DEF f
<1>3. /\ f \in Seq(S) /\ Len(f) = nb + ny
      /\ \A i \in 1 .. nb : f[i] = b[i]
      /\ \A i \in 1 .. ny : f[nb + i] = y[i]
  BY <1>l DEF Join
<1>1a. na = nx + nu
  OBVIOUS
<1>2a. nb = na + nw
  OBVIOUS
<1>. HIDE DEF na, nb
<1>4. \A i \in 1 .. nx : i \in 1 .. na /\ i \in 1 .. nb
  BY <1>0, <1>1a, <1>2a
<1>5. \A i \in 1 .. nu : nx + i \in 1 .. na /\ nx + i \in 1 .. nb
  BY <1>0, <1>1a, <1>2a
<1>6. \A i \in 1 .. nw : na + i \in 1 .. nb
  BY <1>0, <1>1a, <1>2a
<1>7. \A i \in 1 .. nx : f[i] = x[i]
  BY <1>1, <1>2, <1>3, <1>4
<1>8. \A i \in 1 .. nu : f[nx + i] = u[i]
  BY <1>1, <1>2, <1>3, <1>5
<1>9. \A i \in 1 .. nw : f[na + i] = w[i]
  BY <1>2, <1>3, <1>6
<1>10. Row(f, x, u, w, y, nx, nu, nw, ny)
  BY <1>1a, <1>2a, <1>3, <1>7, <1>8, <1>9 DEF Row
<1>. QED
  BY <1>10 DEF f, b, a

\* The pieces of a format.
Pieces(f, c, d, u, w) ==
  /\ Len(f) = 2 + Len(u) + Len(w) + 2
  /\ f[1] = "<" /\ f[2] = "%"
  /\ \A i \in 1 .. Len(u) : f[2 + i] = u[i]
  /\ \A i \in 1 .. Len(w) : f[2 + Len(u) + i] = w[i]
  /\ f[2 + Len(u) + Len(w) + 1] = c /\ f[2 + Len(u) + Len(w) + 2] = d

LEMMA FormatPieces ==
  ASSUME NEW c, NEW d, NEW S, NEW u \in Seq(S), NEW w \in Seq(S)
  PROVE  Pieces(<<"<", "%">> \o u \o w \o <<c, d>>, c, d, u, w)
<1> DEFINE V == S \union {"<", "%", c, d}
           x == <<"<", "%">>
           y == <<c, d>>
           f == x \o u \o w \o y
<1>1. x \in Seq(V) /\ Len(x) = 2 /\ x[1] = "<" /\ x[2] = "%"
      /\ y \in Seq(V) /\ Len(y) = 2 /\ y[1] = c /\ y[2] = d
  OBVIOUS
<1>2. u \in Seq(V) /\ w \in Seq(V) /\ Len(u) \in Nat /\ Len(w) \in Nat
  OBVIOUS
<1>. HIDE DEF V, x, y
<1>3. Row(f, x, u, w, y, 2, Len(u), Len(w), 2)
  BY <1>1, <1>2, InARow, Zenon
<1>. HIDE DEF f
<1>4. Pieces(f, c, d, u, w)
  BY <1>1, <1>2, <1>3 DEF Row, Pieces
<1>. QED
  BY <1>4 DEF f, x, y

-----------------------------------------------------------------------------
(* Printing: alt_printf *)

Alt(out, args, escaped) == [out |-> out, args |-> args, escaped |-> escaped]

AltFollows(g, fmt, args, k) ==
  g = [i \in 0 .. k |-> IF i = 0 THEN [out |-> <<>>, args |-> args, escaped |-> FALSE]
                        ELSE AltPrintfStep(g[i - 1], fmt[i])]

\* The states after each character of the format.
AltStates(g, fmt, args) ==
  /\ g[0] = Alt(<<>>, args, FALSE)
  /\ \A i \in 1 .. Len(fmt) : g[i] = AltPrintfStep(g[i - 1], fmt[i])
  /\ alt_printf(fmt, args) = g[Len(fmt)].out

LEMMA AltRun ==
  ASSUME NEW fmt, NEW args, Len(fmt) \in Nat
  PROVE  \E g : AltStates(g, fmt, args)
<1> DEFINE n == Len(fmt)
           T == {k \in 0 .. n : \E g : AltFollows(g, fmt, args, k)}
<1>1. 0 \in T
  <2> DEFINE g == [i \in 0 .. 0 |-> [out |-> <<>>, args |-> args, escaped |-> FALSE]]
  <2>1. AltFollows(g, fmt, args, 0)
    BY DEF AltFollows
  <2>. HIDE DEF g
  <2>. QED
    BY <2>1
<1>2. ASSUME NEW k \in 1 .. n, k - 1 \in T PROVE k \in T
  <2>1. PICK g : AltFollows(g, fmt, args, k - 1)
    BY <1>2
  <2> DEFINE h == [i \in 0 .. k |-> IF i = k THEN AltPrintfStep(g[k - 1], fmt[k]) ELSE g[i]]
             step(i) == IF i = 0 THEN [out |-> <<>>, args |-> args, escaped |-> FALSE]
                        ELSE AltPrintfStep(h[i - 1], fmt[i])
  <2>2. \A i \in 0 .. k - 1 : g[i] = IF i = 0 THEN [out |-> <<>>, args |-> args, escaped |-> FALSE]
                                     ELSE AltPrintfStep(g[i - 1], fmt[i])
    BY <2>1 DEF AltFollows
  <2>3. \A i \in 0 .. k - 1 : i \in 0 .. k /\ i # k /\ h[i] = g[i]
    OBVIOUS
  <2>4. k \in 0 .. k /\ k # 0 /\ k - 1 \in 0 .. k - 1 /\ h[k] = AltPrintfStep(g[k - 1], fmt[k])
    OBVIOUS
  <2>5. \A i \in 0 .. k - 1 : i # 0 => i - 1 \in 0 .. k - 1
    OBVIOUS
  <2>6. h = [i \in 0 .. k |-> h[i]]
    OBVIOUS
  <2>. HIDE DEF h
  <2>7. \A i \in 0 .. k - 1 : h[i] = step(i)
    BY <2>2, <2>3, <2>5
  <2>8. h[k] = step(k)
    BY <2>3, <2>4
  <2>9. \A i \in 0 .. k : i \in 0 .. k - 1 \/ i = k
    OBVIOUS
  <2>10. \A i \in 0 .. k : h[i] = step(i)
    BY <2>7, <2>8, <2>9
  <2>11. AltFollows(h, fmt, args, k)
    BY <2>6, <2>10 DEF AltFollows
  <2>. QED
    BY <2>11
<1>. HIDE DEF T
<1>3. T \in SUBSET (0 .. n)
  BY DEF T
<1>4. T = 0 .. n
  BY <1>1, <1>2, <1>3, UpToN
<1>5. n \in T
  BY <1>4
<1>6. \E g : AltFollows(g, fmt, args, n)
  BY <1>5 DEF T
<1> DEFINE st == CHOOSE g : AltFollows(g, fmt, args, n)
<1>7. AltFollows(st, fmt, args, n)
  BY <1>6
<1>8. alt_printf(fmt, args) = st[n].out
  BY DEF alt_printf, AltFollows
<1>. HIDE DEF st
<1>9. \A i \in 0 .. n : st[i] = IF i = 0 THEN [out |-> <<>>, args |-> args, escaped |-> FALSE]
                              ELSE AltPrintfStep(st[i - 1], fmt[i])
  BY <1>7 DEF AltFollows
<1>10. 0 \in 0 .. n /\ \A i \in 1 .. n : i \in 0 .. n /\ i # 0
  OBVIOUS
<1>11. AltStates(st, fmt, args)
  BY <1>8, <1>9, <1>10 DEF Alt, AltStates
<1>. QED
  BY <1>11

\* The steps for a character of the format.
LEMMA AltCopies ==
  ASSUME NEW o, NEW a, NEW c, c # "%"
  PROVE  AltPrintfStep(Alt(o, a, FALSE), c) = Alt(Append(o, c), a, FALSE)
BY DEF AltPrintfStep, Alt

LEMMA AltEscapes ==
  ASSUME NEW o, NEW a
  PROVE  AltPrintfStep(Alt(o, a, FALSE), "%") = Alt(o, a, TRUE)
BY DEF AltPrintfStep, Alt

LEMMA AltConverts ==
  ASSUME NEW o, NEW a
  PROVE  /\ AltPrintfStep(Alt(o, a, TRUE), "%") = Alt(o \o <<"%">>, SubSeq(a, 1, Len(a)), FALSE)
         /\ AltPrintfStep(Alt(o, a, TRUE), "x")
              = Alt(o \o HexText(Head(a)), SubSeq(a, 2, Len(a)), FALSE)
         /\ AltPrintfStep(Alt(o, a, TRUE), "s")
              = Alt(o \o Head(a), SubSeq(a, 2, Len(a)), FALSE)
<1>1. AltPrintfStep(Alt(o, a, TRUE), "%") = Alt(o \o <<"%">>, SubSeq(a, 1, Len(a)), FALSE)
  BY DEF AltPrintfStep, Alt
<1>2. AltPrintfStep(Alt(o, a, TRUE), "x")
              = Alt(o \o HexText(Head(a)), SubSeq(a, 2, Len(a)), FALSE)
  BY DEF AltPrintfStep, Alt
<1>3. AltPrintfStep(Alt(o, a, TRUE), "s")
              = Alt(o \o Head(a), SubSeq(a, 2, Len(a)), FALSE)
  BY DEF AltPrintfStep, Alt
<1>. QED
  BY <1>1, <1>2, <1>3

\* One conversion between two other characters.
LEMMA AltFormat ==
  ASSUME NEW arg, NEW conversion \in {"x", "s"},
         NEW text \in Seq(Chars), text = IF conversion = "x" THEN HexText(arg) ELSE arg
  PROVE  alt_printf(Format(conversion, FALSE, 0), <<arg>>) = <<"<">> \o text \o <<">">>
<1> DEFINE fmt == Format(conversion, FALSE, 0)
           args == <<arg>>
<1>1. fmt = <<"<", "%">> \o <<>> \o <<>> \o <<conversion, ">">>
  BY Zenon DEF Format
<1>2. Len(fmt) = 4 /\ fmt[1] = "<" /\ fmt[2] = "%" /\ fmt[3] = conversion /\ fmt[4] = ">"
  <2>1. <<>> \in Seq({}) /\ Len(<<>>) = 0
    OBVIOUS
  <2>2. Pieces(fmt, conversion, ">", <<>>, <<>>)
    BY <1>1, <2>1, FormatPieces, Zenon
  <2>. HIDE DEF fmt
  <2>. QED
    BY <2>1, <2>2 DEF Pieces
<1>a. Head(args) = arg
  OBVIOUS
<1>. HIDE DEF fmt, args
<1>b. Len(fmt) \in Nat
  BY <1>2
<1>3. PICK g : AltStates(g, fmt, args)
  BY <1>b, AltRun, Zenon
<1>4. g[0] = Alt(<<>>, args, FALSE) /\ alt_printf(fmt, args) = g[4].out
  BY <1>2, <1>3 DEF AltStates
<1>5. g[1] = AltPrintfStep(g[0], "<") /\ g[2] = AltPrintfStep(g[1], "%")
      /\ g[3] = AltPrintfStep(g[2], conversion) /\ g[4] = AltPrintfStep(g[3], ">")
  <2>1. 1 - 1 = 0 /\ 2 - 1 = 1 /\ 3 - 1 = 2 /\ 4 - 1 = 3
        /\ 1 \in 1 .. 4 /\ 2 \in 1 .. 4 /\ 3 \in 1 .. 4 /\ 4 \in 1 .. 4
    OBVIOUS
  <2>2. \A i \in 1 .. 4 : g[i] = AltPrintfStep(g[i - 1], fmt[i])
    BY <1>2, <1>3 DEF AltStates
  <2>. QED
    BY <1>2, <2>1, <2>2
<1>6. g[1] = Alt(<<"<">>, args, FALSE)
  <2>1. Append(<<>>, "<") = <<"<">> /\ "<" # "%"
    OBVIOUS
  <2>2. AltPrintfStep(Alt(<<>>, args, FALSE), "<") = Alt(Append(<<>>, "<"), args, FALSE)
    BY <2>1, AltCopies
  <2>. QED
    BY <1>4, <1>5, <2>1, <2>2
<1>7. g[2] = Alt(<<"<">>, args, TRUE)
  BY <1>5, <1>6, AltEscapes
<1>8. g[3] = Alt(<<"<">> \o text, SubSeq(args, 2, Len(args)), FALSE)
  <2>1. CASE conversion = "x"
    BY <1>5, <1>7, <1>a, <2>1, AltConverts
  <2>2. CASE conversion = "s"
    BY <1>5, <1>7, <1>a, <2>2, AltConverts
  <2>. QED
    BY <2>1, <2>2
<1>9. g[4] = Alt(Append(<<"<">> \o text, ">"), SubSeq(args, 2, Len(args)), FALSE)
  <2>1. AltPrintfStep(Alt(<<"<">> \o text, SubSeq(args, 2, Len(args)), FALSE), ">")
          = Alt(Append(<<"<">> \o text, ">"), SubSeq(args, 2, Len(args)), FALSE)
    BY AltCopies
  <2>. QED
    BY <1>5, <1>8, <2>1
<1>10. g[4].out = Append(<<"<">> \o text, ">")
  BY <1>9 DEF Alt
<1>11. Append(<<"<">> \o text, ">") = <<"<">> \o text \o <<">">>
  BY Bracketed
<1>. QED
  BY <1>4, <1>10, <1>11 DEF fmt, args

\* Two conversions around a percent sign.
LEMMA AltTwo ==
  ASSUME NEW v, NEW text \in Seq(Chars), HexText(v) \in Seq(Chars)
  PROVE  alt_printf(<<"%", "x", "%", "%", "%", "s">>, <<v, text>>)
           = HexText(v) \o (<<"%">> \o text)
<1> DEFINE fmt == <<"%", "x", "%", "%", "%", "s">>
           args == <<v, text>>
           rest == SubSeq(args, 2, Len(args))
           rest2 == SubSeq(rest, 1, Len(rest))
<1>2. Len(fmt) = 6 /\ fmt[1] = "%" /\ fmt[2] = "x" /\ fmt[3] = "%" /\ fmt[4] = "%"
      /\ fmt[5] = "%" /\ fmt[6] = "s"
  OBVIOUS
<1>a. Head(args) = v
  OBVIOUS
<1>b. Head(rest2) = text
  <2>1. args \in Seq({v, text}) /\ Len(args) = 2 /\ args[2] = text
    OBVIOUS
  <2>. HIDE DEF args
  <2>2. rest \in Seq({v, text}) /\ Len(rest) = 1 /\ rest[1] = text
    BY <2>1
  <2>. HIDE DEF rest
  <2>. QED
    BY <2>2
<1>. HIDE DEF fmt, args, rest, rest2
<1>c. Len(fmt) \in Nat
  BY <1>2
<1>3. PICK g : AltStates(g, fmt, args)
  BY <1>c, AltRun, Zenon
<1>4. g[0] = Alt(<<>>, args, FALSE) /\ alt_printf(fmt, args) = g[6].out
  BY <1>2, <1>3 DEF AltStates
<1>5. g[1] = AltPrintfStep(g[0], "%") /\ g[2] = AltPrintfStep(g[1], "x")
      /\ g[3] = AltPrintfStep(g[2], "%") /\ g[4] = AltPrintfStep(g[3], "%")
      /\ g[5] = AltPrintfStep(g[4], "%") /\ g[6] = AltPrintfStep(g[5], "s")
  <2>1. 1 - 1 = 0 /\ 2 - 1 = 1 /\ 3 - 1 = 2 /\ 4 - 1 = 3 /\ 5 - 1 = 4 /\ 6 - 1 = 5
        /\ 1 \in 1 .. 6 /\ 2 \in 1 .. 6 /\ 3 \in 1 .. 6 /\ 4 \in 1 .. 6 /\ 5 \in 1 .. 6
        /\ 6 \in 1 .. 6
    OBVIOUS
  <2>2. \A i \in 1 .. 6 : g[i] = AltPrintfStep(g[i - 1], fmt[i])
    BY <1>2, <1>3 DEF AltStates
  <2>. QED
    BY <1>2, <2>1, <2>2
<1>6. g[1] = Alt(<<>>, args, TRUE)
  BY <1>4, <1>5, AltEscapes
<1>7. g[2] = Alt(<<>> \o HexText(v), rest, FALSE)
  BY <1>5, <1>6, <1>a, AltConverts DEF rest
<1>8. g[3] = Alt(<<>> \o HexText(v), rest, TRUE)
  BY <1>5, <1>7, AltEscapes
<1>9. g[4] = Alt(<<>> \o HexText(v) \o <<"%">>, rest2, FALSE)
  BY <1>5, <1>8, AltConverts DEF rest2
<1>10. g[5] = Alt(<<>> \o HexText(v) \o <<"%">>, rest2, TRUE)
  BY <1>5, <1>9, AltEscapes
<1>11. g[6] = Alt(<<>> \o HexText(v) \o <<"%">> \o text, SubSeq(rest2, 2, Len(rest2)), FALSE)
  BY <1>5, <1>10, <1>b, AltConverts
<1>12. g[6].out = <<>> \o HexText(v) \o <<"%">> \o text
  BY <1>11 DEF Alt
<1>13. <<>> \o HexText(v) \o <<"%">> \o text = HexText(v) \o (<<"%">> \o text)
  <2>0. "%" \in Chars
    BY CharsAre
  <2>1. <<"%">> \in Seq(Chars)
    BY <2>0
  <2>. QED
    BY <2>1
<1>. QED
  BY <1>4, <1>12, <1>13 DEF fmt, args

-----------------------------------------------------------------------------
(* Printing: semihosting *)

PutFollows(g, text, k) ==
  g = [i \in 0 .. k |-> IF i = 0 THEN [buf |-> <<>>, out |-> <<>>]
                        ELSE alt_putcharbuf(g[i - 1], text[i])]

\* What has been written and what waits in the buffer are what was put so far.
Holds(s, text, k) ==
  \E b, o \in Seq(Chars) : s = [buf |-> b, out |-> o] /\ o \o b = SubSeq(text, 1, k)

LEMMA PutsIn ==
  ASSUME NEW b, NEW o, NEW c
  PROVE  \/ alt_putcharbuf([buf |-> b, out |-> o], c) = [buf |-> Append(b, c), out |-> o]
         \/ alt_putcharbuf([buf |-> b, out |-> o], c)
              = [buf |-> <<>>, out |-> o \o Append(b, c)]
<1>1. [[buf |-> b, out |-> o] EXCEPT !.buf = Append(@, c)] = [buf |-> Append(b, c), out |-> o]
  <2>. DEFINE st == [buf |-> b, out |-> o]
              x == Append(b, c)
  <2>1. st.buf = b
    OBVIOUS
  <2>. HIDE DEF x
  <2>2. [st EXCEPT !.buf = x] = [buf |-> x, out |-> o]
    OBVIOUS
  <2>. HIDE DEF st
  <2>3. [st EXCEPT !.buf = Append(@, c)] = [st EXCEPT !.buf = x]
    BY <2>1, Zenon DEF x
  <2>. QED
    BY <2>2, <2>3, Zenon DEF st, x
<1>. QED
  BY <1>1 DEF alt_putcharbuf, alt_putbufflush

LEMMA PutHolds ==
  ASSUME NEW text \in Seq(Chars), NEW k \in 1 .. Len(text), NEW s, Holds(s, text, k - 1)
  PROVE  Holds(alt_putcharbuf(s, text[k]), text, k)
<1>0. PICK b \in Seq(Chars), o \in Seq(Chars) :
        s = [buf |-> b, out |-> o] /\ o \o b = SubSeq(text, 1, k - 1)
  BY DEF Holds
<1> DEFINE c == text[k]
           d == Append(b, c)
<1>1. c \in Chars
  OBVIOUS
<1>2. SubSeq(text, 1, k) = Append(SubSeq(text, 1, k - 1), c)
  BY Longer
<1>. HIDE DEF c
<1>3. d \in Seq(Chars) /\ o \o d = SubSeq(text, 1, k)
  BY <1>0, <1>1, <1>2, AppendJoined
<1>5. \/ alt_putcharbuf(s, c) = [buf |-> d, out |-> o]
      \/ alt_putcharbuf(s, c) = [buf |-> <<>>, out |-> o \o d]
  BY <1>0, PutsIn DEF d
<1>. HIDE DEF d
<1>6. Holds([buf |-> d, out |-> o], text, k)
  BY <1>3 DEF Holds
<1>7. Holds([buf |-> <<>>, out |-> o \o d], text, k)
  <2>1. o \o d \in Seq(Chars) /\ <<>> \in Seq(Chars) /\ (o \o d) \o <<>> = o \o d
    BY <1>3
  <2>. QED
    BY <1>3, <2>1 DEF Holds
<1>. QED
  BY <1>5, <1>6, <1>7 DEF c

LEMMA WrittenIs ==
  ASSUME NEW text \in Seq(Chars), NEW semihosting \in BOOLEAN
  PROVE  Written(text, semihosting) = text
<1> DEFINE n == Len(text)
           T == {k \in 0 .. n : \E g : PutFollows(g, text, k)}
           start == [buf |-> <<>>, out |-> <<>>]
<1>0. n \in Nat
  OBVIOUS
<1>1. 0 \in T
  <2> DEFINE g == [i \in 0 .. 0 |-> start]
  <2>1. PutFollows(g, text, 0)
    BY DEF PutFollows
  <2>. HIDE DEF g
  <2>. QED
    BY <2>1
<1>. HIDE DEF start
<1>2. ASSUME NEW k \in 1 .. n, k - 1 \in T PROVE k \in T
  <2>1. PICK g : PutFollows(g, text, k - 1)
    BY <1>2
  <2> DEFINE h == [i \in 0 .. k |-> IF i = k THEN alt_putcharbuf(g[k - 1], text[k]) ELSE g[i]]
             step(i) == IF i = 0 THEN start ELSE alt_putcharbuf(h[i - 1], text[i])
  <2>2. \A i \in 0 .. k - 1 : g[i] = IF i = 0 THEN start ELSE alt_putcharbuf(g[i - 1], text[i])
    BY <2>1 DEF PutFollows, start
  <2>3. \A i \in 0 .. k - 1 : i \in 0 .. k /\ i # k /\ h[i] = g[i]
    OBVIOUS
  <2>4. k \in 0 .. k /\ k # 0 /\ k - 1 \in 0 .. k - 1 /\ h[k] = alt_putcharbuf(g[k - 1], text[k])
    OBVIOUS
  <2>5. \A i \in 0 .. k - 1 : i # 0 => i - 1 \in 0 .. k - 1
    OBVIOUS
  <2>6. h = [i \in 0 .. k |-> h[i]]
    OBVIOUS
  <2>. HIDE DEF h
  <2>7. \A i \in 0 .. k - 1 : h[i] = step(i)
    BY <2>2, <2>3, <2>5
  <2>8. h[k] = step(k)
    BY <2>3, <2>4
  <2>9. \A i \in 0 .. k : i \in 0 .. k - 1 \/ i = k
    OBVIOUS
  <2>10. \A i \in 0 .. k : h[i] = step(i)
    BY <2>7, <2>8, <2>9
  <2>11. PutFollows(h, text, k)
    BY <2>6, <2>10 DEF PutFollows, start
  <2>. QED
    BY <2>11
<1>. HIDE DEF T
<1>3. T \in SUBSET (0 .. n)
  BY DEF T
<1>4. T = 0 .. n
  BY <1>0, <1>1, <1>2, <1>3, UpToN
<1>5. n \in T
  BY <1>0, <1>4
<1>6. \E g : PutFollows(g, text, n)
  BY <1>5 DEF T
<1> DEFINE st == CHOOSE g : PutFollows(g, text, n)
<1>7. PutFollows(st, text, n)
  BY <1>6
<1>8. Written(text, semihosting) = IF semihosting THEN alt_putbufflush(st[n]).out ELSE text
  BY DEF Written, PutFollows
<1>. HIDE DEF st
<1>9. \A i \in 0 .. n : st[i] = IF i = 0 THEN start ELSE alt_putcharbuf(st[i - 1], text[i])
  BY <1>7 DEF PutFollows, start
<1> DEFINE H == {k \in 0 .. n : Holds(st[k], text, k)}
<1>10. 0 \in H
  <2>1. st[0] = start
    BY <1>0, <1>9
  <2>2. Holds(start, text, 0)
    <3>1. <<>> \in Seq(Chars) /\ <<>> \o <<>> = <<>> /\ SubSeq(text, 1, 0) = <<>>
      OBVIOUS
    <3>. QED
      BY <3>1 DEF Holds, start
  <2>. QED
    BY <1>0, <2>1, <2>2
<1>11. ASSUME NEW k \in 1 .. n, k - 1 \in H PROVE k \in H
  <2>1. k \in 0 .. n /\ k # 0 /\ k \in 1 .. Len(text)
    OBVIOUS
  <2>2. Holds(st[k - 1], text, k - 1)
    BY <1>11
  <2>3. st[k] = alt_putcharbuf(st[k - 1], text[k])
    BY <1>9, <2>1
  <2>4. Holds(alt_putcharbuf(st[k - 1], text[k]), text, k)
    BY <2>1, <2>2, PutHolds
  <2>. QED
    BY <2>1, <2>3, <2>4
<1>. HIDE DEF H
<1>12. H \in SUBSET (0 .. n)
  BY DEF H
<1>13. H = 0 .. n
  BY <1>0, <1>10, <1>11, <1>12, UpToN
<1>14. Holds(st[n], text, n)
  <2>1. n \in H
    BY <1>0, <1>13
  <2>. QED
    BY <2>1 DEF H
<1>15. alt_putbufflush(st[n]).out = SubSeq(text, 1, n)
  <2>1. PICK b \in Seq(Chars), o \in Seq(Chars) :
          st[n] = [buf |-> b, out |-> o] /\ o \o b = SubSeq(text, 1, n)
    BY <1>14 DEF Holds
  <2>. QED
    BY <2>1 DEF alt_putbufflush
<1>16. SubSeq(text, 1, n) = text
  OBVIOUS
<1>. QED
  BY <1>8, <1>15, <1>16

-----------------------------------------------------------------------------
(* Printing: the printf of the log *)

\* No width was asked for, no zeros, zeros.
NoWidth == -1
NoZeros == FALSE
Zeros == TRUE

Log(state, zero, before, args, out) ==
  [state |-> state, zero |-> zero, before |-> before, after |-> -1, args |-> args,
   out |-> out]

LogFollows(g, fmt, args, k) ==
  g = [i \in 0 .. k |->
         IF i = 0 THEN [state |-> "chars", zero |-> FALSE, before |-> -1, after |-> -1,
                        args |-> args, out |-> <<>>]
         ELSE LogPrintfStep(g[i - 1], fmt[i])]

\* The states after each character of the format.
LogStates(g, fmt, args) ==
  /\ g[0] = Log("chars", NoZeros, NoWidth, args, <<>>)
  /\ \A i \in 1 .. Len(fmt) : g[i] = LogPrintfStep(g[i - 1], fmt[i])
  /\ alt_log_printf_proc(fmt, args) = g[Len(fmt)].out

LEMMA LogRun ==
  ASSUME NEW fmt, NEW args, Len(fmt) \in Nat
  PROVE  \E g : LogStates(g, fmt, args)
<1> DEFINE n == Len(fmt)
           T == {k \in 0 .. n : \E g : LogFollows(g, fmt, args, k)}
           start == [state |-> "chars", zero |-> FALSE, before |-> -1, after |-> -1,
                     args |-> args, out |-> <<>>]
<1>1. 0 \in T
  <2> DEFINE g == [i \in 0 .. 0 |-> start]
  <2>1. LogFollows(g, fmt, args, 0)
    BY DEF LogFollows
  <2>. HIDE DEF g
  <2>. QED
    BY <2>1
<1>2. ASSUME NEW k \in 1 .. n, k - 1 \in T PROVE k \in T
  <2>1. PICK g : LogFollows(g, fmt, args, k - 1)
    BY <1>2
  <2>. HIDE DEF start
  <2> DEFINE h == [i \in 0 .. k |-> IF i = k THEN LogPrintfStep(g[k - 1], fmt[k]) ELSE g[i]]
             step(i) == IF i = 0 THEN start ELSE LogPrintfStep(h[i - 1], fmt[i])
  <2>2. \A i \in 0 .. k - 1 : g[i] = IF i = 0 THEN start ELSE LogPrintfStep(g[i - 1], fmt[i])
    BY <2>1 DEF LogFollows, start
  <2>3. \A i \in 0 .. k - 1 : i \in 0 .. k /\ i # k /\ h[i] = g[i]
    OBVIOUS
  <2>4. k \in 0 .. k /\ k # 0 /\ k - 1 \in 0 .. k - 1 /\ h[k] = LogPrintfStep(g[k - 1], fmt[k])
    OBVIOUS
  <2>5. \A i \in 0 .. k - 1 : i # 0 => i - 1 \in 0 .. k - 1
    OBVIOUS
  <2>6. h = [i \in 0 .. k |-> h[i]]
    OBVIOUS
  <2>. HIDE DEF h
  <2>7. \A i \in 0 .. k - 1 : h[i] = step(i)
    BY <2>2, <2>3, <2>5
  <2>8. h[k] = step(k)
    BY <2>3, <2>4
  <2>9. \A i \in 0 .. k : i \in 0 .. k - 1 \/ i = k
    OBVIOUS
  <2>10. \A i \in 0 .. k : h[i] = step(i)
    BY <2>7, <2>8, <2>9
  <2>11. LogFollows(h, fmt, args, k)
    BY <2>6, <2>10 DEF LogFollows, start
  <2>. QED
    BY <2>11
<1>. HIDE DEF T
<1>3. T \in SUBSET (0 .. n)
  BY DEF T
<1>4. T = 0 .. n
  BY <1>1, <1>2, <1>3, UpToN
<1>5. n \in T
  BY <1>4
<1>6. \E g : LogFollows(g, fmt, args, n)
  BY <1>5 DEF T
<1> DEFINE st == CHOOSE g : LogFollows(g, fmt, args, n)
<1>7. LogFollows(st, fmt, args, n)
  BY <1>6
<1>8. alt_log_printf_proc(fmt, args) = st[n].out
  BY DEF alt_log_printf_proc, LogFollows
<1>. HIDE DEF st
<1>9. \A i \in 0 .. n : st[i] = IF i = 0 THEN start ELSE LogPrintfStep(st[i - 1], fmt[i])
  BY <1>7 DEF LogFollows
<1>10. 0 \in 0 .. n /\ \A i \in 1 .. n : i \in 0 .. n /\ i # 0
  OBVIOUS
<1>11. LogStates(st, fmt, args)
  BY <1>8, <1>9, <1>10 DEF Log, LogStates, NoWidth, NoZeros, start
<1>. QED
  BY <1>11

LEMMA DecimalIs ==
  Decimal = {"0", "1", "2", "3", "4", "5", "6", "7", "8", "9"}
<1>1. \A i \in 1 .. 10 : i = 1 \/ i = 2 \/ i = 3 \/ i = 4 \/ i = 5 \/ i = 6 \/ i = 7 \/ i = 8
        \/ i = 9 \/ i = 10
  OBVIOUS
<1>2. 1 \in 1 .. 10 /\ 2 \in 1 .. 10 /\ 3 \in 1 .. 10 /\ 4 \in 1 .. 10 /\ 5 \in 1 .. 10
      /\ 6 \in 1 .. 10 /\ 7 \in 1 .. 10 /\ 8 \in 1 .. 10 /\ 9 \in 1 .. 10 /\ 10 \in 1 .. 10
  OBVIOUS
<1>3. Digits[1] = "0" /\ Digits[2] = "1" /\ Digits[3] = "2" /\ Digits[4] = "3"
      /\ Digits[5] = "4" /\ Digits[6] = "5" /\ Digits[7] = "6" /\ Digits[8] = "7"
      /\ Digits[9] = "8" /\ Digits[10] = "9"
  BY DEF Digits
<1>. QED
  BY <1>1, <1>2, <1>3 DEF Decimal

\* The steps for a character of the format.
LEMMA LogCopies ==
  ASSUME NEW z, NEW b, NEW a, NEW o, NEW c, c # "%"
  PROVE  LogPrintfStep(Log("chars", z, b, a, o), c) = Log("chars", z, b, a, Append(o, c))
BY DEF LogPrintfStep, Log

LEMMA LogEscapes ==
  ASSUME NEW z, NEW b, NEW a, NEW o
  PROVE  LogPrintfStep(Log("chars", z, b, a, o), "%") = Log("first", NoZeros, NoWidth, a, o)
BY DEF LogPrintfStep, Log, NoWidth, NoZeros

LEMMA LogPercent ==
  ASSUME NEW z, NEW b, NEW a, NEW o
  PROVE  LogPrintfStep(Log("first", z, b, a, o), "%") = Log("chars", z, b, a, Append(o, "%"))
BY DEF LogPrintfStep, Log

LEMMA LogZero ==
  ASSUME NEW z, NEW b, NEW a, NEW o
  PROVE  LogPrintfStep(Log("first", z, b, a, o), "0") = Log("other", Zeros, b, a, o)
BY DEF LogPrintfStep, Log, Zeros

Pending == {"first", "other"}

LEMMA LogConverts ==
  ASSUME NEW s \in Pending, NEW z, NEW b, NEW a, NEW o, NEW c, c # "%", c # "0"
  PROVE  LogPrintfStep(Log(s, z, b, a, o), c) = LogConversion(Log("other", z, b, a, o), c)
<1>1. LogPrintfStep(Log(s, z, b, a, o), c)
        = LogConversion([Log(s, z, b, a, o) EXCEPT !.state = "other"], c)
  BY DEF LogPrintfStep, Log, Pending
<1>2. [Log(s, z, b, a, o) EXCEPT !.state = "other"] = Log("other", z, b, a, o)
  BY DEF Log
<1>. QED
  BY <1>1, <1>2, Zenon

\* A conversion that prints text.
Converted(st, text) ==
  [st EXCEPT !.state = "chars", !.out = st.out \o text, !.args = Tail(st.args)]

LEMMA LogPrinted ==
  ASSUME NEW z, NEW b, NEW a, NEW o, NEW text
  PROVE  Converted(Log("other", z, b, a, o), text) = Log("chars", z, b, Tail(a), o \o text)
<1> DEFINE w == o \o text
           t == Tail(a)
<1>1. Log("other", z, b, a, o).out = o /\ Log("other", z, b, a, o).args = a
  BY DEF Log
<1>. HIDE DEF w, t
<1>2. [Log("other", z, b, a, o) EXCEPT !.state = "chars"] = Log("chars", z, b, a, o)
  BY DEF Log
<1>3. [Log("chars", z, b, a, o) EXCEPT !.out = w] = Log("chars", z, b, a, w)
  BY DEF Log
<1>4. [Log("chars", z, b, a, w) EXCEPT !.args = t] = Log("chars", z, b, t, w)
  BY DEF Log
<1>5. [[[Log("other", z, b, a, o) EXCEPT !.state = "chars"] EXCEPT !.out = w] EXCEPT !.args = t]
        = Log("chars", z, b, t, w)
  BY <1>2, <1>3, <1>4
<1>. QED
  BY <1>1, <1>5 DEF w, t, Converted

LettersOf(c) == IF c = "X" THEN Uppers ELSE Digits

\* What a conversion prints of its argument.
NumberText(c, z, b, arg) == IntegerText(arg, b, z, BaseOf(c), c \in {"d", "i"}, LettersOf(c))
PaddedText(b, arg) == Repeat(" ", b - Len(arg)) \o arg

LEMMA LogNumber ==
  ASSUME NEW s \in Pending, NEW z, NEW b, NEW a, NEW o, NEW c \in Conversions
  PROVE  LogPrintfStep(Log(s, z, b, a, o), c)
           = Log("chars", z, b, Tail(a), o \o NumberText(c, z, b, Head(a)))
<1>1. c # "%" /\ c # "0" /\ c # "." /\ c # "l" /\ c \notin Decimal
  BY DecimalIs DEF Conversions
<1>2. LogPrintfStep(Log(s, z, b, a, o), c) = LogConversion(Log("other", z, b, a, o), c)
  BY <1>1, LogConverts
<1>4. Log("other", z, b, a, o).args = a /\ Log("other", z, b, a, o).before = b
      /\ Log("other", z, b, a, o).zero = z
  BY DEF Log
<1> DEFINE L == Log("other", z, b, a, o)
<1>4a. L.args = a /\ L.before = b /\ L.zero = z
  BY <1>4
<1>4b. \A text : Converted(L, text) = Log("chars", z, b, Tail(a), o \o text)
  BY LogPrinted
<1>. HIDE DEF L
<1>5. CASE c \in {"d", "i"}
  <2>0. LogConversion(L, c)
          = Converted(L, IntegerText(Head(L.args), L.before, L.zero, 10, TRUE, Digits))
    BY <1>1, <1>5 DEF LogConversion, Converted
  <2>1. LogConversion(L, c)
          = Log("chars", z, b, Tail(a), o \o IntegerText(Head(a), b, z, 10, TRUE, Digits))
    BY <1>4a, <1>4b, <2>0
  <2>2. BaseOf(c) = 10 /\ (c \in {"d", "i"}) = TRUE /\ LettersOf(c) = Digits
    BY <1>5 DEF BaseOf, LettersOf
  <2>3. NumberText(c, z, b, Head(a)) = IntegerText(Head(a), b, z, 10, TRUE, Digits)
    BY <2>2, Zenon DEF NumberText
  <2>. QED
    BY <1>2, <2>1, <2>3 DEF L
<1>6. CASE c = "u"
  <2>0. LogConversion(L, c)
          = Converted(L, IntegerText(Head(L.args), L.before, L.zero, 10, FALSE, Digits))
    BY <1>1, <1>6 DEF LogConversion, Converted
  <2>1. LogConversion(L, c)
          = Log("chars", z, b, Tail(a), o \o IntegerText(Head(a), b, z, 10, FALSE, Digits))
    BY <1>4a, <1>4b, <2>0
  <2>2. BaseOf(c) = 10 /\ (c \in {"d", "i"}) = FALSE /\ LettersOf(c) = Digits
    BY <1>6 DEF BaseOf, LettersOf
  <2>3. NumberText(c, z, b, Head(a)) = IntegerText(Head(a), b, z, 10, FALSE, Digits)
    BY <2>2, Zenon DEF NumberText
  <2>. QED
    BY <1>2, <2>1, <2>3 DEF L
<1>7. CASE c = "o"
  <2>0. LogConversion(L, c)
          = Converted(L, IntegerText(Head(L.args), L.before, L.zero, 8, FALSE, Digits))
    BY <1>1, <1>7 DEF LogConversion, Converted
  <2>1. LogConversion(L, c)
          = Log("chars", z, b, Tail(a), o \o IntegerText(Head(a), b, z, 8, FALSE, Digits))
    BY <1>4a, <1>4b, <2>0
  <2>2. BaseOf(c) = 8 /\ (c \in {"d", "i"}) = FALSE /\ LettersOf(c) = Digits
    BY <1>7 DEF BaseOf, LettersOf
  <2>3. NumberText(c, z, b, Head(a)) = IntegerText(Head(a), b, z, 8, FALSE, Digits)
    BY <2>2, Zenon DEF NumberText
  <2>. QED
    BY <1>2, <2>1, <2>3 DEF L
<1>8. CASE c = "x"
  <2>0. LogConversion(L, c)
          = Converted(L, IntegerText(Head(L.args), L.before, L.zero, 16, FALSE, Digits))
    BY <1>1, <1>8 DEF LogConversion, Converted
  <2>1. LogConversion(L, c)
          = Log("chars", z, b, Tail(a), o \o IntegerText(Head(a), b, z, 16, FALSE, Digits))
    BY <1>4a, <1>4b, <2>0
  <2>2. BaseOf(c) = 16 /\ (c \in {"d", "i"}) = FALSE /\ LettersOf(c) = Digits
    BY <1>8 DEF BaseOf, LettersOf
  <2>3. NumberText(c, z, b, Head(a)) = IntegerText(Head(a), b, z, 16, FALSE, Digits)
    BY <2>2, Zenon DEF NumberText
  <2>. QED
    BY <1>2, <2>1, <2>3 DEF L
<1>9. CASE c = "X"
  <2>0. LogConversion(L, c)
          = Converted(L, IntegerText(Head(L.args), L.before, L.zero, 16, FALSE, Uppers))
    BY <1>1, <1>9 DEF LogConversion, Converted
  <2>1. LogConversion(L, c)
          = Log("chars", z, b, Tail(a), o \o IntegerText(Head(a), b, z, 16, FALSE, Uppers))
    BY <1>4a, <1>4b, <2>0
  <2>2. BaseOf(c) = 16 /\ (c \in {"d", "i"}) = FALSE /\ LettersOf(c) = Uppers
    BY <1>9 DEF BaseOf, LettersOf
  <2>3. NumberText(c, z, b, Head(a)) = IntegerText(Head(a), b, z, 16, FALSE, Uppers)
    BY <2>2, Zenon DEF NumberText
  <2>. QED
    BY <1>2, <2>1, <2>3 DEF L
<1>. QED
  BY <1>5, <1>6, <1>7, <1>8, <1>9 DEF Conversions

LEMMA LogText ==
  ASSUME NEW s \in Pending, NEW z, NEW b, NEW a, NEW o
  PROVE  LogPrintfStep(Log(s, z, b, a, o), "s")
           = Log("chars", z, b, Tail(a), o \o PaddedText(b, Head(a)))
<1>1. "s" \notin Decimal
  BY DecimalIs
<1>2. LogPrintfStep(Log(s, z, b, a, o), "s") = LogConversion(Log("other", z, b, a, o), "s")
  BY LogConverts
<1>4. Log("other", z, b, a, o).args = a /\ Log("other", z, b, a, o).before = b
  BY DEF Log
<1> DEFINE L == Log("other", z, b, a, o)
<1>4a. L.args = a /\ L.before = b
  BY <1>4
<1>4b. \A text : Converted(L, text) = Log("chars", z, b, Tail(a), o \o text)
  BY LogPrinted
<1>. HIDE DEF L
<1>5. LogConversion(L, "s")
        = Log("chars", z, b, Tail(a), o \o (Repeat(" ", b - Len(Head(a))) \o Head(a)))
  <2>1. LogConversion(L, "s")
          = Converted(L, Repeat(" ", L.before - Len(Head(L.args))) \o Head(L.args))
    BY <1>1 DEF LogConversion, Converted
  <2>. QED
    BY <1>4a, <1>4b, <2>1
<1>. QED
  BY <1>2, <1>5, Zenon DEF L, PaddedText

Stands(c, k) == k \in 1 .. 9 /\ c = Digits[k + 1]

LEMMA LogWidth ==
  ASSUME NEW s \in Pending, NEW z, NEW a, NEW o, NEW k, NEW c, Stands(c, k)
  PROVE  LogPrintfStep(Log(s, z, NoWidth, a, o), c) = Log("other", z, k, a, o)
<1>0. k \in 1 .. 9 /\ c = Digits[k + 1]
  BY DEF Stands
<1>1. k + 1 \in 1 .. 10 /\ k + 1 \in 1 .. 16 /\ k \in 0 .. 15 /\ Digits \in Alphabets
  BY <1>0 DEF Alphabets
<1>2. c \in Decimal
  BY <1>0, <1>1 DEF Decimal
<1>3. ValueOf(c) = k /\ c # "0"
  BY <1>0, <1>1, LettersAre
<1>4. c # "%" /\ c # "."
  BY <1>2, DecimalIs
<1>5. LogPrintfStep(Log(s, z, NoWidth, a, o), c) = LogConversion(Log("other", z, NoWidth, a, o), c)
  BY <1>3, <1>4, LogConverts
<1>6. Log("other", z, NoWidth, a, o).after = -1 /\ Log("other", z, NoWidth, a, o).before = -1
      /\ [Log("other", z, NoWidth, a, o) EXCEPT !.before = 0 + k] = Log("other", z, k, a, o)
  BY <1>0 DEF Log, NoWidth
<1> DEFINE L == Log("other", z, NoWidth, a, o)
<1>. HIDE DEF L
<1>6a. L.before = -1 /\ L.after = -1
  BY <1>6 DEF L
<1>7. LogConversion(L, c)
        = [L EXCEPT !.before = (IF L.before < 0 THEN 0 ELSE L.before * 10) + ValueOf(c)]
  <2>1. L.after < 0 /\ ~(L.after >= 0)
    BY <1>6a
  <2>2. c # "l" /\ c \notin {"d", "i"} /\ c # "u" /\ c # "o" /\ c # "x" /\ c # "X" /\ c # "c"
        /\ c # "s"
    BY <1>2, DecimalIs
  <2>. QED
    BY <1>2, <1>4, <2>1, <2>2 DEF LogConversion
<1>8. LogConversion(L, c) = [L EXCEPT !.before = 0 + k]
  <2>1. L.before < 0
    BY <1>6a
  <2>. QED
    BY <1>3, <1>7, <2>1, Zenon
<1>. QED
  BY <1>5, <1>6, <1>8 DEF L

-----------------------------------------------------------------------------
(* Printing: one conversion, or two, through the log *)

Asked(width) == IF width = 0 THEN NoWidth ELSE width

LogField(c, zero, width, arg) ==
  IF c = "s" THEN PaddedText(Asked(width), arg) ELSE NumberText(c, zero, Asked(width), arg)

LEMMA LogOne ==
  ASSUME NEW s \in Pending, NEW z, NEW width, NEW arg, NEW o, NEW c \in Conversions \union {"s"},
         NEW args, Head(args) = arg
  PROVE  LogPrintfStep(Log(s, z, Asked(width), args, o), c)
           = Log("chars", z, Asked(width), Tail(args), o \o LogField(c, z, width, arg))
<1> DEFINE w == Asked(width)
<1>1. LogField(c, z, width, arg) = IF c = "s" THEN PaddedText(w, arg) ELSE NumberText(c, z, w, arg)
  BY Zenon DEF LogField
<1>. HIDE DEF w
<1>2. CASE c \in Conversions
  <2>1. LogPrintfStep(Log(s, z, w, args, o), c)
          = Log("chars", z, w, Tail(args), o \o NumberText(c, z, w, arg))
    BY <1>2, LogNumber
  <2>2. c # "s"
    BY <1>2 DEF Conversions
  <2>. QED
    BY <1>1, <2>1, <2>2 DEF w
<1>3. CASE c = "s"
  <2>1. LogPrintfStep(Log(s, z, w, args, o), "s")
          = Log("chars", z, w, Tail(args), o \o PaddedText(w, arg))
    BY LogText
  <2>. QED
    BY <1>1, <1>3, <2>1 DEF w
<1>. QED
  BY <1>2, <1>3

FieldLogs(text, c, zero, width, arg) ==
  alt_log_printf_proc(Format(c, zero, width), <<arg>>) = <<"<">> \o text \o <<">">>

LEMMA LogFormat ==
  ASSUME NEW arg, NEW c \in Conversions \union {"s"}, NEW zero \in BOOLEAN, NEW width \in 0 .. 9,
         NEW text \in Seq(Chars), text = LogField(c, zero, width, arg)
  PROVE  FieldLogs(text, c, zero, width, arg)
<1> DEFINE u == IF zero THEN <<"0">> ELSE <<>>
           w == IF width = 0 THEN <<>> ELSE <<Digits[width + 1]>>
           fmt == Format(c, zero, width)
           args == <<arg>>
           S == {"0", Digits[width + 1]}
           p == 2 + Len(u)
           q == p + Len(w)
<1>1. fmt = <<"<", "%">> \o u \o w \o <<c, ">">>
  BY Zenon DEF Format
<1>2. u \in Seq(S) /\ w \in Seq(S)
  <2>1. <<"0">> \in Seq(S) /\ <<Digits[width + 1]>> \in Seq(S) /\ <<>> \in Seq(S)
    OBVIOUS
  <2>. QED
    BY <2>1
<1>3. /\ zero => u[1] = "0" /\ Len(u) = 1
      /\ ~zero => Len(u) = 0
      /\ width # 0 => w[1] = Digits[width + 1] /\ Len(w) = 1
      /\ width = 0 => Len(w) = 0
  OBVIOUS
<1>4. Pieces(fmt, c, ">", u, w)
  BY <1>1, <1>2, FormatPieces
<1>5. Head(args) = arg
  OBVIOUS
<1>. HIDE DEF u, w, fmt, args, S
<1>6. Len(u) \in 0 .. 1 /\ Len(w) \in 0 .. 1
  BY <1>3
<1>7. p \in Nat /\ q \in Nat /\ p >= 2 /\ q >= p /\ Len(fmt) = q + 2
  BY <1>4, <1>6 DEF Pieces
<1>8. PICK g : LogStates(g, fmt, args)
  <2>1. Len(fmt) \in Nat
    BY <1>7
  <2>. QED
    BY <2>1, LogRun
<1>9. g[0] = Log("chars", NoZeros, NoWidth, args, <<>>) /\ alt_log_printf_proc(fmt, args) = g[q + 2].out
  BY <1>7, <1>8 DEF LogStates
<1>10. \A i \in 1 .. q + 2 : g[i] = LogPrintfStep(g[i - 1], fmt[i])
  BY <1>7, <1>8 DEF LogStates
<1>11. g[2] = Log("first", NoZeros, NoWidth, args, <<"<">>)
  <2>1. fmt[1] = "<" /\ fmt[2] = "%"
    BY <1>4 DEF Pieces
  <2>2. 1 - 1 = 0 /\ 2 - 1 = 1 /\ 1 \in 1 .. q + 2 /\ 2 \in 1 .. q + 2
    BY <1>7
  <2>3. g[1] = LogPrintfStep(g[0], "<") /\ g[2] = LogPrintfStep(g[1], "%")
    BY <1>10, <2>1, <2>2
  <2>4. LogPrintfStep(Log("chars", NoZeros, NoWidth, args, <<>>), "<")
          = Log("chars", NoZeros, NoWidth, args, Append(<<>>, "<"))
    <3>. DEFINE o == <<>>
    <3>1. o = <<>>
      OBVIOUS
    <3>. HIDE DEF o
    <3>2. LogPrintfStep(Log("chars", NoZeros, NoWidth, args, o), "<")
            = Log("chars", NoZeros, NoWidth, args, Append(o, "<"))
      BY LogCopies
    <3>. QED
      BY <3>1, <3>2
  <2>5. Append(<<>>, "<") = <<"<">>
    OBVIOUS
  <2>6. LogPrintfStep(Log("chars", NoZeros, NoWidth, args, <<"<">>), "%")
          = Log("first", NoZeros, NoWidth, args, <<"<">>)
    BY LogEscapes
  <2>. QED
    BY <1>9, <2>3, <2>4, <2>5, <2>6
<1>12. \E s \in Pending : g[p] = Log(s, zero, NoWidth, args, <<"<">>)
  <2>1. CASE zero = TRUE
    <3>0. Len(u) = 1
      BY <1>3, <2>1
    <3>1. p = 3 /\ p - 1 = 2 /\ p \in 1 .. q + 2
      BY <1>6, <3>0
    <3>2. fmt[3] = "0"
      <4>1. fmt[2 + 1] = u[1]
        BY <1>3, <1>4, <2>1 DEF Pieces
      <4>. QED
        BY <1>3, <2>1, <4>1
    <3>3. g[3] = LogPrintfStep(g[2], "0")
      BY <1>10, <3>1, <3>2
    <3>4. LogPrintfStep(Log("first", NoZeros, NoWidth, args, <<"<">>), "0")
            = Log("other", Zeros, NoWidth, args, <<"<">>)
      BY LogZero
    <3>5. "other" \in Pending
      BY DEF Pending
    <3>. QED
      BY <1>11, <2>1, <3>1, <3>3, <3>4, <3>5 DEF Zeros
  <2>2. CASE zero = FALSE
    <3>1. p = 2 /\ "first" \in Pending
      BY <1>3, <2>2 DEF Pending
    <3>. QED
      BY <1>11, <2>2, <3>1 DEF NoZeros
  <2>. QED
    BY <2>1, <2>2
<1>. HIDE DEF p
<1>13. \E s \in Pending : g[q] = Log(s, zero, Asked(width), args, <<"<">>)
  <2>1. CASE width # 0
    <3>0. Len(w) = 1 /\ width \in 1 .. 9
      BY <1>3, <2>1
    <3>1. q = p + 1 /\ q - 1 = p /\ q \in 1 .. q + 2 /\ width \in 1 .. 9
      BY <1>7, <3>0
    <3>. DEFINE d == Digits[width + 1]
    <3>2. fmt[q] = d
      <4>1. fmt[p + 1] = w[1]
        <5>1. \A i \in 1 .. Len(w) : fmt[p + i] = w[i]
          BY <1>4 DEF Pieces, p
        <5>2. 1 \in 1 .. Len(w)
          BY <3>0
        <5>. QED
          BY <5>1, <5>2, Zenon
      <4>. QED
        BY <1>3, <2>1, <3>1, <4>1
    <3>d. d = Digits[width + 1]
      OBVIOUS
    <3>. HIDE DEF d
    <3>3. g[q] = LogPrintfStep(g[p], d)
      BY <1>10, <3>1, <3>2
    <3>4. PICK s \in Pending : g[p] = Log(s, zero, NoWidth, args, <<"<">>)
      BY <1>12
    <3>5. LogPrintfStep(Log(s, zero, NoWidth, args, <<"<">>), d)
            = Log("other", zero, width, args, <<"<">>)
      <4>. DEFINE o == <<"<">>
      <4>1. Stands(d, width)
        BY <3>1, <3>d DEF Stands
      <4>. HIDE DEF o
      <4>2. LogPrintfStep(Log(s, zero, NoWidth, args, o), d) = Log("other", zero, width, args, o)
        BY <4>1, LogWidth
      <4>. QED
        BY <4>2, Zenon DEF o
    <3>6. "other" \in Pending /\ Asked(width) = width
      BY <2>1 DEF Pending, Asked
    <3>7. g[q] = Log("other", zero, width, args, <<"<">>)
      BY <3>3, <3>4, <3>5
    <3>. QED
      BY <3>6, <3>7
  <2>2. CASE width = 0
    <3>1. q = p /\ Asked(width) = NoWidth
      BY <1>3, <1>7, <2>2 DEF Asked
    <3>. QED
      BY <1>12, <3>1
  <2>. QED
    BY <2>1, <2>2
<1>14. fmt[q + 1] = c /\ fmt[q + 2] = ">"
  BY <1>4 DEF Pieces, p
<1>. HIDE DEF q
<1>15. q + 1 \in 1 .. q + 2 /\ q + 2 \in 1 .. q + 2 /\ (q + 1) - 1 = q /\ (q + 2) - 1 = q + 1
  BY <1>7
<1>16. g[q + 1] = LogPrintfStep(g[q], c) /\ g[q + 2] = LogPrintfStep(g[q + 1], ">")
  BY <1>10, <1>14, <1>15
<1>17. PICK s \in Pending : g[q] = Log(s, zero, Asked(width), args, <<"<">>)
  BY <1>13
<1>18. LogPrintfStep(Log(s, zero, Asked(width), args, <<"<">>), c)
         = Log("chars", zero, Asked(width), Tail(args), <<"<">> \o text)
  BY <1>5, LogOne
<1>19. LogPrintfStep(Log("chars", zero, Asked(width), Tail(args), <<"<">> \o text), ">")
         = Log("chars", zero, Asked(width), Tail(args), Append(<<"<">> \o text, ">"))
  BY LogCopies
<1>20. g[q + 2] = Log("chars", zero, Asked(width), Tail(args), Append(<<"<">> \o text, ">"))
  BY <1>16, <1>17, <1>18, <1>19
<1>21. g[q + 2].out = Append(<<"<">> \o text, ">")
  BY <1>20 DEF Log
<1>22. Append(<<"<">> \o text, ">") = <<"<">> \o text \o <<">">>
  BY Bracketed
<1>. QED
  BY <1>9, <1>21, <1>22 DEF fmt, args, FieldLogs

Logged(text, c, zero, width, arg) ==
  /\ c \in Conversions \union {"s"} /\ zero \in BOOLEAN /\ width \in 0 .. 9
  /\ text \in Seq(Chars) /\ text = LogField(c, zero, width, arg)

LEMMA LoggedText ==
  ASSUME NEW text, NEW c, NEW zero, NEW width, NEW arg, Logged(text, c, zero, width, arg)
  PROVE  FieldLogs(text, c, zero, width, arg)
<1>1. /\ c \in Conversions \union {"s"} /\ zero \in BOOLEAN /\ width \in 0 .. 9
      /\ text \in Seq(Chars) /\ text = LogField(c, zero, width, arg)
  BY DEF Logged
<1>. QED
  BY <1>1, LogFormat

LEMMA NoRepeats ==
  ASSUME NEW c, NEW n \in Int, n < 1
  PROVE  Repeat(c, n) = <<>>
<1>1. 1 .. n = {}
  OBVIOUS
<1>2. [i \in {} |-> c] = <<>>
  OBVIOUS
<1>. QED
  BY <1>1, <1>2 DEF Repeat

LEMMA AroundOne ==
  ASSUME NEW S, NEW s \in Seq(S), NEW t \in Seq(S), NEW c \in S
  PROVE  Append(s, c) \o t = s \o (<<c>> \o t)
OBVIOUS

LEMMA LogTwo ==
  ASSUME NEW v, NEW text \in Seq(Chars), NEW digits \in Seq(Chars),
         digits = NumberText("x", NoZeros, NoWidth, v)
  PROVE  alt_log_printf_proc(<<"%", "x", "%", "%", "%", "s">>, <<v, text>>)
           = digits \o (<<"%">> \o text)
<1> DEFINE fmt == <<"%", "x", "%", "%", "%", "s">>
           args == <<v, text>>
           rest == Tail(args)
<1>2. Len(fmt) = 6 /\ fmt[1] = "%" /\ fmt[2] = "x" /\ fmt[3] = "%" /\ fmt[4] = "%"
      /\ fmt[5] = "%" /\ fmt[6] = "s"
  OBVIOUS
<1>a. Head(args) = v /\ Head(rest) = text
  OBVIOUS
<1>. HIDE DEF fmt, args, rest
<1>c. Len(fmt) \in Nat
  BY <1>2
<1>3. PICK g : LogStates(g, fmt, args)
  BY <1>c, LogRun
<1>4. g[0] = Log("chars", NoZeros, NoWidth, args, <<>>) /\ alt_log_printf_proc(fmt, args) = g[6].out
  BY <1>2, <1>3 DEF LogStates
<1>5. g[1] = LogPrintfStep(g[0], "%") /\ g[2] = LogPrintfStep(g[1], "x")
      /\ g[3] = LogPrintfStep(g[2], "%") /\ g[4] = LogPrintfStep(g[3], "%")
      /\ g[5] = LogPrintfStep(g[4], "%") /\ g[6] = LogPrintfStep(g[5], "s")
  <2>1. 1 - 1 = 0 /\ 2 - 1 = 1 /\ 3 - 1 = 2 /\ 4 - 1 = 3 /\ 5 - 1 = 4 /\ 6 - 1 = 5
        /\ 1 \in 1 .. 6 /\ 2 \in 1 .. 6 /\ 3 \in 1 .. 6 /\ 4 \in 1 .. 6 /\ 5 \in 1 .. 6
        /\ 6 \in 1 .. 6
    OBVIOUS
  <2>2. \A i \in 1 .. 6 : g[i] = LogPrintfStep(g[i - 1], fmt[i])
    BY <1>2, <1>3 DEF LogStates
  <2>. QED
    BY <1>2, <2>1, <2>2
<1>6. g[1] = Log("first", NoZeros, NoWidth, args, <<>>)
  BY <1>4, <1>5, LogEscapes
<1>. DEFINE begin == <<>> \o digits
<1>7. g[2] = Log("chars", NoZeros, NoWidth, rest, begin)
  <2>1. "x" \in Conversions /\ "first" \in Pending
    BY DEF Conversions, Pending
  <2>. DEFINE o == <<>>
  <2>o. o = <<>>
    OBVIOUS
  <2>. HIDE DEF o
  <2>2. LogPrintfStep(Log("first", NoZeros, NoWidth, args, o), "x")
          = Log("chars", NoZeros, NoWidth, Tail(args),
                o \o NumberText("x", NoZeros, NoWidth, Head(args)))
    BY <2>1, LogNumber
  <2>3. NumberText("x", NoZeros, NoWidth, Head(args)) = digits
    BY <1>a
  <2>. QED
    BY <1>5, <1>6, <2>o, <2>2, <2>3 DEF rest
<1>. HIDE DEF begin
<1>8. g[3] = Log("first", NoZeros, NoWidth, rest, begin)
  BY <1>5, <1>7, LogEscapes
<1>. DEFINE before == Append(begin, "%")
<1>9. g[4] = Log("chars", NoZeros, NoWidth, rest, before)
  BY <1>5, <1>8, LogPercent
<1>. HIDE DEF before
<1>10. g[5] = Log("first", NoZeros, NoWidth, rest, before)
  BY <1>5, <1>9, LogEscapes
<1>. DEFINE shown == PaddedText(NoWidth, text)
           end == before \o shown
<1>11. g[6] = Log("chars", NoZeros, NoWidth, Tail(rest), end)
  <2>1. "first" \in Pending
    BY DEF Pending
  <2>2. LogPrintfStep(Log("first", NoZeros, NoWidth, rest, before), "s")
          = Log("chars", NoZeros, NoWidth, Tail(rest),
                before \o PaddedText(NoWidth, Head(rest)))
    BY <2>1, LogText
  <2>. QED
    BY <1>5, <1>10, <1>a, <2>2
<1>. HIDE DEF end
<1>12. g[6].out = end
  BY <1>11 DEF Log
<1>13. Repeat(" ", NoWidth - Len(text)) = <<>>
  <2>1. Len(text) \in Nat
    OBVIOUS
  <2>2. NoWidth - Len(text) \in Int /\ NoWidth - Len(text) < 1
    BY <2>1 DEF NoWidth
  <2>. QED
    BY <2>2, NoRepeats
<1>14. end = Append(<<>> \o digits, "%") \o (<<>> \o text)
  BY <1>13 DEF end, shown, before, begin, PaddedText
<1>15. "%" \in Chars
  BY CharsAre
<1>16. Append(<<>> \o digits, "%") \o (<<>> \o text) = digits \o (<<"%">> \o text)
  <2>1. <<>> \o digits = digits /\ <<>> \o text = text
    OBVIOUS
  <2>2. Append(digits, "%") \o text = digits \o (<<"%">> \o text)
    BY <1>15, AroundOne
  <2>. QED
    BY <2>1, <2>2
<1>. QED
  BY <1>4, <1>12, <1>14, <1>16 DEF fmt, args

-----------------------------------------------------------------------------
(* Printing: what a field shows *)

LEMMA ZeroIsALetter ==
  "0" \in Chars /\ "a" \in Chars /\ "b" \in Chars
<1>1. DOMAIN Digits = 1 .. 16 /\ Digits[1] = "0" /\ Digits[11] = "a" /\ Digits[12] = "b"
  BY DEF Digits
<1>2. 1 \in 1 .. 16 /\ 11 \in 1 .. 16 /\ 12 \in 1 .. 16
  OBVIOUS
<1>3. "0" \in Range(Digits) /\ "a" \in Range(Digits) /\ "b" \in Range(Digits)
  BY <1>1, <1>2 DEF Range
<1>. QED
  BY <1>3 DEF Chars, Letters16

LEMMA Repeats ==
  ASSUME NEW S, NEW c \in S, NEW n \in Int
  PROVE  /\ Repeat(c, n) \in Seq(S) /\ Len(Repeat(c, n)) = MoreOf(0, n)
         /\ Repeat(c, MoreOf(0, n)) = Repeat(c, n) /\ MoreOf(0, n) \in Nat
<1>1. CASE n >= 1
  <2>1. MoreOf(0, n) = n /\ n \in Nat
    BY <1>1 DEF MoreOf
  <2>2. Repeat(c, n) \in Seq(S) /\ Len(Repeat(c, n)) = n
    BY <2>1 DEF Repeat
  <2>. QED
    BY <2>1, <2>2
<1>2. CASE n < 1
  <2>1. MoreOf(0, n) = 0
    BY <1>2 DEF MoreOf
  <2>2. Repeat(c, n) = <<>> /\ Repeat(c, 0) = <<>>
    BY <1>2, NoRepeats
  <2>3. <<>> \in Seq(S) /\ Len(<<>>) = 0
    OBVIOUS
  <2>. QED
    BY <2>1, <2>2, <2>3
<1>. QED
  BY <1>1, <1>2

LEMMA LenIsNat ==
  ASSUME NEW S, NEW s \in Seq(S)
  PROVE  Len(s) \in Nat
OBVIOUS

LEMMA TheEnd ==
  ASSUME NEW S, NEW s \in Seq(S), NEW e \in Seq(S)
  PROVE  /\ s \o e \in Seq(S) /\ Len(s \o e) = Len(s) + Len(e)
         /\ SubSeq(s \o e, Len(s) + 1, Len(s) + Len(e)) = e
         /\ SubSeq(s \o e, 1, Len(s)) = s
OBVIOUS

\* Three pieces, the last of which is e.
EndsIn(f, a, b, e, S) ==
  /\ f \in Seq(S)
  /\ Len(f) \in Nat /\ Len(e) \in Nat /\ Len(a) \in Nat /\ Len(b) \in Nat
  /\ Len(f) = Len(a) + Len(b) + Len(e)
  /\ SubSeq(f, Len(f) - Len(e) + 1, Len(f)) = e

LEMMA Three ==
  ASSUME NEW S, NEW a \in Seq(S), NEW b \in Seq(S), NEW e \in Seq(S)
  PROVE  EndsIn(a \o b \o e, a, b, e, S)
<1> DEFINE s == a \o b
           f == s \o e
<1>0. Len(a) \in Nat /\ Len(b) \in Nat /\ Len(e) \in Nat
  BY LenIsNat
<1>1. s \in Seq(S) /\ Len(s) = Len(a) + Len(b)
  BY TheEnd
<1>f. f = s \o e
  OBVIOUS
<1>. HIDE DEF s, f
<1>2. /\ f \in Seq(S) /\ Len(f) = Len(s) + Len(e)
      /\ SubSeq(f, Len(s) + 1, Len(s) + Len(e)) = e
  <2>1. \A x \in Seq(S) : /\ x \o e \in Seq(S) /\ Len(x \o e) = Len(x) + Len(e)
                           /\ SubSeq(x \o e, Len(x) + 1, Len(x) + Len(e)) = e
    BY TheEnd
  <2>. QED
    BY <1>1, <1>f, <2>1, Zenon
<1>3. Len(f) - Len(e) + 1 = Len(s) + 1
  BY <1>0, <1>1, <1>2
<1>4. EndsIn(f, a, b, e, S)
  BY <1>0, <1>1, <1>2, <1>3 DEF EndsIn
<1>. QED
  BY <1>4 DEF f, s

\* A number as wide as it was asked for: e are its digits, sign is before them.
Fitted(f, e, sign, zero, width) ==
  /\ Len(e) \in 1 .. Len(f)
  /\ SubSeq(f, Len(f) - Len(e) + 1, Len(f)) = e
  /\ Len(f) - Len(e) - Len(sign) = MoreOf(0, width - Len(e) - Len(sign))
  /\ f = (IF zero THEN sign \o Repeat("0", Len(f) - Len(e) - Len(sign))
          ELSE Repeat(" ", Len(f) - Len(e) - Len(sign)) \o sign) \o e

LEMMA RoomAsked ==
  ASSUME NEW width \in 0 .. 9, NEW a \in Nat \ {0}, NEW b \in Nat
  PROVE  /\ Asked(width) - a - b \in Int
         /\ MoreOf(0, Asked(width) - a - b) = MoreOf(0, width - a - b)
<1>1. CASE width = 0
  <2>1. Asked(width) = -1
    BY <1>1 DEF Asked, NoWidth
  <2>. QED
    BY <1>1, <2>1 DEF MoreOf
<1>2. CASE width # 0
  <2>1. Asked(width) = width
    BY <1>2 DEF Asked
  <2>. QED
    BY <2>1 DEF MoreOf
<1>. QED
  BY <1>1, <1>2

LEMMA SumTaken ==
  ASSUME NEW a \in Nat, NEW b \in Nat \ {0}, NEW m \in Nat, NEW n,
         n = a + m + b \/ n = m + a + b
  PROVE  n - b - a = m /\ b \in 1 .. n
OBVIOUS

Fitting(e, sign, zero, width) ==
  LET room == width - Len(e) - Len(sign)
  IN IF zero THEN sign \o Repeat("0", room) \o e ELSE Repeat(" ", room) \o sign \o e

LEMMA FieldFits ==
  ASSUME NEW e \in Seq(Chars), NEW sign \in Seq(Chars), Len(e) \in Nat \ {0},
         NEW zero \in BOOLEAN, NEW width \in 0 .. 9, NEW f,
         f = Fitting(e, sign, zero, Asked(width))
  PROVE  f \in Seq(Chars) /\ Fitted(f, e, sign, zero, width)
<1> DEFINE room == Asked(width) - Len(e) - Len(sign)
           m == MoreOf(0, room)
<1>0. Len(sign) \in Nat /\ Len(e) \in Nat \ {0}
  BY LenIsNat
<1>1. room \in Int /\ m = MoreOf(0, width - Len(e) - Len(sign))
  BY <1>0, RoomAsked
<1>2. " " \in Chars /\ "0" \in Chars
  BY CharsAre, ZeroIsALetter
<1>. HIDE DEF room
<1>3. /\ Repeat("0", room) \in Seq(Chars) /\ Len(Repeat("0", room)) = m
      /\ Repeat("0", m) = Repeat("0", room) /\ m \in Nat
  BY <1>1, <1>2, Repeats
<1>4. /\ Repeat(" ", room) \in Seq(Chars) /\ Len(Repeat(" ", room)) = m
      /\ Repeat(" ", m) = Repeat(" ", room)
  BY <1>1, <1>2, Repeats
<1>. HIDE DEF m
<1>5. CASE zero = TRUE
  <2> DEFINE r == Repeat("0", room)
  <2>1. f = sign \o r \o e
    BY <1>5 DEF room, Fitting
  <2>2. r \in Seq(Chars) /\ Len(r) = m /\ Repeat("0", m) = r
    BY <1>3
  <2>. HIDE DEF r
  <2>3. EndsIn(f, sign, r, e, Chars)
    BY <2>1, <2>2, Three
  <2>4. Len(f) = Len(sign) + m + Len(e) /\ Len(f) - Len(e) - Len(sign) = m
        /\ Len(e) \in 1 .. Len(f)
    <3>1. Len(f) = Len(sign) + m + Len(e)
      BY <2>2, <2>3 DEF EndsIn
    <3>2. Len(f) - Len(e) - Len(sign) = m /\ Len(e) \in 1 .. Len(f)
      BY <1>0, <1>3, <3>1, SumTaken
    <3>. QED
      BY <3>1, <3>2
  <2>5. Fitted(f, e, sign, TRUE, width)
    BY <1>1, <2>1, <2>2, <2>3, <2>4 DEF Fitted, EndsIn
  <2>. QED
    BY <1>5, <2>3, <2>5 DEF EndsIn
<1>6. CASE zero = FALSE
  <2> DEFINE r == Repeat(" ", room)
  <2>1. f = r \o sign \o e
    BY <1>6 DEF room, Fitting
  <2>2. r \in Seq(Chars) /\ Len(r) = m /\ Repeat(" ", m) = r
    BY <1>4
  <2>. HIDE DEF r
  <2>3. EndsIn(f, r, sign, e, Chars)
    BY <2>1, <2>2, Three
  <2>4. Len(f) = m + Len(sign) + Len(e) /\ Len(f) - Len(e) - Len(sign) = m
        /\ Len(e) \in 1 .. Len(f)
    <3>1. Len(f) = m + Len(sign) + Len(e)
      BY <2>2, <2>3 DEF EndsIn
    <3>2. Len(f) - Len(e) - Len(sign) = m /\ Len(e) \in 1 .. Len(f)
      BY <1>0, <1>3, <3>1, SumTaken
    <3>. QED
      BY <3>1, <3>2
  <2>5. Fitted(f, e, sign, FALSE, width)
    BY <1>1, <2>1, <2>2, <2>3, <2>4 DEF Fitted, EndsIn
  <2>. QED
    BY <1>6, <2>3, <2>5 DEF EndsIn
<1>. QED
  BY <1>5, <1>6

\* A number in the log: its magnitude after its sign.
SignOf(v, signed) == IF signed /\ v >= Word \div 2 THEN <<"-">> ELSE <<>>
SizeOf(v, signed) == IF signed /\ v >= Word \div 2 THEN Word - v ELSE v

LEMMA SizeFits ==
  ASSUME NEW v \in 0 .. Word - 1, NEW signed \in BOOLEAN
  PROVE  SizeOf(v, signed) \in 0 .. Word - 1 /\ SignOf(v, signed) \in Seq(Chars)
<1>1. Word \in Nat /\ Word >= 2 /\ Word \div 2 >= 1
  BY WordIs
<1>2. SizeOf(v, signed) \in 0 .. Word - 1
  BY <1>1 DEF SizeOf
<1>3. "-" \in Chars
  BY CharsAre
<1>4. <<"-">> \in Seq(Chars) /\ <<>> \in Seq(Chars)
  BY <1>3
<1>. QED
  BY <1>2, <1>4 DEF SignOf

LEMMA FittedShows ==
  ASSUME NEW f, NEW v, NEW base, NEW signed, NEW zero, NEW width, NEW e,
         Numeral(e, SizeOf(v, signed), base), Fitted(f, e, SignOf(v, signed), zero, width)
  PROVE  Shows(f, v, base, signed, zero, width)
<1> DEFINE n == Len(e)
           sign == SignOf(v, signed)
           size == SizeOf(v, signed)
<1>1. /\ n \in 1 .. Len(f)
      /\ SubSeq(f, Len(f) - n + 1, Len(f)) = e
      /\ Reads(SubSeq(f, Len(f) - n + 1, Len(f)), base, size)
      /\ Len(f) - n - Len(sign) = MoreOf(0, width - n - Len(sign))
      /\ f = (IF zero THEN sign \o Repeat("0", Len(f) - n - Len(sign))
              ELSE Repeat(" ", Len(f) - n - Len(sign)) \o sign)
             \o SubSeq(f, Len(f) - n + 1, Len(f))
  BY DEF Fitted, Numeral
<1>. HIDE DEF n
<1>. QED
  BY <1>1, Zenon DEF Shows, SignOf, SizeOf

LEMMA NumberShows ==
  ASSUME NEW c \in Conversions, NEW zero \in BOOLEAN, NEW width \in 0 .. 9,
         NEW v \in 0 .. Word - 1
  PROVE  /\ NumberText(c, zero, Asked(width), v) \in Seq(Chars)
         /\ Shows(NumberText(c, zero, Asked(width), v), v, BaseOf(c), c \in {"d", "i"}, zero,
                  width)
<1> DEFINE signed == c \in {"d", "i"}
           base == BaseOf(c)
           letters == LettersOf(c)
           w == Asked(width)
           f == NumberText(c, zero, w, v)
           sign == SignOf(v, signed)
           size == SizeOf(v, signed)
           e == DigitsOf(size, base, letters)
<1>1. signed \in BOOLEAN
  OBVIOUS
<1>2. base \in Bases /\ letters \in Alphabets
  BY DEF Conversions, BaseOf, Bases, LettersOf, Alphabets
<1>3. f = Fitting(e, sign, zero, w)
  BY Zenon DEF NumberText, IntegerText, Fitting, SignOf, SizeOf
<1>. HIDE DEF signed
<1>4. size \in 0 .. Word - 1 /\ sign \in Seq(Chars)
  BY <1>1, SizeFits
<1>. HIDE DEF size, sign, base, letters
<1>5. Numeral(e, size, base)
  BY <1>2, <1>4, DigitsOfNumeral
<1>6. e \in Seq(Chars) /\ Len(e) \in Nat \ {0}
  BY <1>5 DEF Numeral
<1>. HIDE DEF e, f
<1>7. f \in Seq(Chars) /\ Fitted(f, e, sign, zero, width)
  BY <1>3, <1>4, <1>6, FieldFits DEF w
<1>8. Shows(f, v, base, signed, zero, width)
  BY <1>5, <1>7, FittedShows DEF sign, size
<1>. QED
  BY <1>7, <1>8, Zenon DEF f, base, signed, w

-----------------------------------------------------------------------------
(* Printing: the fields that are printed *)

LEMMA Inner ==
  ASSUME NEW S, NEW s \in Seq(S), NEW a \in S, NEW b \in S, NEW f,
         f = <<a>> \o s \o <<b>>
  PROVE  SubSeq(f, 2, Len(f) - 1) = s
OBVIOUS

LEMMA InBrackets ==
  ASSUME NEW s \in Seq(Chars), printed' = <<"<">> \o s \o <<">">>
  PROVE  Field' = s
<1>1. "<" \in Chars /\ ">" \in Chars
  BY CharsAre
<1>2. SubSeq(printed', 2, Len(printed') - 1) = s
  BY <1>1, Inner
<1>. QED
  BY <1>2 DEF Field

Job(call, c, zero, width, arg) ==
  [call |-> call, conversion |-> c, zero |-> zero, width |-> width, arg |-> arg]

LEMMA JobIs ==
  ASSUME NEW call, NEW c, NEW zero, NEW width, NEW arg, NEW j,
         j = Job(call, c, zero, width, arg)
  PROVE  j.call = call /\ j.conversion = c /\ j.zero = zero /\ j.width = width /\ j.arg = arg
BY DEF Job

LEMMA PairIs ==
  ASSUME NEW a, NEW b, NEW p, p = <<a, b>>
  PROVE  p[1] = a /\ p[2] = b
OBVIOUS

LEMMA NumberField ==
  ASSUME NEW call, NEW c \in Conversions, NEW zero \in BOOLEAN, NEW width, NEW v, NEW s,
         job' = Job(call, c, zero, width, v), Field' = s,
         Shows(s, v, BaseOf(c), c \in {"d", "i"}, zero, width)
  PROVE  PrintsField'
<1>1. job'.conversion = c /\ job'.zero = zero /\ job'.width = width /\ job'.arg = v
  BY JobIs
<1>2. c # "s" /\ c # "two"
  BY DEF Conversions
<1>3. Shows(Field', job'.arg, BaseOf(job'.conversion), job'.conversion \in {"d", "i"},
            job'.zero, job'.width)
  BY <1>1, Zenon
<1>4. job'.conversion \in Conversions
  BY <1>1
<1>. QED
  BY <1>1, <1>2, <1>3, <1>4, Zenon DEF PrintsField

LEMMA TextField ==
  ASSUME NEW call, NEW zero, NEW width, NEW s,
         job' = Job(call, "s", zero, width, s), Field' = PaddedText(width, s)
  PROVE  PrintsField'
<1>1. job'.conversion = "s" /\ job'.width = width /\ job'.arg = s
  BY JobIs
<1>2. "s" \notin Conversions
  BY DEF Conversions
<1>3. Field' = Repeat(" ", job'.width - Len(job'.arg)) \o job'.arg
  BY <1>1, Zenon DEF PaddedText
<1>. QED
  BY <1>1, <1>2, <1>3, Zenon DEF PrintsField

LEMMA TwoFields ==
  ASSUME NEW call, NEW zero, NEW width, NEW v, NEW s \in Seq(Chars), NEW e, Numeral(e, v, 16),
         job' = Job(call, "two", zero, width, <<v, s>>), printed' = e \o (<<"%">> \o s)
  PROVE  PrintsField'
<1> DEFINE n == Len(e)
           t == <<"%">> \o s
<1>1. job'.conversion = "two" /\ job'.arg = <<v, s>>
  BY JobIs
<1>2. "two" \notin Conversions
  BY DEF Conversions
<1>a. <<v, s>>[1] = v /\ <<v, s>>[2] = s
  BY PairIs
<1>3. job'.arg[1] = v /\ job'.arg[2] = s
  BY <1>1, <1>a
<1>4. "%" \in Chars
  BY CharsAre
<1>5. t \in Seq(Chars)
  BY <1>4
<1>6. e \in Seq(Chars) /\ n \in Nat \ {0} /\ Reads(e, 16, v)
  BY DEF Numeral
<1>t. printed' = e \o t
  OBVIOUS
<1>u. t = <<"%">> \o s
  OBVIOUS
<1>. HIDE DEF t
<1>7. /\ Len(printed') = n + Len(t) /\ SubSeq(printed', n + 1, n + Len(t)) = t
      /\ SubSeq(printed', 1, n) = e
  <2>1. e \in Seq(Chars)
    BY <1>6
  <2>2. /\ Len(e \o t) = Len(e) + Len(t) /\ SubSeq(e \o t, Len(e) + 1, Len(e) + Len(t)) = t
        /\ SubSeq(e \o t, 1, Len(e)) = e
    BY <1>5, <2>1, TheEnd
  <2>. QED
    BY <1>t, <2>2, Zenon
<1>8. Len(t) \in Nat
  BY <1>5, LenIsNat
<1>. HIDE DEF n
<1>9. n \in 1 .. Len(printed')
  BY <1>6, <1>7, <1>8
<1>10. Reads(UpTo(n, printed'), 16, job'.arg[1])
  BY <1>3, <1>6, <1>7 DEF UpTo
<1>11. SubSeq(printed', n + 1, Len(printed')) = <<"%">> \o job'.arg[2]
  BY <1>3, <1>7, <1>u
<1>12. \E k \in 1 .. Len(printed') :
          /\ Reads(UpTo(k, printed'), 16, job'.arg[1])
          /\ SubSeq(printed', k + 1, Len(printed')) = <<"%">> \o job'.arg[2]
  BY <1>9, <1>10, <1>11
<1>. QED
  BY <1>1, <1>2, <1>12, Zenon DEF PrintsField

LEMMA Negative ==
  ASSUME NEW a \in Nat, NEW b \in Nat
  PROVE  NoWidth - a - b \in Int /\ NoWidth - a - b < 1
BY DEF NoWidth

LEMMA SamePads ==
  ASSUME NEW width \in 0 .. 9, NEW n \in Nat
  PROVE  /\ Asked(width) - n \in Int /\ Repeat(" ", Asked(width) - n) = Repeat(" ", width - n)
         /\ Repeat(" ", 0 - n) = <<>>
<1>1. 0 - n \in Int /\ 0 - n < 1 /\ width - n \in Int /\ -1 - n \in Int /\ -1 - n < 1
  OBVIOUS
<1>2. Repeat(" ", 0 - n) = <<>> /\ Repeat(" ", -1 - n) = <<>>
  BY <1>1, NoRepeats
<1>3. CASE width = 0
  BY <1>1, <1>2, <1>3 DEF Asked, NoWidth
<1>4. CASE width # 0
  BY <1>1, <1>2, <1>4 DEF Asked
<1>. QED
  BY <1>3, <1>4

LEMMA PaddedIs ==
  ASSUME NEW s \in Seq(Chars), NEW width \in 0 .. 9
  PROVE  /\ PaddedText(Asked(width), s) = PaddedText(width, s)
         /\ PaddedText(Asked(width), s) \in Seq(Chars)
         /\ s = PaddedText(0, s)
<1> DEFINE n == Len(s)
<1>1. n \in Nat /\ " " \in Chars
  BY LenIsNat, CharsAre
<1>. HIDE DEF n
<1>2. /\ Asked(width) - n \in Int /\ Repeat(" ", Asked(width) - n) = Repeat(" ", width - n)
      /\ Repeat(" ", 0 - n) = <<>>
  BY <1>1, SamePads
<1>3. Repeat(" ", Asked(width) - n) \in Seq(Chars)
  BY <1>1, <1>2, Repeats
<1>6. s = <<>> \o s
  OBVIOUS
<1>7. Repeat(" ", Asked(width) - n) \o s \in Seq(Chars)
  BY <1>3, TheEnd
<1>. QED
  BY <1>2, <1>6, <1>7 DEF PaddedText, n

\* Asked for no width, a number is its digits.
LEMMA WithoutPadding ==
  ASSUME NEW e \in Seq(Chars), Len(e) \in Nat \ {0}
  PROVE  Fitted(e, e, <<>>, FALSE, 0)
<1> DEFINE n == Len(e)
           none == <<>>
<1>0. n \in Nat \ {0} /\ n = Len(e)
  OBVIOUS
<1>1. SubSeq(e, 1, n) = e /\ none \o e = e /\ none \o none = none /\ Len(none) = 0
  OBVIOUS
<1>. HIDE DEF n, none
<1>2. n \in 1 .. n /\ n - n + 1 = 1 /\ n - n - 0 = 0 /\ MoreOf(0, 0 - n - 0) = 0
  BY <1>0 DEF MoreOf
<1>3. Repeat(" ", 0) = none
  <2>1. 0 \in Int /\ 0 < 1
    OBVIOUS
  <2>. QED
    BY <2>1, NoRepeats DEF none
<1>4. e = (Repeat(" ", n - n - Len(none)) \o none) \o e
  BY <1>1, <1>2, <1>3
<1>5. Fitted(e, e, none, FALSE, 0)
  BY <1>0, <1>1, <1>2, <1>4 DEF Fitted
<1>. QED
  BY <1>5 DEF none

\* Every print of a number or a text, and of both.
LEMMA PrintsHexShows ==
  ASSUME NEW v \in Values, NEW semihosting \in BOOLEAN, PrintsHex(v, semihosting)
  PROVE  PrintsField'
<1> DEFINE s == HexText(v)
           f == alt_printf(Format("x", FALSE, 0), <<v>>)
<1>1. v \in 0 .. Word - 1
  BY PrintingAssumption
<1>2. Numeral(s, v, 16)
  BY <1>1, HexTextNumeral
<1>3. s \in Seq(Chars)
  BY <1>2 DEF Numeral
<1>4. f = <<"<">> \o s \o <<">">>
  BY <1>3, AltFormat
<1>5. job' = Job("alt_printf", "x", FALSE, 0, v) /\ printed' = Written(f, semihosting)
  BY Zenon DEF PrintsHex, Prints, Job
<1>. HIDE DEF s, f
<1>6. f \in Seq(Chars)
  <2>1. <<"<">> \in Seq(Chars) /\ <<">">> \in Seq(Chars)
    <3>1. "<" \in Chars /\ ">" \in Chars
      BY CharsAre
    <3>. QED
      BY <3>1
  <2>2. <<"<">> \o s \in Seq(Chars)
    BY <1>3, <2>1, TheEnd
  <2>. QED
    BY <1>4, <2>1, <2>2, TheEnd
<1>7. printed' = f
  BY <1>5, <1>6, WrittenIs
<1>8. Field' = s
  BY <1>3, <1>4, <1>7, InBrackets
<1>9. Fitted(s, s, <<>>, FALSE, 0)
  BY <1>2, WithoutPadding DEF Numeral
<1>10. Shows(s, v, 16, FALSE, FALSE, 0)
  <2>1. SizeOf(v, FALSE) = v /\ SignOf(v, FALSE) = <<>>
    BY DEF SizeOf, SignOf
  <2>2. Numeral(s, SizeOf(v, FALSE), 16) /\ Fitted(s, s, SignOf(v, FALSE), FALSE, 0)
    BY <1>2, <1>9, <2>1
  <2>. QED
    BY <2>2, FittedShows, Zenon
<1>11. "x" \in Conversions /\ BaseOf("x") = 16 /\ ("x" \in {"d", "i"}) = FALSE
  BY DEF Conversions, BaseOf
<1>12. Shows(s, v, BaseOf("x"), "x" \in {"d", "i"}, FALSE, 0)
  BY <1>10, <1>11, Zenon
<1>13. \A c \in Conversions, zero \in BOOLEAN :
          job' = Job("alt_printf", c, zero, 0, v)
            /\ Shows(s, v, BaseOf(c), c \in {"d", "i"}, zero, 0) => PrintsField'
  BY <1>8, NumberField, Zenon
<1>14. FALSE \in BOOLEAN
  OBVIOUS
<1>. QED
  BY <1>5, <1>11, <1>12, <1>13, <1>14, Zenon

LEMMA PrintsNumberShows ==
  ASSUME NEW c \in Conversions, NEW zero \in BOOLEAN, NEW width \in Widths, NEW v \in Values,
         PrintsNumber(c, zero, width, v)
  PROVE  PrintsField'
<1> DEFINE s == NumberText(c, zero, Asked(width), v)
           f == alt_log_printf_proc(Format(c, zero, width), <<v>>)
<1>1. v \in 0 .. Word - 1 /\ width \in 0 .. 9
  BY PrintingAssumption
<1>2. s \in Seq(Chars) /\ Shows(s, v, BaseOf(c), c \in {"d", "i"}, zero, width)
  BY <1>1, NumberShows, Zenon
<1>3. s = LogField(c, zero, width, v)
  BY Zenon DEF LogField, Conversions
<1>. HIDE DEF s
<1>4. f = <<"<">> \o s \o <<">">>
  <2>1. c \in Conversions \union {"s"}
    OBVIOUS
  <2>2. Logged(s, c, zero, width, v)
    BY <1>1, <1>2, <1>3, <2>1, Zenon DEF Logged
  <2>3. FieldLogs(s, c, zero, width, v)
    BY <2>2, LoggedText, Zenon
  <2>. QED
    BY <2>3, Zenon DEF FieldLogs
<1>5. job' = Job("log", c, zero, width, v) /\ printed' = f
  BY Zenon DEF PrintsNumber, Prints, Job
<1>. HIDE DEF f
<1>6. Field' = s
  BY <1>2, <1>4, <1>5, InBrackets
<1>. QED
  BY <1>2, <1>5, <1>6, NumberField, Zenon

LEMMA PrintsTextShows ==
  ASSUME NEW width \in Widths, NEW s \in Seq(Chars), PrintsText(width, s)
  PROVE  PrintsField'
<1>0. width \in 0 .. 9 /\ 0 \in 0 .. 9
  BY PrintingAssumption
<1>1. CASE Prints("alt_printf", "s", FALSE, 0, s, alt_printf(Format("s", FALSE, 0), <<s>>))
  <2>1. alt_printf(Format("s", FALSE, 0), <<s>>) = <<"<">> \o s \o <<">">>
    BY AltFormat
  <2>2. job' = Job("alt_printf", "s", FALSE, 0, s)
        /\ printed' = alt_printf(Format("s", FALSE, 0), <<s>>)
    BY <1>1, Zenon DEF Prints, Job
  <2>3. Field' = s
    BY <2>1, <2>2, InBrackets
  <2>4. s = PaddedText(0, s)
    BY <1>0, PaddedIs
  <2>. QED
    BY <2>2, <2>3, <2>4, TextField, Zenon
<1>2. CASE Prints("log", "s", FALSE, width, s,
                  alt_log_printf_proc(Format("s", FALSE, width), <<s>>))
  <2> DEFINE t == PaddedText(Asked(width), s)
  <2>1. t \in Seq(Chars) /\ t = PaddedText(width, s)
    BY <1>0, PaddedIs
  <2>2. t = LogField("s", FALSE, width, s)
    BY Zenon DEF LogField
  <2>. HIDE DEF t
  <2>3. alt_log_printf_proc(Format("s", FALSE, width), <<s>>) = <<"<">> \o t \o <<">">>
    <3>. DEFINE c == "s"
                zero == FALSE
    <3>1. c \in Conversions \union {"s"} /\ zero \in BOOLEAN
      OBVIOUS
    <3>2. t = LogField(c, zero, width, s) /\ width \in 0 .. 9 /\ t \in Seq(Chars)
      BY <1>0, <2>1, <2>2
    <3>. HIDE DEF c, zero
    <3>a. Logged(t, c, zero, width, s)
      BY <3>1, <3>2, Zenon DEF Logged
    <3>3. alt_log_printf_proc(Format(c, zero, width), <<s>>) = <<"<">> \o t \o <<">">>
      BY <3>a, LoggedText DEF FieldLogs
    <3>. QED
      BY <3>3, Zenon DEF c, zero
  <2>4. job' = Job("log", "s", FALSE, width, s)
        /\ printed' = alt_log_printf_proc(Format("s", FALSE, width), <<s>>)
    BY <1>2, Zenon DEF Prints, Job
  <2>5. Field' = t
    BY <2>1, <2>3, <2>4, InBrackets
  <2>6. Field' = PaddedText(width, s)
    BY <2>1, <2>5
  <2>. QED
    BY <2>4, <2>6, TextField, Zenon
<1>. QED
  BY <1>1, <1>2 DEF PrintsText

\* Without a width and without a sign, a conversion prints the digits.
LEMMA Unpadded ==
  ASSUME NEW v \in 0 .. Word - 1, NEW base \in Bases, NEW letters \in Alphabets,
         NEW signed \in BOOLEAN
  PROVE  /\ Numeral(DigitsOf(SizeOf(v, signed), base, letters), SizeOf(v, signed), base)
         /\ IntegerText(v, NoWidth, NoZeros, base, signed, letters)
              = SignOf(v, signed) \o DigitsOf(SizeOf(v, signed), base, letters)
<1> DEFINE e == DigitsOf(SizeOf(v, signed), base, letters)
           sign == SignOf(v, signed)
<1>1. SizeOf(v, signed) \in 0 .. Word - 1 /\ sign \in Seq(Chars)
  BY SizeFits
<1>2. Numeral(e, SizeOf(v, signed), base)
  BY <1>1, DigitsOfNumeral
<1>3. IntegerText(v, NoWidth, NoZeros, base, signed, letters) = Fitting(e, sign, NoZeros, NoWidth)
  BY Zenon DEF IntegerText, Fitting, SignOf, SizeOf
<1>. HIDE DEF e, sign
<1>4. Len(e) \in Nat /\ Len(sign) \in Nat
  BY <1>1, <1>2, LenIsNat DEF Numeral
<1>5. NoWidth - Len(e) - Len(sign) \in Int /\ NoWidth - Len(e) - Len(sign) < 1
  BY <1>4, Negative
<1>6. Repeat(" ", NoWidth - Len(e) - Len(sign)) = <<>>
  BY <1>5, NoRepeats
<1>7. Fitting(e, sign, NoZeros, NoWidth)
        = Repeat(" ", NoWidth - Len(e) - Len(sign)) \o sign \o e
  BY Zenon DEF Fitting, NoZeros
<1>8. <<>> \o sign = sign
  BY <1>1
<1>. QED
  BY <1>2, <1>3, <1>6, <1>7, <1>8 DEF e, sign

LEMMA HexDigits ==
  ASSUME NEW v \in 0 .. Word - 1
  PROVE  Numeral(NumberText("x", NoZeros, NoWidth, v), v, 16)
<1>1. SizeOf(v, FALSE) = v /\ SignOf(v, FALSE) = <<>>
  BY DEF SizeOf, SignOf
<1>2. BaseOf("x") = 16 /\ LettersOf("x") = Digits /\ ("x" \in {"d", "i"}) = FALSE
  BY DEF BaseOf, LettersOf
<1>3. NumberText("x", NoZeros, NoWidth, v) = IntegerText(v, NoWidth, NoZeros, 16, FALSE, Digits)
  BY <1>2, Zenon DEF NumberText
<1>4. 16 \in Bases /\ Digits \in Alphabets /\ FALSE \in BOOLEAN
  BY DEF Bases, Alphabets
<1> DEFINE e == DigitsOf(v, 16, Digits)
<1>5. Numeral(e, v, 16)
      /\ IntegerText(v, NoWidth, NoZeros, 16, FALSE, Digits) = <<>> \o e
  BY <1>1, <1>4, Unpadded, Zenon
<1>6. e \in Seq(Chars)
  BY <1>5 DEF Numeral
<1>. HIDE DEF e
<1>7. <<>> \o e = e
  BY <1>6
<1>. QED
  BY <1>3, <1>5, <1>7

LEMMA PrintsTwoShows ==
  ASSUME NEW v \in Values, NEW s \in Seq(Chars), PrintsTwo(v, s)
  PROVE  PrintsField'
<1>0. v \in 0 .. Word - 1
  BY PrintingAssumption
<1>1. CASE Prints("alt_printf", "two", FALSE, 0, <<v, s>>,
                  alt_printf(<<"%", "x", "%", "%", "%", "s">>, <<v, s>>))
  <2>1. Numeral(HexText(v), v, 16)
    BY <1>0, HexTextNumeral
  <2>2. HexText(v) \in Seq(Chars)
    BY <2>1 DEF Numeral
  <2>3. alt_printf(<<"%", "x", "%", "%", "%", "s">>, <<v, s>>) = HexText(v) \o (<<"%">> \o s)
    BY <2>2, AltTwo, Zenon
  <2>4. job' = Job("alt_printf", "two", FALSE, 0, <<v, s>>)
        /\ printed' = HexText(v) \o (<<"%">> \o s)
    BY <1>1, <2>3, Zenon DEF Prints, Job
  <2>. QED
    BY <2>1, <2>4, TwoFields, Zenon
<1>2. CASE Prints("log", "two", FALSE, 0, <<v, s>>,
                  alt_log_printf_proc(<<"%", "x", "%", "%", "%", "s">>, <<v, s>>))
  <2> DEFINE e == NumberText("x", NoZeros, NoWidth, v)
  <2>1. Numeral(e, v, 16) /\ e \in Seq(Chars)
    BY <1>0, HexDigits DEF Numeral
  <2>3. alt_log_printf_proc(<<"%", "x", "%", "%", "%", "s">>, <<v, s>>) = e \o (<<"%">> \o s)
    BY <2>1, LogTwo, Zenon
  <2>4. job' = Job("log", "two", FALSE, 0, <<v, s>>) /\ printed' = e \o (<<"%">> \o s)
    BY <1>2, <2>3, Zenon DEF Prints, Job
  <2>. QED
    BY <2>1, <2>4, TwoFields, Zenon
<1>. QED
  BY <1>1, <1>2 DEF PrintsTwo

-----------------------------------------------------------------------------
(* Printing: echoes, levels and heartbeats *)

Written3 == {"a", NUL, CtrlD}

\* What the echo of a write may show of it.
EchoShows(s, text) ==
  /\ Len(s) <= EchoLen + 1
  /\ \A i \in DOMAIN s :
       /\ s[i] \notin {CtrlD, NUL}
       /\ s[i] \in {"\n", "\r"} \/ s[i] = text[i] \/ (s[i] = "D" /\ text[i] = CtrlD)

LEMMA EchoSigns ==
  /\ "\n" \notin {CtrlD, NUL} /\ "\r" \notin {CtrlD, NUL} /\ "D" \notin {CtrlD, NUL}
  /\ "D" # CtrlD /\ NUL # CtrlD
BY DEF CtrlD, NUL

LEMMA TextIs ==
  ASSUME NEW text \in Texts
  PROVE  text \in Seq(Written3) /\ Len(text) \in Nat
<1>1. PICK n \in 0 .. EchoLen + 1 : text \in [1 .. n -> Written3]
  BY DEF Texts, Written3
<1>2. n \in Nat
  BY <1>1, PrintingAssumption
<1>. QED
  BY <1>1, <1>2

LEMMA UpToIs ==
  ASSUME NEW S, NEW s \in Seq(S), NEW n \in 0 .. Len(s)
  PROVE  UpTo(n, s) \in Seq(S) /\ Len(UpTo(n, s)) = n /\ \A i \in 1 .. n : UpTo(n, s)[i] = s[i]
BY DEF UpTo

\* A text whose characters are those of another one, or the end of a line.
Follows(said, text) ==
  \A i \in DOMAIN said : /\ said[i] # NUL
                         /\ said[i] \in {"\n", "\r"} \/ said[i] = text[i]

LEMMA LineShows ==
  ASSUME NEW said, NEW text, NEW s, Len(said) <= EchoLen + 1, Follows(said, text),
         NEW n \in Nat, DOMAIN said = 1 .. n, Len(said) = n,
         s = [i \in DOMAIN said |-> IF said[i] = CtrlD THEN "D" ELSE said[i]]
  PROVE  EchoShows(s, text)
<1>1. DOMAIN s = DOMAIN said /\ Len(s) = n
  OBVIOUS
<1>2. ASSUME NEW i \in DOMAIN said
      PROVE  /\ s[i] \notin {CtrlD, NUL}
             /\ s[i] \in {"\n", "\r"} \/ s[i] = text[i] \/ (s[i] = "D" /\ text[i] = CtrlD)
  <2>1. s[i] = IF said[i] = CtrlD THEN "D" ELSE said[i]
    BY <1>2
  <2>2. said[i] # NUL /\ (said[i] \in {"\n", "\r"} \/ said[i] = text[i])
    BY <1>2 DEF Follows
  <2>3. CASE said[i] = CtrlD
    <3>1. s[i] = "D"
      BY <2>1, <2>3
    <3>2. text[i] = CtrlD
      BY <2>2, <2>3, EchoSigns
    <3>. QED
      BY <3>1, <3>2, EchoSigns
  <2>4. CASE said[i] # CtrlD
    BY <2>1, <2>2, <2>4
  <2>. QED
    BY <2>3, <2>4
<1>. QED
  BY <1>1, <1>2 DEF EchoShows

LEMMA EchoTextShows ==
  ASSUME NEW text \in Texts
  PROVE  EchoShows(EchoText(text), text)
<1> DEFINE length == IF EchoLen > Len(text) THEN Len(text) ELSE EchoLen
           shown == UpTo(length - 1, text)
           ended == {i \in DOMAIN shown : shown[i] = NUL}
           end == CHOOSE i \in ended : \A j \in ended : i <= j
           said == IF ended # {} THEN UpTo(end - 1, shown) ELSE shown \o <<"\n", "\r">>
<1>0. EchoLen \in Nat
  BY PrintingAssumption
<1>1. text \in Seq(Written3) /\ Len(text) \in Nat
  BY TextIs
<1>2. EchoText(text) = IF length < 2 THEN <<>>
                       ELSE [i \in DOMAIN said |-> IF said[i] = CtrlD THEN "D" ELSE said[i]]
  BY Zenon DEF EchoText
<1>3. length \in Nat /\ length <= EchoLen /\ length <= Len(text)
  BY <1>0, <1>1
<1>. HIDE DEF length
<1>4. CASE length < 2
  <2>1. EchoText(text) = <<>>
    BY <1>2, <1>4
  <2>2. Len(<<>>) = 0 /\ DOMAIN <<>> = {} /\ 0 <= EchoLen + 1
    BY <1>0
  <2>. QED
    BY <2>1, <2>2 DEF EchoShows
<1>5. CASE length >= 2
  <2> DEFINE n == length - 1
  <2>0. n \in Nat /\ n \in 0 .. Len(text) /\ n + 2 <= EchoLen + 1 /\ shown = UpTo(n, text)
    BY <1>0, <1>1, <1>3, <1>5
  <2>. HIDE DEF n
  <2>1. shown \in Seq(Written3) /\ Len(shown) = n /\ \A i \in 1 .. n : shown[i] = text[i]
    BY <1>1, <2>0, UpToIs
  <2>. HIDE DEF shown
  <2>2. DOMAIN shown = 1 .. n
    BY <2>1
  <2>s. EchoText(text) = [i \in DOMAIN said |-> IF said[i] = CtrlD THEN "D" ELSE said[i]]
    <3>1. ~(length < 2)
      BY <1>3, <1>5
    <3>. QED
      BY <1>2, <3>1, Zenon
  <2>3. CASE ended # {}
    <3>1. ended \in SUBSET Nat /\ \A i \in ended : i \in 1 .. n /\ shown[i] = NUL
      BY <2>2
    <3>1a. \A i \in 1 .. n : i \in ended \/ shown[i] # NUL
      BY <2>2
    <3>2. said = UpTo(end - 1, shown)
      BY <2>3
    <3>. HIDE DEF ended
    <3>3. Min(ended) \in ended /\ \A j \in ended : Min(ended) <= j
      BY <2>3, <3>1, Smallest
    <3>4. end \in ended /\ \A j \in ended : end <= j
      BY <3>3
    <3>. HIDE DEF end
    <3> DEFINE m == end - 1
    <3>5. m \in Nat /\ m \in 0 .. Len(shown) /\ m <= EchoLen + 1
          /\ \A i \in 1 .. m : i \in 1 .. n /\ i \notin ended
      BY <1>0, <2>0, <2>1, <3>1, <3>4
    <3>. HIDE DEF m
    <3>. HIDE DEF said
    <3>m. said = UpTo(m, shown)
      BY <3>2, Zenon DEF m
    <3>6. said \in Seq(Written3) /\ Len(said) = m /\ \A i \in 1 .. m : said[i] = shown[i]
      BY <2>1, <3>m, <3>5, UpToIs
    <3>7. DOMAIN said = 1 .. m
      BY <3>6
    <3>8. Follows(said, text)
      BY <2>1, <3>1a, <3>5, <3>6, <3>7 DEF Follows
    <3>9. Len(said) <= EchoLen + 1
      BY <3>5, <3>6
    <3>. QED
      BY <2>s, <3>5, <3>6, <3>7, <3>8, <3>9, LineShows
  <2>4. CASE ended = {}
    <3>1. \A i \in 1 .. n : shown[i] # NUL
      BY <2>2, <2>4
    <3>2. said = shown \o <<"\n", "\r">>
      BY <2>4
    <3> DEFINE S == Written3 \union {"\n", "\r"}
               t == <<"\n", "\r">>
    <3>3. shown \in Seq(S) /\ t \in Seq(S) /\ Len(t) = 2 /\ t[1] = "\n" /\ t[2] = "\r"
      BY <2>1
    <3>t. said = shown \o t
      BY <3>2
    <3>. HIDE DEF t, S, said
    <3>4. Join(said, shown, t, S, Len(shown), Len(t))
      BY <3>3, <3>t, Joined
    <3>5. /\ said \in Seq(S) /\ Len(said) = n + 2
          /\ \A i \in 1 .. n : said[i] = shown[i]
          /\ said[n + 1] = "\n" /\ said[n + 2] = "\r"
      <4>1. 1 \in 1 .. 2 /\ 2 \in 1 .. 2
        OBVIOUS
      <4>. QED
        BY <2>1, <3>3, <3>4, <4>1 DEF Join
    <3>6. n + 2 \in Nat /\ \A i \in 1 .. n + 2 : i \in 1 .. n \/ i = n + 1 \/ i = n + 2
      BY <2>0
    <3>7. DOMAIN said = 1 .. n + 2
      BY <3>5, <3>6
    <3>8. ASSUME NEW i \in 1 .. n + 2
          PROVE  said[i] # NUL /\ (said[i] \in {"\n", "\r"} \/ said[i] = text[i])
      BY <2>1, <3>1, <3>5, <3>6, EchoSigns
    <3>9. Follows(said, text)
      BY <3>7, <3>8 DEF Follows
    <3>10. Len(said) <= EchoLen + 1
      BY <2>0, <3>5
    <3>. QED
      BY <2>s, <3>5, <3>6, <3>7, <3>9, <3>10, LineShows
  <2>. QED
    BY <2>3, <2>4
<1>. QED
  BY <1>3, <1>4, <1>5

-----------------------------------------------------------------------------
(* Printing: labels *)

Marks == Labels \union Headers

LEMMA LabelsAre ==
  /\ \A l \in Marks : l \notin Letters16 /\ l # "-" /\ l # "%"
  /\ \A l \in Labels, h \in Headers : h # l
<1>1. \A l \in Marks : l # "-" /\ l # "%"
  BY DEF Marks, Labels, Headers
<1>2. \A l \in Labels, h \in Headers : h # l
  BY DEF Labels, Headers
<1>3. DOMAIN Digits = 1 .. 16 /\ DOMAIN Uppers = 1 .. 16
  BY DEF Digits, Uppers
<1>4. \A i \in 1 .. 16 : i = 1 \/ i = 2 \/ i = 3 \/ i = 4 \/ i = 5 \/ i = 6 \/ i = 7 \/ i = 8
        \/ i = 9 \/ i = 10 \/ i = 11 \/ i = 12 \/ i = 13 \/ i = 14 \/ i = 15 \/ i = 16
  OBVIOUS
<1>. DEFINE D == {"0", "1", "2", "3", "4", "5", "6", "7", "8", "9", "a", "b", "c", "d", "e", "f"}
           U == {"A", "B", "C", "D", "E", "F"}
<1>5. \A i \in 1 .. 16 : Digits[i] \in D
  BY <1>4, SMTT(30) DEF Digits
<1>6. \A i \in 1 .. 16 : Uppers[i] \in D \union U
  BY <1>4, SMTT(30) DEF Uppers
<1>6a. \A l \in Marks : l \notin D
  BY DEF Marks, Labels, Headers
<1>6b. \A l \in Marks : l \notin U
  BY DEF Marks, Labels, Headers
<1>. HIDE DEF D, U
<1>7. \A l \in Marks : l \notin Letters16
  BY <1>3, <1>5, <1>6, <1>6a, <1>6b DEF Letters16, Range
<1>. QED
  BY <1>1, <1>2, <1>7

\* A label is in a text once, at i, or not at all; one that is there once has text t
\* behind it up to the next label, or up to the end.
Once(s, l, i) ==
  i \in 1 .. Len(s) /\ s[i] = l /\ \A j \in 1 .. Len(s) : s[j] = l => j = i

Absent(s, l) == \A j \in 1 .. Len(s) : s[j] # l

Behind(s, i, t) == \A x \in 1 .. Len(t) : s[i + x] = t[x]

Cut(s, l, m, t) ==
  \E i \in 1 .. Len(s) :
    /\ Once(s, l, i) /\ Once(s, m, i + Len(t) + 1) /\ Behind(s, i, t)

Ends(s, l, t) ==
  \E i \in 1 .. Len(s) : Once(s, l, i) /\ Len(s) = i + Len(t) /\ Behind(s, i, t)

\* f is s and then e.
Longer2(f, s, e) == Join(f, s, e, Chars, Len(s), Len(e))

LEMMA OnceLonger ==
  ASSUME NEW f, NEW s \in Seq(Chars), NEW e, Longer2(f, s, e), NEW l, NEW i \in Nat,
         Once(s, l, i), Absent(e, l)
  PROVE  Once(f, l, i)
<1>1. /\ Len(f) = Len(s) + Len(e) /\ Len(s) \in Nat /\ Len(e) \in Nat
      /\ \A j \in 1 .. Len(s) : f[j] = s[j]
      /\ \A j \in 1 .. Len(e) : f[Len(s) + j] = e[j]
  BY DEF Longer2, Join
<1>2. i \in 1 .. Len(s) /\ s[i] = l
  BY DEF Once
<1>3. ASSUME NEW j \in 1 .. Len(f), f[j] = l PROVE j = i
  <2>1. CASE j <= Len(s)
    <3>1. j \in 1 .. Len(s)
      BY <1>1, <2>1
    <3>. QED
      BY <1>1, <1>3, <3>1 DEF Once
  <2>2. CASE j > Len(s)
    <3>1. j - Len(s) \in 1 .. Len(e) /\ Len(s) + (j - Len(s)) = j
      BY <1>1, <2>2
    <3>2. f[j] = e[j - Len(s)]
      BY <1>1, <3>1
    <3>. QED
      BY <1>3, <3>1, <3>2 DEF Absent
  <2>. QED
    BY <1>1, <2>1, <2>2
<1>4. i \in 1 .. Len(f) /\ f[i] = l
  BY <1>1, <1>2
<1>. QED
  BY <1>3, <1>4 DEF Once

LEMMA AbsentLonger ==
  ASSUME NEW f, NEW s \in Seq(Chars), NEW e, Longer2(f, s, e), NEW l,
         Absent(s, l), Absent(e, l)
  PROVE  Absent(f, l)
<1>1. /\ Len(f) = Len(s) + Len(e) /\ Len(s) \in Nat /\ Len(e) \in Nat
      /\ \A j \in 1 .. Len(s) : f[j] = s[j]
      /\ \A j \in 1 .. Len(e) : f[Len(s) + j] = e[j]
  BY DEF Longer2, Join
<1>2. ASSUME NEW j \in 1 .. Len(f) PROVE f[j] # l
  <2>1. CASE j <= Len(s)
    <3>1. j \in 1 .. Len(s)
      BY <1>1, <2>1
    <3>. QED
      BY <1>1, <3>1 DEF Absent
  <2>2. CASE j > Len(s)
    <3>1. j - Len(s) \in 1 .. Len(e) /\ Len(s) + (j - Len(s)) = j
      BY <1>1, <2>2
    <3>2. f[j] = e[j - Len(s)]
      BY <1>1, <3>1
    <3>. QED
      BY <3>1, <3>2 DEF Absent
  <2>. QED
    BY <1>1, <2>1, <2>2
<1>. QED
  BY <1>2 DEF Absent

LEMMA CutLonger ==
  ASSUME NEW f, NEW s \in Seq(Chars), NEW e, Longer2(f, s, e), NEW l, NEW m, NEW t \in Seq(Chars),
         Cut(s, l, m, t), Absent(e, l), Absent(e, m)
  PROVE  Cut(f, l, m, t)
<1>1. PICK i \in 1 .. Len(s) : Once(s, l, i) /\ Once(s, m, i + Len(t) + 1) /\ Behind(s, i, t)
  BY DEF Cut
<1>2. Len(s) \in Nat /\ Len(e) \in Nat /\ Len(f) = Len(s) + Len(e)
      /\ \A j \in 1 .. Len(s) : f[j] = s[j]
  BY DEF Longer2, Join
<1>3. i \in Nat /\ Len(t) \in Nat /\ i + Len(t) + 1 \in Nat
  BY <1>2, LenIsNat
<1>4. Once(f, l, i) /\ Once(f, m, i + Len(t) + 1)
  BY <1>1, <1>3, OnceLonger
<1>5. i + Len(t) + 1 \in 1 .. Len(s)
  BY <1>1 DEF Once
<1>6. ASSUME NEW x \in 1 .. Len(t) PROVE f[i + x] = t[x]
  <2>1. i + x \in 1 .. Len(s)
    BY <1>2, <1>3, <1>5
  <2>2. s[i + x] = t[x]
    BY <1>1 DEF Behind
  <2>. QED
    BY <1>2, <2>1, <2>2
<1>7. i \in 1 .. Len(f)
  BY <1>2, <1>3
<1>. QED
  BY <1>4, <1>6, <1>7 DEF Cut, Behind

\* A label that was not there closes the text behind the one before, and opens its own.
LEMMA NextLabel ==
  ASSUME NEW s \in Seq(Chars), NEW l, NEW t \in Seq(Chars), NEW m \in Chars,
         Ends(s, l, t), Absent(s, m)
  PROVE  /\ Cut(Append(s, m), l, m, t)
         /\ Ends(Append(s, m), m, <<>>)
<1> DEFINE f == Append(s, m)
           n == Len(s)
<1>1. f \in Seq(Chars) /\ Len(f) = n + 1 /\ f[n + 1] = m /\ \A j \in 1 .. n : f[j] = s[j]
  OBVIOUS
<1>2. n \in Nat /\ Len(t) \in Nat
  BY LenIsNat
<1>3. PICK i \in 1 .. n : Once(s, l, i) /\ n = i + Len(t) /\ Behind(s, i, t)
  BY DEF Ends
<1>4. s[i] = l /\ s[i] # m /\ \A j \in 1 .. n : s[j] = l => j = i
  BY <1>3 DEF Once, Absent
<1>5. \A j \in 1 .. n : s[j] # m
  BY DEF Absent
<1>6. \A x \in 1 .. Len(t) : s[i + x] = t[x]
  BY <1>3 DEF Behind
<1>. HIDE DEF f, n
<1>7. \A j \in 1 .. n + 1 : j \in 1 .. n \/ j = n + 1
  BY <1>2
<1>8. n + 1 \in 1 .. n + 1 /\ i \in 1 .. n + 1 /\ n + 1 = i + Len(t) + 1
      /\ \A x \in 1 .. Len(t) : i + x \in 1 .. n
  BY <1>2, <1>3
<1>9. Once(f, m, n + 1)
  BY <1>1, <1>5, <1>7, <1>8 DEF Once
<1>10. Once(f, l, i)
  BY <1>1, <1>3, <1>4, <1>7, <1>8 DEF Once
<1>11. Behind(f, i, t)
  BY <1>1, <1>6, <1>8 DEF Behind
<1>12. Cut(f, l, m, t)
  BY <1>1, <1>8, <1>9, <1>10, <1>11 DEF Cut
<1>13. Ends(f, m, <<>>)
  <2> DEFINE e == <<>>
  <2>1. Len(e) = 0
    OBVIOUS
  <2>. HIDE DEF e
  <2>2. n + 1 = (n + 1) + Len(e) /\ \A x \in 1 .. Len(e) : FALSE
    BY <1>2, <2>1
  <2>3. Ends(f, m, e)
    BY <1>1, <1>8, <1>9, <2>2 DEF Ends, Behind
  <2>. QED
    BY <2>3 DEF e
<1>. QED
  BY <1>12, <1>13 DEF f

LEMMA OpenLonger ==
  ASSUME NEW f, NEW s \in Seq(Chars), NEW e \in Seq(Chars), Longer2(f, s, e), NEW l,
         Ends(s, l, <<>>), Absent(e, l)
  PROVE  Ends(f, l, e)
<1> DEFINE none == <<>>
<1>0. Len(none) = 0 /\ Ends(s, l, none)
  OBVIOUS
<1>. HIDE DEF none
<1>1. PICK i \in 1 .. Len(s) : Once(s, l, i) /\ Len(s) = i + Len(none)
  BY <1>0 DEF Ends
<1>2. /\ Len(f) = Len(s) + Len(e) /\ Len(s) \in Nat /\ Len(e) \in Nat
      /\ \A j \in 1 .. Len(e) : f[Len(s) + j] = e[j]
  BY DEF Longer2, Join
<1>3. i \in Nat /\ Len(s) = i /\ i \in 1 .. Len(f) /\ Len(f) = i + Len(e)
  BY <1>0, <1>1, <1>2
<1>4. Once(f, l, i)
  BY <1>1, <1>3, OnceLonger
<1>5. Behind(f, i, e)
  BY <1>2, <1>3 DEF Behind
<1>. QED
  BY <1>3, <1>4, <1>5 DEF Ends

LEMMA OnceCut ==
  ASSUME NEW s \in Seq(Chars), NEW l, NEW m, NEW t, NEW x, Absent(s, x),
         Cut(s, l, m, t) \/ (Ends(s, l, t) /\ m = l)
  PROVE  l # x /\ m # x
BY DEF Cut, Ends, Once, Absent

-----------------------------------------------------------------------------
(* Printing: what stands behind a label *)

DecText(v) == NumberText("d", NoZeros, NoWidth, v)

\* A word as a number with a sign, and how a text with a sign reads.
SignedOf(v) == IF v >= Word \div 2 THEN v - Word ELSE v
ReadSigned(t) == IF Head(t) = "-" THEN -ReadBack(Tail(t), 10) ELSE ReadBack(t, 10)

LEMMA Prefixed ==
  ASSUME NEW S, NEW c \in S, NEW e \in Seq(S)
  PROVE  /\ <<c>> \o e \in Seq(S) /\ Len(<<c>> \o e) = Len(e) + 1
         /\ Head(<<c>> \o e) = c /\ Tail(<<c>> \o e) = e
         /\ \A i \in 1 .. Len(e) + 1 : (<<c>> \o e)[i] = IF i = 1 THEN c ELSE e[i - 1]
OBVIOUS

LEMMA HeadIs ==
  ASSUME NEW S, NEW e \in Seq(S), Len(e) \in Nat \ {0}
  PROVE  Head(e) = e[1] /\ 1 \in 1 .. Len(e)
OBVIOUS

LEMMA DecTextIs ==
  ASSUME NEW v \in 0 .. Word - 1
  PROVE  /\ DecText(v) \in Seq(Chars) /\ ReadSigned(DecText(v)) = SignedOf(v)
         /\ \A l \in Marks : Absent(DecText(v), l)
<1> DEFINE e == DigitsOf(SizeOf(v, TRUE), 10, Digits)
           t == DecText(v)
<1>1. BaseOf("d") = 10 /\ LettersOf("d") = Digits /\ ("d" \in {"d", "i"}) = TRUE
  BY DEF BaseOf, LettersOf
<1>2. t = IntegerText(v, NoWidth, NoZeros, 10, TRUE, Digits)
  BY <1>1, Zenon DEF DecText, NumberText
<1>3. 10 \in Bases /\ Digits \in Alphabets /\ TRUE \in BOOLEAN
  BY DEF Bases, Alphabets
<1>4. Numeral(e, SizeOf(v, TRUE), 10)
      /\ IntegerText(v, NoWidth, NoZeros, 10, TRUE, Digits) = SignOf(v, TRUE) \o e
  BY <1>3, Unpadded, Zenon
<1>5. t = SignOf(v, TRUE) \o e
  BY <1>2, <1>4
<1>6. /\ e \in Seq(Chars) /\ Len(e) \in Nat \ {0} /\ ReadBack(e, 10) = SizeOf(v, TRUE)
      /\ \A i \in 1 .. Len(e) : e[i] \in Letters16 /\ e[i] # "-"
  BY <1>4 DEF Numeral, Reads
<1>. HIDE DEF e, t
<1>7. CASE v >= Word \div 2
  <2>1. SignOf(v, TRUE) = <<"-">> /\ SizeOf(v, TRUE) = Word - v /\ SignedOf(v) = v - Word
    BY <1>7 DEF SignOf, SizeOf, SignedOf
  <2>2. "-" \in Chars
    BY CharsAre
  <2>3. t = <<"-">> \o e
    BY <1>5, <2>1
  <2>4. /\ t \in Seq(Chars) /\ Len(t) = Len(e) + 1 /\ Head(t) = "-" /\ Tail(t) = e
        /\ \A i \in 1 .. Len(e) + 1 : t[i] = IF i = 1 THEN "-" ELSE e[i - 1]
    BY <1>6, <2>2, <2>3, Prefixed
  <2>5. ReadSigned(t) = -(Word - v)
    BY <1>6, <2>1, <2>4 DEF ReadSigned
  <2>6. -(Word - v) = v - Word
    BY WordIs
  <2>7. ASSUME NEW l \in Marks, NEW i \in 1 .. Len(t) PROVE t[i] # l
    <3>1. i = 1 \/ i - 1 \in 1 .. Len(e)
      BY <1>6, <2>4
    <3>2. t[i] = "-" \/ t[i] \in Letters16
      BY <1>6, <2>4, <3>1
    <3>. QED
      BY <3>2, LabelsAre
  <2>8. \A l \in Marks : Absent(t, l)
    BY <2>7 DEF Absent
  <2>. QED
    BY <2>1, <2>4, <2>5, <2>6, <2>8 DEF t
<1>8. CASE ~(v >= Word \div 2)
  <2>1. SignOf(v, TRUE) = <<>> /\ SizeOf(v, TRUE) = v /\ SignedOf(v) = v
    BY <1>8 DEF SignOf, SizeOf, SignedOf
  <2>2. <<>> \o e = e
    BY <1>6
  <2>3. t = e
    BY <1>5, <2>1, <2>2
  <2>4. Head(e) = e[1] /\ 1 \in 1 .. Len(e)
    BY <1>6, HeadIs
  <2>5. Head(e) # "-"
    BY <1>6, <2>4
  <2>6. ReadSigned(t) = v
    BY <1>6, <2>1, <2>3, <2>5 DEF ReadSigned
  <2>7. \A l \in Marks : Absent(t, l)
    BY <1>6, <2>3, LabelsAre DEF Absent
  <2>. QED
    BY <1>6, <2>1, <2>3, <2>6, <2>7 DEF t
<1>. QED
  BY <1>7, <1>8

LEMMA BehindIs ==
  ASSUME NEW S, NEW s \in Seq(S), NEW t \in Seq(S), NEW i \in Nat, i + Len(t) <= Len(s),
         \A x \in 1 .. Len(t) : s[i + x] = t[x]
  PROVE  SubSeq(s, i + 1, i + Len(t)) = t
<1> DEFINE n == Len(t)
           u == SubSeq(s, i + 1, i + n)
<1>1. n \in Nat /\ Len(s) \in Nat
  OBVIOUS
<1>2. u \in Seq(S) /\ Len(u) = n /\ \A x \in 1 .. n : u[x] = s[i + x]
  BY <1>1
<1>. HIDE DEF u
<1>3. \A x \in 1 .. n : u[x] = t[x]
  BY <1>2
<1>4. u = t
  BY <1>1, <1>2, <1>3
<1>. QED
  BY <1>4 DEF u

LEMMA ReportedIs ==
  ASSUME NEW l, NEW m, NEW t \in Seq(Chars), printed' \in Seq(Chars), Cut(printed', l, m, t)
  PROVE  Reported(l, m)' = ReadSigned(t)
<1> DEFINE p == printed'
           place(x) == CHOOSE i \in DOMAIN p : p[i] = x
           n == Len(t)
<1>1. PICK i \in 1 .. Len(p) : Once(p, l, i) /\ Once(p, m, i + n + 1) /\ Behind(p, i, t)
  BY DEF Cut
<1>2. n \in Nat /\ Len(p) \in Nat /\ DOMAIN p = 1 .. Len(p)
  BY LenIsNat
<1>3. ASSUME NEW x, NEW k, Once(p, x, k) PROVE place(x) = k
  BY <1>2, <1>3 DEF Once
<1>4. place(l) = i /\ place(m) = i + n + 1
  BY <1>1, <1>3
<1>5. Reported(l, m)' = ReadSigned(SubSeq(p, place(l) + 1, place(m) - 1))
  BY Zenon DEF Reported, ReadSigned
<1>. HIDE DEF place
<1>6. i + n + 1 \in 1 .. Len(p)
  BY <1>1 DEF Once
<1>7. i \in Nat /\ (i + n + 1) - 1 = i + n /\ i + n <= Len(p)
  BY <1>2, <1>6
<1>8. \A x \in 1 .. n : p[i + x] = t[x]
  BY <1>1 DEF Behind
<1>9. SubSeq(p, i + 1, i + n) = t
  BY <1>7, <1>8, BehindIs
<1>. QED
  BY <1>4, <1>5, <1>7, <1>9

-----------------------------------------------------------------------------
(* Printing: reports *)

\* A label and the number behind it, and the end of a report.
Labelled(o, l, v) == Append(o, l) \o DecText(v)

\* A report so far: the labels that are followed by another one, with the texts
\* behind them, the last one, and those to come.
Reporting(s, done, l, t, rest) ==
  /\ s \in Seq(Chars) /\ t \in Seq(Chars) /\ l \in Marks /\ rest \subseteq Labels
  /\ \A d \in done : d[1] \in Marks /\ d[2] \in Labels /\ d[3] \in Seq(Chars)
                     /\ Cut(s, d[1], d[2], d[3])
  /\ Ends(s, l, t)
  /\ \A x \in rest : Absent(s, x)

LEMMA ReportBegins ==
  ASSUME NEW h \in Headers
  PROVE  Reporting(<<h>>, {}, h, <<>>, Labels)
<1> DEFINE s == <<h>>
           none == <<>>
<1>0. h \in Marks /\ h \in Chars
  BY DEF Marks, Chars
<1>1. /\ s \in Seq(Chars) /\ Len(s) = 1 /\ s[1] = h /\ none \in Seq(Chars) /\ Len(none) = 0
      /\ \A j \in 1 .. 1 : j = 1
  BY <1>0
<1>. HIDE DEF s, none
<1>2. \A l \in Labels : Absent(s, l)
  BY <1>1, LabelsAre DEF Absent
<1>3. 1 \in 1 .. 1 /\ 1 = 1 + 0 /\ \A x \in 1 .. 0 : FALSE
  OBVIOUS
<1>4. Once(s, h, 1) /\ Behind(s, 1, none)
  BY <1>1, <1>3 DEF Once, Behind
<1>5. Ends(s, h, none)
  BY <1>1, <1>3, <1>4 DEF Ends
<1>6. Reporting(s, {}, h, none, Labels)
  BY <1>0, <1>1, <1>2, <1>5 DEF Reporting
<1>. QED
  BY <1>6 DEF s, none

LEMMA ReportGoesOn ==
  ASSUME NEW s, NEW done, NEW l, NEW t, NEW rest, Reporting(s, done, l, t, rest),
         NEW m \in rest, NEW e \in Seq(Chars), \A x \in Marks : Absent(e, x)
  PROVE  Reporting(Append(s, m) \o e, done \union {<<l, m, t>>}, m, e, rest \ {m})
<1> DEFINE a == Append(s, m)
           f == a \o e
           one == <<m>>
<1>0. /\ s \in Seq(Chars) /\ t \in Seq(Chars) /\ l \in Marks /\ rest \subseteq Labels
      /\ Ends(s, l, t) /\ Absent(s, m)
      /\ \A x \in rest : Absent(s, x)
      /\ \A d \in done : d[1] \in Marks /\ d[2] \in Labels /\ d[3] \in Seq(Chars)
                         /\ Cut(s, d[1], d[2], d[3])
  BY DEF Reporting
<1>1. m \in Labels /\ m \in Marks /\ m \in Chars
  BY <1>0, CharsAre DEF Marks
<1>2. Cut(a, l, m, t) /\ Ends(a, m, <<>>)
  BY <1>0, <1>1, NextLabel
<1>3. a \in Seq(Chars) /\ a = s \o one /\ one \in Seq(Chars)
  BY <1>0, <1>1
<1>4. \A x : x # m => Absent(one, x)
  BY DEF Absent
<1>f. f = a \o e
  OBVIOUS
<1>. HIDE DEF a, one, f
<1>5. Longer2(a, s, one) /\ Longer2(f, a, e)
  BY <1>0, <1>3, <1>f, Joined DEF Longer2
<1>6. f \in Seq(Chars)
  BY <1>5 DEF Longer2, Join
<1>7. \A x \in rest \ {m} : Absent(f, x)
  <2>1. ASSUME NEW x \in rest \ {m} PROVE Absent(f, x)
    <3>1. Absent(a, x)
      BY <1>0, <1>4, <1>5, AbsentLonger
    <3>2. Absent(e, x)
      BY <1>0 DEF Marks
    <3>. QED
      BY <1>3, <1>5, <3>1, <3>2, AbsentLonger
  <2>. QED
    BY <2>1
<1>8. Ends(f, m, e)
  BY <1>1, <1>2, <1>3, <1>5, OpenLonger
<1>9. Cut(f, l, m, t)
  BY <1>0, <1>1, <1>2, <1>3, <1>5, CutLonger
<1>10. \A d \in done : Cut(f, d[1], d[2], d[3])
  <2>1. ASSUME NEW d \in done PROVE Cut(f, d[1], d[2], d[3])
    <3>1. d[1] # m /\ d[2] # m
      BY <1>0, OnceCut
    <3>2. Cut(a, d[1], d[2], d[3])
      BY <1>0, <1>4, <1>5, <3>1, CutLonger
    <3>3. Absent(e, d[1]) /\ Absent(e, d[2]) /\ d[3] \in Seq(Chars)
      <4>1. d[1] \in Marks /\ d[2] \in Marks /\ d[3] \in Seq(Chars)
        BY <1>0 DEF Marks
      <4>. QED
        BY <4>1, Zenon
    <3>. QED
      BY <1>3, <1>5, <3>2, <3>3, CutLonger
  <2>. QED
    BY <2>1
<1>11. \A d \in done \union {<<l, m, t>>} :
         d[1] \in Marks /\ d[2] \in Labels /\ d[3] \in Seq(Chars) /\ Cut(f, d[1], d[2], d[3])
  <2>1. <<l, m, t>>[1] = l /\ <<l, m, t>>[2] = m /\ <<l, m, t>>[3] = t
    OBVIOUS
  <2>2. Cut(f, <<l, m, t>>[1], <<l, m, t>>[2], <<l, m, t>>[3])
    BY <1>9, <2>1
  <2>. QED
    BY <1>0, <1>1, <1>10, <2>1, <2>2
<1>12. rest \ {m} \subseteq Labels
  BY <1>0
<1>13. Reporting(f, done \union {<<l, m, t>>}, m, e, rest \ {m})
  BY <1>1, <1>6, <1>7, <1>8, <1>11, <1>12 DEF Reporting
<1>. QED
  BY <1>13 DEF f, a

LEMMA ReportsNumber ==
  ASSUME NEW s, NEW done, NEW l, NEW t, NEW rest, Reporting(s, done, l, t, rest),
         NEW m \in rest, NEW v \in 0 .. Word - 1
  PROVE  Reporting(Labelled(s, m, v), done \union {<<l, m, t>>}, m, DecText(v), rest \ {m})
BY DecTextIs, ReportGoesOn DEF Labelled

LEMMA ReportCloses ==
  ASSUME NEW s, NEW done, NEW l, NEW t, NEW rest, Reporting(s, done, l, t, rest),
         NEW m \in rest
  PROVE  Reporting(Append(s, m), done \union {<<l, m, t>>}, m, <<>>, rest \ {m})
<1> DEFINE none == <<>>
           f == Append(s, m)
<1>1. none \in Seq(Chars) /\ \A x \in Marks : Absent(none, x)
  <2>1. none \in Seq(Chars) /\ Len(none) = 0 /\ 1 .. 0 = {}
    OBVIOUS
  <2>. HIDE DEF none
  <2>. QED
    BY <2>1 DEF Absent
<1>2. f \o none = f
  <2>1. s \in Seq(Chars) /\ m \in Chars
    BY CharsAre DEF Reporting
  <2>2. f \in Seq(Chars)
    BY <2>1
  <2>. HIDE DEF f
  <2>. QED
    BY <2>2
<1>. HIDE DEF none
<1>3. Reporting(f \o none, done \union {<<l, m, t>>}, m, none, rest \ {m})
  BY <1>1, ReportGoesOn
<1>. HIDE DEF f
<1>4. Reporting(f, done \union {<<l, m, t>>}, m, none, rest \ {m})
  BY <1>2, <1>3
<1>. QED
  BY <1>4 DEF f, none

\* The seven fields of a report.
Fields7(h, v1, v2, v3, v4, v5, v6, v7) ==
  Labelled(Labelled(Labelled(Labelled(Labelled(Labelled(Labelled(
    <<h>>, " SW CirBuf = ", v1), ", HW FIFO wspace=", v2), " AC=", v3), " WI=", v4),
    " RI=", v5), " WE=", v6), " RE=", v7)

Report(h, v1, v2, v3, v4, v5, v6, v7) ==
  Append(Append(Fields7(h, v1, v2, v3, v4, v5, v6, v7), "\r"), "\n")

CutAt(s, l, m, v) == Cut(s, l, m, DecText(v))

ReportCuts(s, v1, v2, v3, v4, v5, v6, v7) ==
  /\ s \in Seq(Chars)
  /\ CutAt(s, " SW CirBuf = ", ", HW FIFO wspace=", v1)
  /\ CutAt(s, ", HW FIFO wspace=", " AC=", v2) /\ CutAt(s, " AC=", " WI=", v3)
  /\ CutAt(s, " WI=", " RI=", v4) /\ CutAt(s, " RI=", " WE=", v5)
  /\ CutAt(s, " WE=", " RE=", v6) /\ CutAt(s, " RE=", "\r", v7)

ReportOf(s, h, v1, v2, v3, v4, v5, v6, v7) ==
  /\ h \in Headers /\ v1 \in 0 .. Word - 1 /\ v2 \in 0 .. Word - 1
  /\ v3 \in 0 .. Word - 1 /\ v4 \in 0 .. Word - 1 /\ v5 \in 0 .. Word - 1
  /\ v6 \in 0 .. Word - 1 /\ v7 \in 0 .. Word - 1
  /\ s = Report(h, v1, v2, v3, v4, v5, v6, v7)

LEMMA ReportReads ==
  ASSUME NEW s, NEW h, NEW v1, NEW v2, NEW v3, NEW v4, NEW v5, NEW v6, NEW v7,
         ReportOf(s, h, v1, v2, v3, v4, v5, v6, v7)
  PROVE  ReportCuts(s, v1, v2, v3, v4, v5, v6, v7)
<1>a. /\ h \in Headers /\ v1 \in 0 .. Word - 1 /\ v2 \in 0 .. Word - 1
      /\ v3 \in 0 .. Word - 1 /\ v4 \in 0 .. Word - 1 /\ v5 \in 0 .. Word - 1
      /\ v6 \in 0 .. Word - 1 /\ v7 \in 0 .. Word - 1
  BY DEF ReportOf
<1>b. s = Report(h, v1, v2, v3, v4, v5, v6, v7)
  BY DEF ReportOf
<1> DEFINE l1 == " SW CirBuf = "
           l2 == ", HW FIFO wspace="
           l3 == " AC="
           l4 == " WI="
           l5 == " RI="
           l6 == " WE="
           l7 == " RE="
           l8 == "\r"
           l9 == "\n"
           s0 == <<h>>
           s1 == Labelled(s0, l1, v1)
           s2 == Labelled(s1, l2, v2)
           s3 == Labelled(s2, l3, v3)
           s4 == Labelled(s3, l4, v4)
           s5 == Labelled(s4, l5, v5)
           s6 == Labelled(s5, l6, v6)
           s7 == Labelled(s6, l7, v7)
           s8 == Append(s7, l8)
           s9 == Append(s8, l9)
           r1 == Labels \ {l1}
           r2 == r1 \ {l2}
           r3 == r2 \ {l3}
           r4 == r3 \ {l4}
           r5 == r4 \ {l5}
           r6 == r5 \ {l6}
           r7 == r6 \ {l7}
           r8 == r7 \ {l8}
           d1 == {} \union {<<h, l1, <<>>>>}
           d2 == d1 \union {<<l1, l2, DecText(v1)>>}
           d3 == d2 \union {<<l2, l3, DecText(v2)>>}
           d4 == d3 \union {<<l3, l4, DecText(v3)>>}
           d5 == d4 \union {<<l4, l5, DecText(v4)>>}
           d6 == d5 \union {<<l5, l6, DecText(v5)>>}
           d7 == d6 \union {<<l6, l7, DecText(v6)>>}
           d8 == d7 \union {<<l7, l8, DecText(v7)>>}
           d9 == d8 \union {<<l8, l9, <<>>>>}
<1>s. s = s9
  BY <1>b, Zenon DEF Report, Fields7
<1>r. l1 \in Labels /\ l2 \in r1 /\ l3 \in r2 /\ l4 \in r3 /\ l5 \in r4 /\ l6 \in r5 /\ l7 \in r6
      /\ l8 \in r7 /\ l9 \in r8
  BY DEF Labels
<1>. HIDE DEF l1
<1>. HIDE DEF l2
<1>. HIDE DEF l3
<1>. HIDE DEF l4
<1>. HIDE DEF l5
<1>. HIDE DEF l6
<1>. HIDE DEF l7
<1>. HIDE DEF l8
<1>. HIDE DEF l9
<1>. HIDE DEF s0, s1, s2, s3, s4, s5, s6, s7, s8, s9
<1>. HIDE DEF r1, r2, r3, r4, r5, r6, r7, r8
<1>. HIDE DEF d1, d2, d3, d4, d5, d6, d7, d8, d9
<1>0. Reporting(s0, {}, h, <<>>, Labels)
  BY <1>a, ReportBegins DEF s0
<1>1. Reporting(s1, d1, l1, DecText(v1), r1)
  BY <1>a, <1>0, <1>r, ReportsNumber DEF s1, d1, r1
<1>2. Reporting(s2, d2, l2, DecText(v2), r2)
  BY <1>a, <1>1, <1>r, ReportsNumber DEF s2, d2, r2
<1>3. Reporting(s3, d3, l3, DecText(v3), r3)
  BY <1>a, <1>2, <1>r, ReportsNumber DEF s3, d3, r3
<1>4. Reporting(s4, d4, l4, DecText(v4), r4)
  BY <1>a, <1>3, <1>r, ReportsNumber DEF s4, d4, r4
<1>5. Reporting(s5, d5, l5, DecText(v5), r5)
  BY <1>a, <1>4, <1>r, ReportsNumber DEF s5, d5, r5
<1>6. Reporting(s6, d6, l6, DecText(v6), r6)
  BY <1>a, <1>5, <1>r, ReportsNumber DEF s6, d6, r6
<1>7. Reporting(s7, d7, l7, DecText(v7), r7)
  BY <1>a, <1>6, <1>r, ReportsNumber DEF s7, d7, r7
<1>8. Reporting(s8, d8, l8, <<>>, r8)
  BY <1>7, <1>r, ReportCloses DEF s8, d8, r8
<1>9. Reporting(s9, d9, l9, <<>>, r8 \ {l9})
  BY <1>8, <1>r, ReportCloses DEF s9, d9
<1>10. s \in Seq(Chars) /\ \A d \in d9 : Cut(s, d[1], d[2], d[3])
  BY <1>9, <1>s DEF Reporting
<1>11. /\ <<l1, l2, DecText(v1)>> \in d9 /\ <<l2, l3, DecText(v2)>> \in d9
       /\ <<l3, l4, DecText(v3)>> \in d9 /\ <<l4, l5, DecText(v4)>> \in d9
       /\ <<l5, l6, DecText(v5)>> \in d9 /\ <<l6, l7, DecText(v6)>> \in d9
       /\ <<l7, l8, DecText(v7)>> \in d9
  BY Zenon DEF d2, d3, d4, d5, d6, d7, d8, d9
<1>12. ASSUME NEW a, NEW b, NEW v, <<a, b, DecText(v)>> \in d9
       PROVE  CutAt(s, a, b, v)
  <2>1. Cut(s, <<a, b, DecText(v)>>[1], <<a, b, DecText(v)>>[2], <<a, b, DecText(v)>>[3])
    BY <1>10, <1>12
  <2>. QED
    BY <2>1 DEF CutAt
<1>13. /\ CutAt(s, l1, l2, v1) /\ CutAt(s, l2, l3, v2) /\ CutAt(s, l3, l4, v3)
       /\ CutAt(s, l4, l5, v4) /\ CutAt(s, l5, l6, v5) /\ CutAt(s, l6, l7, v6)
       /\ CutAt(s, l7, l8, v7)
  BY <1>11, <1>12, Zenon
<1>. QED
  BY <1>10, <1>13, Zenon DEF l1, l2, l3, l4, l5, l6, l7, l8, ReportCuts

-----------------------------------------------------------------------------
(* Printing: the format of a report *)

\* A label, and the number behind it.
ThreeSteps(x, l) == LogPrintfStep(LogPrintfStep(LogPrintfStep(x, l), "%"), "d")

LEMMA FieldLogged ==
  ASSUME NEW a, NEW o, NEW l, l # "%"
  PROVE  ThreeSteps(Log("chars", NoZeros, NoWidth, a, o), l)
           = Log("chars", NoZeros, NoWidth, Tail(a), Labelled(o, l, Head(a)))
<1> DEFINE b == Append(o, l)
<1>1. LogPrintfStep(Log("chars", NoZeros, NoWidth, a, o), l)
        = Log("chars", NoZeros, NoWidth, a, b)
  BY LogCopies
<1>. HIDE DEF b
<1>2. LogPrintfStep(Log("chars", NoZeros, NoWidth, a, b), "%")
        = Log("first", NoZeros, NoWidth, a, b)
  BY LogEscapes
<1>3. "first" \in Pending /\ "d" \in Conversions
  BY DEF Pending, Conversions
<1>4. LogPrintfStep(Log("first", NoZeros, NoWidth, a, b), "d")
        = Log("chars", NoZeros, NoWidth, Tail(a),
              b \o NumberText("d", NoZeros, NoWidth, Head(a)))
  BY <1>3, LogNumber
<1>5. ThreeSteps(Log("chars", NoZeros, NoWidth, a, o), l)
        = LogPrintfStep(LogPrintfStep(LogPrintfStep(Log("chars", NoZeros, NoWidth, a, o), l),
                                      "%"), "d")
  BY Zenon DEF ThreeSteps
<1>. QED
  BY <1>1, <1>2, <1>4, <1>5 DEF Labelled, DecText, b

\* The first of the arguments a, and the others.
Leads(a, x, b) == Head(a) = x /\ Tail(a) = b

LEMMA FieldDone ==
  ASSUME NEW a, NEW x, NEW b, NEW o, NEW l, NEW st, NEW end, l # "%", Leads(a, x, b),
         st = Log("chars", NoZeros, NoWidth, a, o), end = ThreeSteps(st, l)
  PROVE  end = Log("chars", NoZeros, NoWidth, b, Labelled(o, l, x))
<1>1. Head(a) = x /\ Tail(a) = b
  BY DEF Leads
<1>. QED
  BY <1>1, FieldLogged

\* What is left of a sequence after its first k elements.
Drop(a, k) == SubSeq(a, k + 1, Len(a))

LEMMA SameTexts ==
  ASSUME NEW S, NEW s \in Seq(S), NEW t \in Seq(S), NEW n, Len(s) = n, Len(t) = n,
         \A i \in 1 .. n : s[i] = t[i]
  PROVE  s = t
OBVIOUS

LEMMA DropIs ==
  ASSUME NEW S, NEW a \in Seq(S), NEW k \in 0 .. Len(a) - 1
  PROVE  Head(Drop(a, k)) = a[k + 1] /\ Tail(Drop(a, k)) = Drop(a, k + 1)
<1> DEFINE n == Len(a)
           b == Drop(a, k)
<1>1. n \in Nat /\ k \in Nat /\ k + 1 <= n
  OBVIOUS
<1>2. b \in Seq(S) /\ Len(b) = n - k /\ \A i \in 1 .. n - k : b[i] = a[k + i]
  BY <1>1 DEF Drop
<1>3. Drop(a, k + 1) \in Seq(S) /\ Len(Drop(a, k + 1)) = n - k - 1
      /\ \A i \in 1 .. n - k - 1 : Drop(a, k + 1)[i] = a[k + 1 + i]
  BY <1>1 DEF Drop
<1>. HIDE DEF b
<1>4. n - k \in Nat \ {0} /\ 1 \in 1 .. n - k
  BY <1>1
<1>5. Head(b) = a[k + 1]
  BY <1>2, <1>4
<1>6. Tail(b) \in Seq(S) /\ Len(Tail(b)) = n - k - 1
      /\ \A i \in 1 .. n - k - 1 : Tail(b)[i] = b[i + 1]
  BY <1>2, <1>4
<1>7. ASSUME NEW i \in 1 .. n - k - 1 PROVE Tail(b)[i] = Drop(a, k + 1)[i]
  <2>1. i + 1 \in 1 .. n - k /\ k + (i + 1) = k + 1 + i
    BY <1>1
  <2>. QED
    BY <1>2, <1>3, <1>6, <2>1
<1>8. Tail(b) = Drop(a, k + 1)
  <2>. DEFINE u == Tail(b)
              v == Drop(a, k + 1)
              m == n - k - 1
  <2>1. u \in Seq(S) /\ v \in Seq(S) /\ Len(u) = m /\ Len(v) = m
        /\ \A i \in 1 .. m : u[i] = v[i]
    BY <1>3, <1>6, <1>7
  <2>. HIDE DEF u, v, m
  <2>2. u = v
    BY <2>1, SameTexts
  <2>. QED
    BY <2>2 DEF u, v
<1>. QED
  BY <1>5, <1>8 DEF b

LEMMA ReportFormat ==
  ASSUME NEW fmt,
         fmt = <<"%", "s", " SW CirBuf = ", "%", "d", ", HW FIFO wspace=", "%", "d",
                 " AC=", "%", "d", " WI=", "%", "d", " RI=", "%", "d", " WE=", "%", "d",
                 " RE=", "%", "d", "\r", "\n">>
  PROVE  /\ Len(fmt) = 25 /\ fmt[1] = "%" /\ fmt[2] = "s"
         /\ fmt[3] = " SW CirBuf = " /\ fmt[4] = "%" /\ fmt[5] = "d"
         /\ fmt[6] = ", HW FIFO wspace=" /\ fmt[7] = "%" /\ fmt[8] = "d"
         /\ fmt[9] = " AC=" /\ fmt[10] = "%" /\ fmt[11] = "d"
         /\ fmt[12] = " WI=" /\ fmt[13] = "%" /\ fmt[14] = "d"
         /\ fmt[15] = " RI=" /\ fmt[16] = "%" /\ fmt[17] = "d"
         /\ fmt[18] = " WE=" /\ fmt[19] = "%" /\ fmt[20] = "d"
         /\ fmt[21] = " RE=" /\ fmt[22] = "%" /\ fmt[23] = "d"
         /\ fmt[24] = "\r" /\ fmt[25] = "\n"
OBVIOUS

LEMMA EightArguments ==
  ASSUME NEW a0, NEW a1, NEW a2, NEW a3, NEW a4, NEW a5, NEW a6, NEW a7, NEW a,
         a = <<a0, a1, a2, a3, a4, a5, a6, a7>>
  PROVE  /\ a \in Seq({a0, a1, a2, a3, a4, a5, a6, a7}) /\ Len(a) = 8
         /\ a[1] = a0 /\ a[2] = a1 /\ a[3] = a2 /\ a[4] = a3 /\ a[5] = a4 /\ a[6] = a5
         /\ a[7] = a6 /\ a[8] = a7
OBVIOUS

\* The arguments one after the other.
EightOf(b0, a0, a1, a2, a3, a4, a5, a6, a7) ==
  \E b1, b2, b3, b4, b5, b6, b7, b8 :
    /\ Leads(b0, a0, b1) /\ Leads(b1, a1, b2) /\ Leads(b2, a2, b3)
    /\ Leads(b3, a3, b4) /\ Leads(b4, a4, b5) /\ Leads(b5, a5, b6)
    /\ Leads(b6, a6, b7) /\ Leads(b7, a7, b8)

LEMMA Arguments ==
  ASSUME NEW a0, NEW a1, NEW a2, NEW a3, NEW a4, NEW a5, NEW a6, NEW a7, NEW b,
         b = <<a0, a1, a2, a3, a4, a5, a6, a7>>
  PROVE  EightOf(b, a0, a1, a2, a3, a4, a5, a6, a7)
<1> DEFINE a == <<a0, a1, a2, a3, a4, a5, a6, a7>>
           S == {a0, a1, a2, a3, a4, a5, a6, a7}
<1>a. a = <<a0, a1, a2, a3, a4, a5, a6, a7>>
  OBVIOUS
<1>. HIDE DEF a
<1>0. /\ a \in Seq(S) /\ Len(a) = 8
      /\ a[1] = a0 /\ a[2] = a1 /\ a[3] = a2 /\ a[4] = a3 /\ a[5] = a4 /\ a[6] = a5
      /\ a[7] = a6 /\ a[8] = a7
  BY <1>a, EightArguments
<1>. HIDE DEF S
<1>1. Drop(a, 0) = a
  BY <1>0 DEF Drop
<1>2. \A k \in 0 .. 7 : Head(Drop(a, k)) = a[k + 1] /\ Tail(Drop(a, k)) = Drop(a, k + 1)
  <2>1. \A k \in 0 .. 7 : k \in 0 .. Len(a) - 1
    BY <1>0
  <2>. QED
    BY <1>0, <2>1, DropIs
<1>3. /\ 0 \in 0 .. 7 /\ 1 \in 0 .. 7 /\ 2 \in 0 .. 7 /\ 3 \in 0 .. 7 /\ 4 \in 0 .. 7
      /\ 5 \in 0 .. 7 /\ 6 \in 0 .. 7 /\ 7 \in 0 .. 7
      /\ 0 + 1 = 1 /\ 1 + 1 = 2 /\ 2 + 1 = 3 /\ 3 + 1 = 4 /\ 4 + 1 = 5 /\ 5 + 1 = 6
      /\ 6 + 1 = 7 /\ 7 + 1 = 8
  OBVIOUS
<1>4. /\ Head(a) = a0 /\ Tail(a) = Drop(a, 1)
      /\ Head(Drop(a, 1)) = a1 /\ Tail(Drop(a, 1)) = Drop(a, 2)
      /\ Head(Drop(a, 2)) = a2 /\ Tail(Drop(a, 2)) = Drop(a, 3)
      /\ Head(Drop(a, 3)) = a3 /\ Tail(Drop(a, 3)) = Drop(a, 4)
      /\ Head(Drop(a, 4)) = a4 /\ Tail(Drop(a, 4)) = Drop(a, 5)
      /\ Head(Drop(a, 5)) = a5 /\ Tail(Drop(a, 5)) = Drop(a, 6)
      /\ Head(Drop(a, 6)) = a6 /\ Tail(Drop(a, 6)) = Drop(a, 7)
      /\ Head(Drop(a, 7)) = a7 /\ Tail(Drop(a, 7)) = Drop(a, 8)
  BY <1>0, <1>1, <1>2, <1>3
<1>5. /\ Leads(a, a0, Drop(a, 1)) /\ Leads(Drop(a, 1), a1, Drop(a, 2))
      /\ Leads(Drop(a, 2), a2, Drop(a, 3)) /\ Leads(Drop(a, 3), a3, Drop(a, 4))
      /\ Leads(Drop(a, 4), a4, Drop(a, 5)) /\ Leads(Drop(a, 5), a5, Drop(a, 6))
      /\ Leads(Drop(a, 6), a6, Drop(a, 7)) /\ Leads(Drop(a, 7), a7, Drop(a, 8))
  BY <1>4 DEF Leads
<1>6. EightOf(a, a0, a1, a2, a3, a4, a5, a6, a7)
  BY <1>5, Zenon DEF EightOf
<1>. QED
  BY <1>a, <1>6

\* The log prints a report as the fields one after the other.
LEMMA ReportIs ==
  ASSUME NEW h, NEW v1, NEW v2, NEW v3, NEW v4, NEW v5, NEW v6, NEW v7
  PROVE  alt_log_printf_proc(
           <<"%", "s", " SW CirBuf = ", "%", "d", ", HW FIFO wspace=", "%", "d",
             " AC=", "%", "d", " WI=", "%", "d", " RI=", "%", "d", " WE=", "%", "d",
             " RE=", "%", "d", "\r", "\n">>,
           <<<<h>>, v1, v2, v3, v4, v5, v6, v7>>)
         = Report(h, v1, v2, v3, v4, v5, v6, v7)
<1> DEFINE fmt == <<"%", "s", " SW CirBuf = ", "%", "d", ", HW FIFO wspace=", "%", "d",
                    " AC=", "%", "d", " WI=", "%", "d", " RI=", "%", "d", " WE=", "%", "d",
                    " RE=", "%", "d", "\r", "\n">>
           one == <<h>>
<1>f. fmt = <<"%", "s", " SW CirBuf = ", "%", "d", ", HW FIFO wspace=", "%", "d",
              " AC=", "%", "d", " WI=", "%", "d", " RI=", "%", "d", " WE=", "%", "d",
              " RE=", "%", "d", "\r", "\n">>
  OBVIOUS
<1>o. one = <<h>>
  OBVIOUS
<1>. HIDE DEF fmt, one
<1>a. PICK b0 : b0 = <<one, v1, v2, v3, v4, v5, v6, v7>>
  OBVIOUS
<1>b. EightOf(b0, one, v1, v2, v3, v4, v5, v6, v7)
  BY <1>a, Arguments
<1>1. PICK b1, b2, b3, b4, b5, b6, b7, b8 :
        /\ Leads(b0, one, b1) /\ Leads(b1, v1, b2) /\ Leads(b2, v2, b3)
        /\ Leads(b3, v3, b4) /\ Leads(b4, v4, b5) /\ Leads(b5, v5, b6)
        /\ Leads(b6, v6, b7) /\ Leads(b7, v7, b8)
  BY <1>b, Zenon DEF EightOf
<1>2. /\ Len(fmt) = 25 /\ fmt[1] = "%" /\ fmt[2] = "s"
      /\ fmt[3] = " SW CirBuf = " /\ fmt[4] = "%" /\ fmt[5] = "d"
      /\ fmt[6] = ", HW FIFO wspace=" /\ fmt[7] = "%" /\ fmt[8] = "d"
      /\ fmt[9] = " AC=" /\ fmt[10] = "%" /\ fmt[11] = "d"
      /\ fmt[12] = " WI=" /\ fmt[13] = "%" /\ fmt[14] = "d"
      /\ fmt[15] = " RI=" /\ fmt[16] = "%" /\ fmt[17] = "d"
      /\ fmt[18] = " WE=" /\ fmt[19] = "%" /\ fmt[20] = "d"
      /\ fmt[21] = " RE=" /\ fmt[22] = "%" /\ fmt[23] = "d"
      /\ fmt[24] = "\r" /\ fmt[25] = "\n"
  BY <1>f, ReportFormat
<1>3. PICK g : LogStates(g, fmt, b0)
  <2>1. Len(fmt) = 25
    BY <1>2
  <2>2. 25 \in Nat
    OBVIOUS
  <2>. QED
    BY <2>1, <2>2, LogRun, Zenon
<1>4. g[0] = Log("chars", NoZeros, NoWidth, b0, <<>>) /\ alt_log_printf_proc(fmt, b0) = g[25].out
  BY <1>2, <1>3 DEF LogStates
<1>5. \A i \in 1 .. 25 : g[i] = LogPrintfStep(g[i - 1], fmt[i])
  BY <1>2, <1>3 DEF LogStates
<1>6. /\ g[1] = LogPrintfStep(g[0], "%") /\ g[2] = LogPrintfStep(g[1], "s")
      /\ g[24] = LogPrintfStep(g[23], "\r") /\ g[25] = LogPrintfStep(g[24], "\n")
  <2>1. 1 \in 1 .. 25 /\ 2 \in 1 .. 25 /\ 24 \in 1 .. 25 /\ 25 \in 1 .. 25
        /\ 1 - 1 = 0 /\ 2 - 1 = 1 /\ 24 - 1 = 23 /\ 25 - 1 = 24
    OBVIOUS
  <2>2. /\ g[1] = LogPrintfStep(g[1 - 1], fmt[1]) /\ g[2] = LogPrintfStep(g[2 - 1], fmt[2])
        /\ g[24] = LogPrintfStep(g[24 - 1], fmt[24]) /\ g[25] = LogPrintfStep(g[25 - 1], fmt[25])
    BY <1>5, <2>1, Zenon
  <2>3. fmt[1] = "%" /\ fmt[2] = "s" /\ fmt[24] = "\r" /\ fmt[25] = "\n"
    BY <1>2, Zenon
  <2>. QED
    BY <2>1, <2>2, <2>3, Zenon
<1>7. \A i \in 1 .. 23 : fmt[i + 1] = "%" /\ fmt[i + 2] = "d"
                         => g[i + 2] = ThreeSteps(g[i - 1], fmt[i])
  <2>1. ASSUME NEW i \in 1 .. 23, fmt[i + 1] = "%", fmt[i + 2] = "d"
        PROVE  g[i + 2] = ThreeSteps(g[i - 1], fmt[i])
    <3>1. i \in 1 .. 25 /\ i + 1 \in 1 .. 25 /\ i + 2 \in 1 .. 25
          /\ (i + 1) - 1 = i /\ (i + 2) - 1 = i + 1
      OBVIOUS
    <3>2. g[i] = LogPrintfStep(g[i - 1], fmt[i]) /\ g[i + 1] = LogPrintfStep(g[i], "%")
          /\ g[i + 2] = LogPrintfStep(g[i + 1], "d")
      BY <1>5, <2>1, <3>1
    <3>. QED
      BY <3>2, Zenon DEF ThreeSteps
  <2>. QED
    BY <2>1
<1>8. /\ g[5] = ThreeSteps(g[2], " SW CirBuf = ")
      /\ g[8] = ThreeSteps(g[5], ", HW FIFO wspace=")
      /\ g[11] = ThreeSteps(g[8], " AC=")
      /\ g[14] = ThreeSteps(g[11], " WI=")
      /\ g[17] = ThreeSteps(g[14], " RI=")
      /\ g[20] = ThreeSteps(g[17], " WE=")
      /\ g[23] = ThreeSteps(g[20], " RE=")
  <2>1. g[5] = ThreeSteps(g[2], " SW CirBuf = ")
    <3>1. fmt[3] = " SW CirBuf = " /\ fmt[4] = "%" /\ fmt[5] = "d"
      BY <1>2
    <3>2. 3 \in 1 .. 23 /\ 3 + 1 = 4 /\ 3 + 2 = 5 /\ 3 - 1 = 2
      OBVIOUS
    <3>. QED
      BY <1>7, <3>1, <3>2
  <2>2. g[8] = ThreeSteps(g[5], ", HW FIFO wspace=")
    <3>1. fmt[6] = ", HW FIFO wspace=" /\ fmt[7] = "%" /\ fmt[8] = "d"
      BY <1>2
    <3>2. 6 \in 1 .. 23 /\ 6 + 1 = 7 /\ 6 + 2 = 8 /\ 6 - 1 = 5
      OBVIOUS
    <3>. QED
      BY <1>7, <3>1, <3>2
  <2>3. g[11] = ThreeSteps(g[8], " AC=")
    <3>1. fmt[9] = " AC=" /\ fmt[10] = "%" /\ fmt[11] = "d"
      BY <1>2
    <3>2. 9 \in 1 .. 23 /\ 9 + 1 = 10 /\ 9 + 2 = 11 /\ 9 - 1 = 8
      OBVIOUS
    <3>. QED
      BY <1>7, <3>1, <3>2
  <2>4. g[14] = ThreeSteps(g[11], " WI=")
    <3>1. fmt[12] = " WI=" /\ fmt[13] = "%" /\ fmt[14] = "d"
      BY <1>2
    <3>2. 12 \in 1 .. 23 /\ 12 + 1 = 13 /\ 12 + 2 = 14 /\ 12 - 1 = 11
      OBVIOUS
    <3>. QED
      BY <1>7, <3>1, <3>2
  <2>5. g[17] = ThreeSteps(g[14], " RI=")
    <3>1. fmt[15] = " RI=" /\ fmt[16] = "%" /\ fmt[17] = "d"
      BY <1>2
    <3>2. 15 \in 1 .. 23 /\ 15 + 1 = 16 /\ 15 + 2 = 17 /\ 15 - 1 = 14
      OBVIOUS
    <3>. QED
      BY <1>7, <3>1, <3>2
  <2>6. g[20] = ThreeSteps(g[17], " WE=")
    <3>1. fmt[18] = " WE=" /\ fmt[19] = "%" /\ fmt[20] = "d"
      BY <1>2
    <3>2. 18 \in 1 .. 23 /\ 18 + 1 = 19 /\ 18 + 2 = 20 /\ 18 - 1 = 17
      OBVIOUS
    <3>. QED
      BY <1>7, <3>1, <3>2
  <2>7. g[23] = ThreeSteps(g[20], " RE=")
    <3>1. fmt[21] = " RE=" /\ fmt[22] = "%" /\ fmt[23] = "d"
      BY <1>2
    <3>2. 21 \in 1 .. 23 /\ 21 + 1 = 22 /\ 21 + 2 = 23 /\ 21 - 1 = 20
      OBVIOUS
    <3>. QED
      BY <1>7, <3>1, <3>2
  <2>. QED
    BY <2>1, <2>2, <2>3, <2>4, <2>5, <2>6, <2>7
<1>9. g[2] = Log("chars", NoZeros, NoWidth, b1, one)
  <2>. DEFINE none == <<>>
              start == Log("chars", NoZeros, NoWidth, b0, none)
              begun == Log("first", NoZeros, NoWidth, b0, none)
  <2>1. g[0] = start
    BY <1>4
  <2>2. none \o one = one
    BY <1>o
  <2>. HIDE DEF none
  <2>3. LogPrintfStep(start, "%") = begun
    BY LogEscapes
  <2>4. "first" \in Pending
    BY DEF Pending
  <2>5. LogPrintfStep(begun, "s")
          = Log("chars", NoZeros, NoWidth, Tail(b0), none \o PaddedText(NoWidth, Head(b0)))
    BY <2>4, LogText
  <2>. HIDE DEF start, begun
  <2>6. PaddedText(NoWidth, one) = one
    <3>1. Len(one) = 1 /\ <<>> \o one = one
      BY <1>o
    <3>2. NoWidth - 1 \in Int /\ NoWidth - 1 < 1
      BY DEF NoWidth
    <3>3. Repeat(" ", NoWidth - 1) = <<>>
      BY <3>2, NoRepeats
    <3>. QED
      BY <3>1, <3>3 DEF PaddedText
  <2>7. Head(b0) = one /\ Tail(b0) = b1
    BY <1>1 DEF Leads
  <2>. QED
    BY <1>6, <2>1, <2>2, <2>3, <2>5, <2>6, <2>7
<1>. DEFINE s1 == Labelled(one, " SW CirBuf = ", v1)
            s2 == Labelled(s1, ", HW FIFO wspace=", v2)
            s3 == Labelled(s2, " AC=", v3)
            s4 == Labelled(s3, " WI=", v4)
            s5 == Labelled(s4, " RI=", v5)
            s6 == Labelled(s5, " WE=", v6)
            s7 == Labelled(s6, " RE=", v7)
            s8 == Append(s7, "\r")
            s9 == Append(s8, "\n")
<1>s. Report(h, v1, v2, v3, v4, v5, v6, v7) = s9
  BY <1>o, Zenon DEF Report, Fields7
<1>. HIDE DEF s1, s2, s3, s4, s5, s6, s7, s8, s9
<1>11. g[5] = Log("chars", NoZeros, NoWidth, b2, s1)
  <2>. DEFINE label == " SW CirBuf = "
  <2>1. label # "%"
    OBVIOUS
  <2>2. Leads(b1, v1, b2)
    BY <1>1
  <2>3. g[5] = ThreeSteps(g[2], label)
    BY <1>8
  <2>4. s1 = Labelled(one, label, v1)
    BY DEF s1
  <2>. HIDE DEF label
  <2>. QED
    BY <2>1, <2>2, <2>3, <2>4, <1>9, FieldDone
<1>12. g[8] = Log("chars", NoZeros, NoWidth, b3, s2)
  <2>. DEFINE label == ", HW FIFO wspace="
  <2>1. label # "%"
    OBVIOUS
  <2>2. Leads(b2, v2, b3)
    BY <1>1
  <2>3. g[8] = ThreeSteps(g[5], label)
    BY <1>8
  <2>4. s2 = Labelled(s1, label, v2)
    BY DEF s2
  <2>. HIDE DEF label
  <2>. QED
    BY <2>1, <2>2, <2>3, <2>4, <1>11, FieldDone
<1>13. g[11] = Log("chars", NoZeros, NoWidth, b4, s3)
  <2>. DEFINE label == " AC="
  <2>1. label # "%"
    OBVIOUS
  <2>2. Leads(b3, v3, b4)
    BY <1>1
  <2>3. g[11] = ThreeSteps(g[8], label)
    BY <1>8
  <2>4. s3 = Labelled(s2, label, v3)
    BY DEF s3
  <2>. HIDE DEF label
  <2>. QED
    BY <2>1, <2>2, <2>3, <2>4, <1>12, FieldDone
<1>14. g[14] = Log("chars", NoZeros, NoWidth, b5, s4)
  <2>. DEFINE label == " WI="
  <2>1. label # "%"
    OBVIOUS
  <2>2. Leads(b4, v4, b5)
    BY <1>1
  <2>3. g[14] = ThreeSteps(g[11], label)
    BY <1>8
  <2>4. s4 = Labelled(s3, label, v4)
    BY DEF s4
  <2>. HIDE DEF label
  <2>. QED
    BY <2>1, <2>2, <2>3, <2>4, <1>13, FieldDone
<1>15. g[17] = Log("chars", NoZeros, NoWidth, b6, s5)
  <2>. DEFINE label == " RI="
  <2>1. label # "%"
    OBVIOUS
  <2>2. Leads(b5, v5, b6)
    BY <1>1
  <2>3. g[17] = ThreeSteps(g[14], label)
    BY <1>8
  <2>4. s5 = Labelled(s4, label, v5)
    BY DEF s5
  <2>. HIDE DEF label
  <2>. QED
    BY <2>1, <2>2, <2>3, <2>4, <1>14, FieldDone
<1>16. g[20] = Log("chars", NoZeros, NoWidth, b7, s6)
  <2>. DEFINE label == " WE="
  <2>1. label # "%"
    OBVIOUS
  <2>2. Leads(b6, v6, b7)
    BY <1>1
  <2>3. g[20] = ThreeSteps(g[17], label)
    BY <1>8
  <2>4. s6 = Labelled(s5, label, v6)
    BY DEF s6
  <2>. HIDE DEF label
  <2>. QED
    BY <2>1, <2>2, <2>3, <2>4, <1>15, FieldDone
<1>17. g[23] = Log("chars", NoZeros, NoWidth, b8, s7)
  <2>. DEFINE label == " RE="
  <2>1. label # "%"
    OBVIOUS
  <2>2. Leads(b7, v7, b8)
    BY <1>1
  <2>3. g[23] = ThreeSteps(g[20], label)
    BY <1>8
  <2>4. s7 = Labelled(s6, label, v7)
    BY DEF s7
  <2>. HIDE DEF label
  <2>. QED
    BY <2>1, <2>2, <2>3, <2>4, <1>16, FieldDone
<1>18. g[24] = Log("chars", NoZeros, NoWidth, b8, s8)
  BY <1>6, <1>17, LogCopies DEF s8
<1>19. g[25] = Log("chars", NoZeros, NoWidth, b8, s9)
  BY <1>6, <1>18, LogCopies DEF s9
<1>20. g[25].out = s9
  BY <1>19 DEF Log
<1>. QED
  BY <1>a, <1>4, <1>20, <1>f, <1>o, <1>s, Zenon

-----------------------------------------------------------------------------
(* Printing: the fields of the control register *)

\* A word is wider than a field of one bit.
LEMMA WordIsBig == Word \in Nat /\ Word >= 16 /\ Word \div 2 >= 8 /\ Word \div 2 \in Nat
<1>1. Nibbles \in Nat \ {0}
  BY PrintingAssumption
<1>2. PICK k \in Nat : Nibbles = k + 1
  <2>1. Nibbles - 1 \in Nat /\ Nibbles = (Nibbles - 1) + 1
    BY <1>1
  <2>. QED
    BY <2>1
<1>. DEFINE p == PlaceValue(16, k)
            w == PlaceValue(16, k + 1)
<1>3. 16 \in Nat \ {0}
  OBVIOUS
<1>4. p \in Nat \ {0} /\ w = p * 16
  BY <1>2, <1>3, PlaceValueIs
<1>5. Word = w
  BY <1>2 DEF Word
<1>. HIDE DEF p, w
<1>. QED
  BY <1>4, <1>5

\* x holds the field f, one of n values, at the weight p.
Composed(x, q, n, f, p, r) ==
  /\ q \in Nat /\ n \in Nat \ {0} /\ p \in Nat \ {0}
  /\ f \in 0 .. n - 1 /\ r \in 0 .. p - 1 /\ x = (q * n + f) * p + r

LEMMA FieldOf ==
  ASSUME NEW x, NEW q, NEW n, NEW f, NEW p, NEW r, Composed(x, q, n, f, p, r)
  PROVE  (x \div p) % n = f
<1>0. /\ q \in Nat /\ n \in Nat \ {0} /\ p \in Nat \ {0}
      /\ f \in 0 .. n - 1 /\ r \in 0 .. p - 1 /\ x = (q * n + f) * p + r
  BY DEF Composed
<1>. DEFINE y == q * n + f
<1>1. q * n \in Nat /\ f \in Nat
  BY <1>0
<1>2. y \in Int
  BY <1>1
<1>3. y % n = f
  BY <1>0, DivisionUnique
<1>. HIDE DEF y
<1>4. x = y * p + r
  BY <1>0 DEF y
<1>5. x \div p = y
  BY <1>0, <1>2, <1>4, DivisionUnique
<1>. QED
  BY <1>3, <1>5

LEMMA Weighed ==
  /\ ControlField["RE"][1] = 1 /\ ControlField["RE"][2] = 2
  /\ ControlField["WE"][1] = 2 /\ ControlField["WE"][2] = 2
  /\ ControlField["RI"][1] = 256 /\ ControlField["RI"][2] = 2
  /\ ControlField["WI"][1] = 512 /\ ControlField["WI"][2] = 2
  /\ ControlField["AC"][1] = 1024 /\ ControlField["AC"][2] = 2
  /\ ControlField["WSPACE"][1] = Bit16 /\ ControlField["WSPACE"][2] = Bit16
BY DEF ControlField

LEMMA ControlIs ==
  ASSUME NEW c \in Controls
  PROVE  /\ c.RE \in 0 .. 1 /\ c.WE \in 0 .. 1 /\ c.RI \in 0 .. 1 /\ c.WI \in 0 .. 1
         /\ c.AC \in 0 .. 1 /\ c.WSPACE \in 0 .. Bit16 - 1 /\ c.WSPACE < Word \div 2
BY ReportAssumption

LEMMA Bit16Is == Bit16 \in Nat /\ Bit16 >= 2048 /\ \A n \in Nat : Bit16 * n = 64 * (1024 * n)
BY DEF Bit16

\* Each field is found at its weight, among as many values as it has.
Bit(n) == n \in Nat /\ n < 2

Summed(x, re, we, ri, wi, ac, ws) ==
  /\ Bit(re) /\ Bit(we) /\ Bit(ri) /\ Bit(wi) /\ Bit(ac) /\ ws \in Nat /\ ws < Bit16
  /\ x = re + 2 * we + 256 * ri + 512 * wi + 1024 * ac + Bit16 * ws

SixFields(x, re, we, ri, wi, ac, ws) ==
  /\ (x \div 1) % 2 = re /\ (x \div 2) % 2 = we /\ (x \div 256) % 2 = ri
  /\ (x \div 512) % 2 = wi /\ (x \div 1024) % 2 = ac /\ (x \div Bit16) % Bit16 = ws

LEMMA SummedIs ==
  ASSUME NEW re, NEW we, NEW ri, NEW wi, NEW ac, NEW ws, NEW x,
         Summed(x, re, we, ri, wi, ac, ws)
  PROVE  /\ re \in Nat /\ re < 2 /\ we \in Nat /\ we < 2 /\ ri \in Nat /\ ri < 2
         /\ wi \in Nat /\ wi < 2 /\ ac \in Nat /\ ac < 2 /\ ws \in Nat
         /\ x = re + 2 * we + 256 * ri + 512 * wi + 1024 * ac + 64 * (1024 * ws)
<1>1. /\ re \in Nat /\ re < 2 /\ we \in Nat /\ we < 2 /\ ri \in Nat /\ ri < 2
      /\ wi \in Nat /\ wi < 2 /\ ac \in Nat /\ ac < 2 /\ ws \in Nat
      /\ x = re + 2 * we + 256 * ri + 512 * wi + 1024 * ac + Bit16 * ws
  BY DEF Summed, Bit
<1>2. Bit16 * ws = 64 * (1024 * ws)
  BY <1>1, Bit16Is
<1>. QED
  BY <1>1, <1>2

LEMMA Extracted ==
  ASSUME NEW re, NEW we, NEW ri, NEW wi, NEW ac, NEW ws, NEW x,
         Summed(x, re, we, ri, wi, ac, ws)
  PROVE  SixFields(x, re, we, ri, wi, ac, ws)
<1>0. /\ re \in Nat /\ re < 2 /\ we \in Nat /\ we < 2 /\ ri \in Nat /\ ri < 2
      /\ wi \in Nat /\ wi < 2 /\ ac \in Nat /\ ac < 2 /\ ws \in Nat
      /\ x = re + 2 * we + 256 * ri + 512 * wi + 1024 * ac + 64 * (1024 * ws)
  BY SummedIs
<1>1. (x \div 1) % 2 = re
  <2>. DEFINE n == 2
              p == 1
              q == we + 128 * ri + 256 * wi + 512 * ac + 32 * (1024 * ws)
              r == 0
  <2>4. n \in Nat \ {0} /\ p \in Nat \ {0} /\ q \in Nat /\ r \in Nat
    BY <1>0
  <2>5. re \in 0 .. n - 1 /\ r \in 0 .. p - 1
    BY <1>0, <2>4
  <2>6. x = (q * n + re) * p + r
    BY <1>0
  <2>. HIDE DEF n, p, q, r
  <2>1. /\ n \in Nat \ {0} /\ p \in Nat \ {0} /\ q \in Nat
        /\ re \in 0 .. n - 1 /\ r \in 0 .. p - 1 /\ x = (q * n + re) * p + r
    BY <2>4, <2>5, <2>6, Zenon
  <2>2. Composed(x, q, n, re, p, r)
    BY <2>1, Zenon DEF Composed
  <2>3. (x \div p) % n = re
    BY <2>2, FieldOf, Zenon
  <2>. QED
    BY <2>3 DEF n, p
<1>2. (x \div 2) % 2 = we
  <2>. DEFINE n == 2
              p == 2
              q == 64 * ri + 128 * wi + 256 * ac + 16 * (1024 * ws)
              r == re
  <2>4. n \in Nat \ {0} /\ p \in Nat \ {0} /\ q \in Nat /\ r \in Nat
    BY <1>0
  <2>5. we \in 0 .. n - 1 /\ r \in 0 .. p - 1
    BY <1>0, <2>4
  <2>6. x = (q * n + we) * p + r
    BY <1>0
  <2>. HIDE DEF n, p, q, r
  <2>1. /\ n \in Nat \ {0} /\ p \in Nat \ {0} /\ q \in Nat
        /\ we \in 0 .. n - 1 /\ r \in 0 .. p - 1 /\ x = (q * n + we) * p + r
    BY <2>4, <2>5, <2>6, Zenon
  <2>2. Composed(x, q, n, we, p, r)
    BY <2>1, Zenon DEF Composed
  <2>3. (x \div p) % n = we
    BY <2>2, FieldOf, Zenon
  <2>. QED
    BY <2>3 DEF n, p
<1>3. (x \div 256) % 2 = ri
  <2>. DEFINE n == 2
              p == 256
              q == wi + 2 * ac + 128 * ws
              r == re + 2 * we
  <2>4. n \in Nat \ {0} /\ p \in Nat \ {0} /\ q \in Nat /\ r \in Nat
    BY <1>0
  <2>5. ri \in 0 .. n - 1 /\ r \in 0 .. p - 1
    BY <1>0, <2>4
  <2>6. x = (q * n + ri) * p + r
    BY <1>0
  <2>. HIDE DEF n, p, q, r
  <2>1. /\ n \in Nat \ {0} /\ p \in Nat \ {0} /\ q \in Nat
        /\ ri \in 0 .. n - 1 /\ r \in 0 .. p - 1 /\ x = (q * n + ri) * p + r
    BY <2>4, <2>5, <2>6, Zenon
  <2>2. Composed(x, q, n, ri, p, r)
    BY <2>1, Zenon DEF Composed
  <2>3. (x \div p) % n = ri
    BY <2>2, FieldOf, Zenon
  <2>. QED
    BY <2>3 DEF n, p
<1>4. (x \div 512) % 2 = wi
  <2>. DEFINE n == 2
              p == 512
              q == ac + 64 * ws
              r == re + 2 * we + 256 * ri
  <2>4. n \in Nat \ {0} /\ p \in Nat \ {0} /\ q \in Nat /\ r \in Nat
    BY <1>0
  <2>5. wi \in 0 .. n - 1 /\ r \in 0 .. p - 1
    BY <1>0, <2>4
  <2>6. x = (q * n + wi) * p + r
    BY <1>0
  <2>. HIDE DEF n, p, q, r
  <2>1. /\ n \in Nat \ {0} /\ p \in Nat \ {0} /\ q \in Nat
        /\ wi \in 0 .. n - 1 /\ r \in 0 .. p - 1 /\ x = (q * n + wi) * p + r
    BY <2>4, <2>5, <2>6, Zenon
  <2>2. Composed(x, q, n, wi, p, r)
    BY <2>1, Zenon DEF Composed
  <2>3. (x \div p) % n = wi
    BY <2>2, FieldOf, Zenon
  <2>. QED
    BY <2>3 DEF n, p
<1>5. (x \div 1024) % 2 = ac
  <2>. DEFINE n == 2
              p == 1024
              q == 32 * ws
              r == re + 2 * we + 256 * ri + 512 * wi
  <2>4. n \in Nat \ {0} /\ p \in Nat \ {0} /\ q \in Nat /\ r \in Nat
    BY <1>0
  <2>5. ac \in 0 .. n - 1 /\ r \in 0 .. p - 1
    BY <1>0, <2>4
  <2>6. x = (q * n + ac) * p + r
    BY <1>0
  <2>. HIDE DEF n, p, q, r
  <2>1. /\ n \in Nat \ {0} /\ p \in Nat \ {0} /\ q \in Nat
        /\ ac \in 0 .. n - 1 /\ r \in 0 .. p - 1 /\ x = (q * n + ac) * p + r
    BY <2>4, <2>5, <2>6, Zenon
  <2>2. Composed(x, q, n, ac, p, r)
    BY <2>1, Zenon DEF Composed
  <2>3. (x \div p) % n = ac
    BY <2>2, FieldOf, Zenon
  <2>. QED
    BY <2>3 DEF n, p
<1>6. (x \div Bit16) % Bit16 = ws
  <2>. DEFINE n == Bit16
              p == Bit16
              q == 0
              r == re + 2 * we + 256 * ri + 512 * wi + 1024 * ac
  <2>0. /\ ws \in Nat /\ ws < Bit16 /\ r \in Nat /\ r < 2048
        /\ x = r + Bit16 * ws
    BY DEF Summed, Bit
  <2>. HIDE DEF r
  <2>1. /\ n \in Nat \ {0} /\ p \in Nat \ {0} /\ q \in Nat
        /\ ws \in 0 .. n - 1 /\ r \in 0 .. p - 1 /\ x = (q * n + ws) * p + r
    BY <2>0, Bit16Is
  <2>. HIDE DEF n, p, q, r
  <2>2. Composed(x, q, n, ws, p, r)
    BY <2>1, Zenon DEF Composed
  <2>3. (x \div p) % n = ws
    BY <2>2, FieldOf, Zenon
  <2>. QED
    BY <2>3 DEF n, p
<1>. QED
  BY <1>1, <1>2, <1>3, <1>4, <1>5, <1>6 DEF SixFields

LEMMA Extracts ==
  ASSUME NEW c \in Controls, NEW x, x = ControlRegister(c)
  PROVE  /\ Extract(x, "RE") = c.RE /\ Extract(x, "WE") = c.WE /\ Extract(x, "RI") = c.RI
         /\ Extract(x, "WI") = c.WI /\ Extract(x, "AC") = c.AC
         /\ Extract(x, "WSPACE") = c.WSPACE
<1>1. Bit(c.RE) /\ Bit(c.WE) /\ Bit(c.RI) /\ Bit(c.WI) /\ Bit(c.AC)
  BY ControlIs DEF Bit
<1>2. c.WSPACE \in Nat /\ c.WSPACE < Bit16
  BY ControlIs, Bit16Is
<1>3. Summed(x, c.RE, c.WE, c.RI, c.WI, c.AC, c.WSPACE)
  BY <1>1, <1>2 DEF Summed, ControlRegister
<1>a. SixFields(x, c.RE, c.WE, c.RI, c.WI, c.AC, c.WSPACE)
  BY <1>3, Extracted
<1>4. /\ (x \div 1) % 2 = c.RE /\ (x \div 2) % 2 = c.WE /\ (x \div 256) % 2 = c.RI
      /\ (x \div 512) % 2 = c.WI /\ (x \div 1024) % 2 = c.AC
      /\ (x \div Bit16) % Bit16 = c.WSPACE
  BY <1>a DEF SixFields
<1>5. Extract(x, "RE") = c.RE
  BY <1>4, Weighed DEF Extract
<1>6. Extract(x, "WE") = c.WE
  BY <1>4, Weighed DEF Extract
<1>7. Extract(x, "RI") = c.RI
  BY <1>4, Weighed DEF Extract
<1>8. Extract(x, "WI") = c.WI
  BY <1>4, Weighed DEF Extract
<1>9. Extract(x, "AC") = c.AC
  BY <1>4, Weighed DEF Extract
<1>10. Extract(x, "WSPACE") = c.WSPACE
  BY <1>4, Weighed DEF Extract
<1>. QED
  BY <1>5, <1>6, <1>7, <1>8, <1>9, <1>10

\* A field is a small word: it is printed without a sign.
LEMMA SmallIs ==
  ASSUME NEW v \in Nat, v < 8 \/ v < Word \div 2
  PROVE  v \in 0 .. Word - 1 /\ SignedOf(v) = v
<1>1. v < Word \div 2 /\ Word \div 2 <= Word
  BY WordIsBig
<1>. QED
  BY <1>1, WordIsBig DEF SignedOf

\* The difference of the two indices, as a word.
LEMMA DifferenceIs ==
  ASSUME NEW i \in 0 .. TxBufLen - 1, NEW o \in 0 .. TxBufLen - 1
  PROVE  /\ (o - i) % Word \in 0 .. Word - 1
         /\ SignedOf((o - i) % Word) = o - i
         /\ (SignedOf((o - i) % Word) + (i - o)) % TxBufLen = 0
<1>. DEFINE d == o - i
            v == d % Word
            h == Word \div 2
<1>1. TxBufLen \in Nat \ {0} /\ TxBufLen <= h
  BY PrintingAssumption, ReportAssumption
<1>2. Word \in Nat \ {0} /\ h \in Nat /\ 2 * h <= Word
  BY WordIsBig
<1>3. d \in Int /\ d < h /\ -h < d /\ d + (i - o) = 0
  BY <1>1, <1>2
<1>4. CASE d >= 0
  <2>1. d = 0 * Word + d /\ 0 \in Int /\ d \in 0 .. Word - 1
    BY <1>2, <1>3, <1>4
  <2>. HIDE DEF d
  <2>2. v = d
    BY <1>2, <2>1
  <2>. QED
    BY <1>1, <1>2, <1>3, <1>4, <2>1, <2>2 DEF SignedOf, d
<1>5. CASE ~(d >= 0)
  <2>1. d = (-1) * Word + (d + Word) /\ d + Word \in 0 .. Word - 1 /\ d + Word >= h
    BY <1>2, <1>3, <1>5
  <2>. HIDE DEF d
  <2>2. v = d + Word
    BY <1>2, <2>1
  <2>. QED
    BY <1>1, <1>2, <1>3, <1>5, <2>1, <2>2 DEF SignedOf, d
<1>. QED
  BY <1>4, <1>5

-----------------------------------------------------------------------------
(* Printing: a report shows the register *)

LEMMA StatusIs ==
  ASSUME NEW c \in Controls, NEW i, NEW o, NEW h
  PROVE  StatusText(h, ControlRegister(c), i, o)
           = Report(h, (o - i) % Word, c.WSPACE, c.AC, c.WI, c.RI, c.WE, c.RE)
<1>. DEFINE x == ControlRegister(c)
            d == (o - i) % Word
<1>1. /\ Extract(x, "RE") = c.RE /\ Extract(x, "WE") = c.WE /\ Extract(x, "RI") = c.RI
      /\ Extract(x, "WI") = c.WI /\ Extract(x, "AC") = c.AC
      /\ Extract(x, "WSPACE") = c.WSPACE
  BY Extracts
<1>. HIDE DEF x
<1>2. StatusText(h, x, i, o)
        = Report(h, d, Extract(x, "WSPACE"), Extract(x, "AC"), Extract(x, "WI"),
                 Extract(x, "RI"), Extract(x, "WE"), Extract(x, "RE"))
  BY ReportIs, Zenon DEF StatusText
<1>. HIDE DEF d
<1>3. StatusText(h, x, i, o) = Report(h, d, c.WSPACE, c.AC, c.WI, c.RI, c.WE, c.RE)
  BY <1>1, <1>2
<1>. QED
  BY <1>3 DEF x, d

\* What is behind a label is what was printed there.
LEMMA ReadsBehind ==
  ASSUME NEW l, NEW m, NEW v \in 0 .. Word - 1, printed' \in Seq(Chars),
         CutAt(printed', l, m, v)
  PROVE  Reported(l, m)' = SignedOf(v)
<1>. DEFINE t == DecText(v)
<1>1. t \in Seq(Chars) /\ ReadSigned(t) = SignedOf(v)
  BY DecTextIs
<1>2. Cut(printed', l, m, t)
  BY DEF CutAt
<1>. HIDE DEF t
<1>3. Reported(l, m)' = ReadSigned(t)
  BY <1>1, <1>2, ReportedIs, Zenon
<1>. QED
  BY <1>1, <1>3

LEMMA StatusJob ==
  ASSUME NEW c, NEW i, NEW o, NEW j,
         j = [call |-> "status", control |-> c, in |-> i, out |-> o]
  PROVE  j.call = "status" /\ j.control = c /\ j.in = i /\ j.out = o
OBVIOUS

LEMMA ReportsShow ==
  ASSUME NEW c \in Controls, NEW i \in 0 .. TxBufLen - 1, NEW o \in 0 .. TxBufLen - 1,
         NEW h \in Headers, Reports(c, i, o, h)
  PROVE  job'.call = "status" /\ ReportsRight'
<1>. DEFINE d == (o - i) % Word
<1>1. job'.call = "status" /\ job'.control = c /\ job'.in = i /\ job'.out = o
  BY StatusJob DEF Reports
<1>2. printed' = Report(h, d, c.WSPACE, c.AC, c.WI, c.RI, c.WE, c.RE)
  BY StatusIs, Zenon DEF Reports
<1>3. /\ d \in 0 .. Word - 1 /\ (SignedOf(d) + (i - o)) % TxBufLen = 0
  BY DifferenceIs
<1>. HIDE DEF d
<1>4. /\ c.RE \in 0 .. Word - 1 /\ SignedOf(c.RE) = c.RE
      /\ c.WE \in 0 .. Word - 1 /\ SignedOf(c.WE) = c.WE
      /\ c.RI \in 0 .. Word - 1 /\ SignedOf(c.RI) = c.RI
      /\ c.WI \in 0 .. Word - 1 /\ SignedOf(c.WI) = c.WI
      /\ c.AC \in 0 .. Word - 1 /\ SignedOf(c.AC) = c.AC
      /\ c.WSPACE \in 0 .. Word - 1 /\ SignedOf(c.WSPACE) = c.WSPACE
  <2>1. /\ c.RE \in Nat /\ c.RE < 8 /\ c.WE \in Nat /\ c.WE < 8
        /\ c.RI \in Nat /\ c.RI < 8 /\ c.WI \in Nat /\ c.WI < 8
        /\ c.AC \in Nat /\ c.AC < 8 /\ c.WSPACE \in Nat /\ c.WSPACE < Word \div 2
    BY ControlIs, Bit16Is
  <2>. QED
    BY <2>1, SmallIs
<1>5. /\ printed' \in Seq(Chars)
      /\ CutAt(printed', " SW CirBuf = ", ", HW FIFO wspace=", d)
      /\ CutAt(printed', ", HW FIFO wspace=", " AC=", c.WSPACE)
      /\ CutAt(printed', " AC=", " WI=", c.AC) /\ CutAt(printed', " WI=", " RI=", c.WI)
      /\ CutAt(printed', " RI=", " WE=", c.RI) /\ CutAt(printed', " WE=", " RE=", c.WE)
      /\ CutAt(printed', " RE=", "\r", c.RE)
  <2>. DEFINE w == c.WSPACE
              ac == c.AC
              wi == c.WI
              ri == c.RI
              we == c.WE
              re == c.RE
              text == Report(h, d, w, ac, wi, ri, we, re)
  <2>1. /\ w \in 0 .. Word - 1 /\ ac \in 0 .. Word - 1 /\ wi \in 0 .. Word - 1
        /\ ri \in 0 .. Word - 1 /\ we \in 0 .. Word - 1 /\ re \in 0 .. Word - 1
    BY <1>4
  <2>2. text = Report(h, d, w, ac, wi, ri, we, re) /\ printed' = text
    BY <1>2
  <2>. HIDE DEF w, ac, wi, ri, we, re
  <2>. HIDE DEF text
  <2>3. ReportCuts(text, d, w, ac, wi, ri, we, re)
    <3>1. ReportOf(text, h, d, w, ac, wi, ri, we, re)
      BY <1>3, <2>1, <2>2, Zenon DEF ReportOf
    <3>. QED
      BY <3>1, ReportReads, Zenon
  <2>. QED
    BY <2>2, <2>3, Zenon DEF ReportCuts, w, ac, wi, ri, we, re
<1>6. Reported(" SW CirBuf = ", ", HW FIFO wspace=")' = SignedOf(d)
  BY <1>3, <1>5, ReadsBehind
<1>7. Reported(", HW FIFO wspace=", " AC=")' = c.WSPACE
  BY <1>4, <1>5, ReadsBehind
<1>8. Reported(" AC=", " WI=")' = c.AC
  BY <1>4, <1>5, ReadsBehind
<1>9. Reported(" WI=", " RI=")' = c.WI
  BY <1>4, <1>5, ReadsBehind
<1>10. Reported(" RI=", " WE=")' = c.RI
  BY <1>4, <1>5, ReadsBehind
<1>11. Reported(" WE=", " RE=")' = c.WE
  BY <1>4, <1>5, ReadsBehind
<1>12. Reported(" RE=", "\r")' = c.RE
  BY <1>4, <1>5, ReadsBehind
<1>. QED
  BY <1>1, <1>3, <1>6, <1>7, <1>8, <1>9, <1>10, <1>11, <1>12 DEF ReportsRight

-----------------------------------------------------------------------------
(* Printing: what is printed is right *)

FieldRight == job.call \in {"alt_printf", "log"} => PrintsField
StatusRight == job.call = "status" => ReportsRight
EchoRight == job.call = "echo" => EchoShows(printed, job.arg)

\* What PrintsRight says of the last text.
PrintInv == FieldRight /\ StatusRight /\ EchoRight

LEMMA PrintBegins ==
  ASSUME PrintInit
  PROVE  PrintInv
<1>1. job.call = "none"
  BY DEF PrintInit, NoJob
<1>. QED
  BY <1>1 DEF PrintInv, FieldRight, StatusRight, EchoRight

LEMMA FieldPrinted ==
  ASSUME PrintInv, NEW call \in {"alt_printf", "log"}, NEW c, NEW zero, NEW width, NEW arg,
         NEW text, Prints(call, c, zero, width, arg, text), PrintsField'
  PROVE  PrintInv'
<1>1. job' = Job(call, c, zero, width, arg)
  BY DEF Prints, Job
<1>2. job'.call = call
  BY <1>1, JobIs
<1>3. job'.call # "status" /\ job'.call # "echo"
  BY <1>2
<1>. QED
  BY <1>3 DEF PrintInv, FieldRight, StatusRight, EchoRight

LEMMA EchoJob ==
  ASSUME NEW text, NEW j, j = [call |-> "echo", arg |-> text]
  PROVE  j.call = "echo" /\ j.arg = text
OBVIOUS

LEMMA Echoed ==
  ASSUME PrintInv, NEW text \in Texts, Echoes(text)
  PROVE  PrintInv'
<1>1. job'.call = "echo" /\ job'.arg = text
  BY EchoJob DEF Echoes
<1>2. EchoShows(printed', text)
  BY EchoTextShows DEF Echoes
<1>3. EchoRight'
  BY <1>1, <1>2 DEF EchoRight
<1>. QED
  BY <1>1, <1>3 DEF PrintInv, FieldRight, StatusRight

LEMMA Beaten ==
  ASSUME PrintInv, Heartbeat
  PROVE  PrintInv'
<1>1. job' = NoJob
  BY DEF Heartbeat
<1>2. job'.call = "none"
  BY <1>1 DEF NoJob
<1>. QED
  BY <1>2 DEF PrintInv, FieldRight, StatusRight, EchoRight

LEMMA Reported2 ==
  ASSUME PrintInv, NEW c \in Controls, NEW i \in 0 .. TxBufLen - 1, NEW o \in 0 .. TxBufLen - 1,
         NEW h \in Headers, Reports(c, i, o, h)
  PROVE  PrintInv'
<1>1. job'.call = "status" /\ ReportsRight'
  BY ReportsShow
<1>. QED
  BY <1>1 DEF PrintInv, FieldRight, StatusRight, EchoRight

LEMMA TextPrinted ==
  ASSUME PrintInv, NEW width \in Widths, NEW s \in Seq(Chars), PrintsText(width, s)
  PROVE  PrintInv'
<1>1. PrintsField'
  BY PrintsTextShows
<1>2. CASE Prints("alt_printf", "s", FALSE, 0, s, alt_printf(Format("s", FALSE, 0), <<s>>))
  <2>. DEFINE call == "alt_printf"
              conversion == "s"
              text == alt_printf(Format("s", FALSE, 0), <<s>>)
  <2>1. call \in {"alt_printf", "log"} /\ Prints(call, conversion, FALSE, 0, s, text)
    BY <1>2
  <2>. HIDE DEF call, conversion, text
  <2>. QED
    BY <1>1, <2>1, FieldPrinted
<1>3. CASE Prints("log", "s", FALSE, width, s,
                  alt_log_printf_proc(Format("s", FALSE, width), <<s>>))
  <2>. DEFINE call == "log"
              conversion == "s"
              text == alt_log_printf_proc(Format("s", FALSE, width), <<s>>)
  <2>1. call \in {"alt_printf", "log"} /\ Prints(call, conversion, FALSE, width, s, text)
    BY <1>3
  <2>. HIDE DEF call, conversion, text
  <2>. QED
    BY <1>1, <2>1, FieldPrinted
<1>. QED
  BY <1>2, <1>3 DEF PrintsText

LEMMA TwoPrinted ==
  ASSUME PrintInv, NEW v \in Values, NEW s \in Seq(Chars), PrintsTwo(v, s)
  PROVE  PrintInv'
<1>1. PrintsField'
  BY PrintsTwoShows
<1>. DEFINE fmt == <<"%", "x", "%", "%", "%", "s">>
            args == <<v, s>>
<1>2. CASE Prints("alt_printf", "two", FALSE, 0, args, alt_printf(fmt, args))
  <2>. DEFINE call == "alt_printf"
              conversion == "two"
  <2>1. call \in {"alt_printf", "log"}
        /\ Prints(call, conversion, FALSE, 0, args, alt_printf(fmt, args))
    BY <1>2
  <2>. HIDE DEF call, conversion, fmt, args
  <2>. QED
    BY <1>1, <2>1, FieldPrinted
<1>3. CASE Prints("log", "two", FALSE, 0, args, alt_log_printf_proc(fmt, args))
  <2>. DEFINE call == "log"
              conversion == "two"
  <2>1. call \in {"alt_printf", "log"}
        /\ Prints(call, conversion, FALSE, 0, args, alt_log_printf_proc(fmt, args))
    BY <1>3
  <2>. HIDE DEF call, conversion, fmt, args
  <2>. QED
    BY <1>1, <2>1, FieldPrinted
<1>. QED
  BY <1>2, <1>3, Zenon DEF PrintsTwo

LEMMA HexPrinted ==
  ASSUME PrintInv, NEW v \in Values, NEW semihosting \in BOOLEAN, PrintsHex(v, semihosting)
  PROVE  PrintInv'
<1>1. PrintsField'
  BY PrintsHexShows
<1>. DEFINE call == "alt_printf"
            conversion == "x"
            text == Written(alt_printf(Format("x", FALSE, 0), <<v>>), semihosting)
<1>2. call \in {"alt_printf", "log"} /\ Prints(call, conversion, FALSE, 0, v, text)
  BY DEF PrintsHex
<1>. HIDE DEF call, conversion, text
<1>. QED
  BY <1>1, <1>2, FieldPrinted

LEMMA NumberPrinted ==
  ASSUME PrintInv, NEW c \in Conversions, NEW zero \in BOOLEAN, NEW width \in Widths,
         NEW v \in Values, PrintsNumber(c, zero, width, v)
  PROVE  PrintInv'
<1>1. PrintsField'
  BY PrintsNumberShows
<1>. DEFINE call == "log"
            text == alt_log_printf_proc(Format(c, zero, width), <<v>>)
<1>2. call \in {"alt_printf", "log"} /\ Prints(call, c, zero, width, v, text)
  BY DEF PrintsNumber
<1>. HIDE DEF call, text
<1>. QED
  BY <1>1, <1>2, FieldPrinted

LEMMA LettersUsed == "a" \in Chars /\ "b" \in Chars
<1>1. Digits \in Alphabets
  BY DEF Alphabets
<1>2. 10 \in 0 .. 15 /\ 11 \in 0 .. 15
  OBVIOUS
<1>3. Digits[10 + 1] \in Chars /\ Digits[11 + 1] \in Chars
  BY <1>1, <1>2, LettersAre, Zenon
<1>4. Digits[10 + 1] = "a" /\ Digits[11 + 1] = "b"
  BY DEF Digits
<1>. QED
  BY <1>3, <1>4, Zenon

LEMMA SampleTexts ==
  ASSUME NEW s \in {<<>>, <<"a">>, <<"a", "%", "x">>}
  PROVE  s \in Seq(Chars)
<1>1. "a" \in Chars
  BY LettersUsed
<1>2. "%" \in Chars /\ "x" \in Chars
  BY DEF Chars
<1>3. <<>> \in Seq(Chars) /\ <<"a">> \in Seq(Chars) /\ <<"a", "%", "x">> \in Seq(Chars)
  BY <1>1, <1>2
<1>. QED
  BY <1>3

LEMMA PrintSteps ==
  ASSUME PrintInv, PrintNext
  PROVE  PrintInv'
<1>1. ASSUME NEW v \in Values, NEW semihosting \in BOOLEAN, PrintsHex(v, semihosting)
      PROVE  PrintInv'
  BY <1>1, HexPrinted
<1>2. ASSUME NEW c \in Conversions, NEW zero \in BOOLEAN, NEW width \in Widths,
             NEW v \in Values, PrintsNumber(c, zero, width, v)
      PROVE  PrintInv'
  BY <1>2, NumberPrinted
<1>3. ASSUME NEW width \in Widths, NEW s \in {<<>>, <<"a">>, <<"a", "%", "x">>},
             PrintsText(width, s)
      PROVE  PrintInv'
  <2>1. s \in Seq(Chars)
    BY SampleTexts
  <2>. QED
    BY <1>3, <2>1, TextPrinted
<1>4. ASSUME NEW v \in Values, PrintsTwo(v, <<"b">>)
      PROVE  PrintInv'
  <2>. DEFINE s == <<"b">>
  <2>1. "b" \in Chars
    BY LettersUsed
  <2>2. s \in Seq(Chars) /\ PrintsTwo(v, s)
    BY <1>4, <2>1
  <2>. HIDE DEF s
  <2>. QED
    BY <2>2, TwoPrinted
<1>5. ASSUME NEW text \in Texts, Echoes(text) PROVE PrintInv'
  BY <1>5, Echoed
<1>6. CASE Heartbeat
  BY <1>6, Beaten
<1>7. ASSUME NEW c \in Controls, NEW i \in 0 .. TxBufLen - 1, NEW o \in 0 .. TxBufLen - 1,
             NEW h \in Headers, Reports(c, i, o, h)
      PROVE  PrintInv'
  BY <1>7, Reported2
<1>8. /\ "JTAG Startup Info:" \in Headers /\ "JTAG Alarm:" \in Headers
      /\ "JTAG IRQ:" \in Headers
  BY DEF Headers
<1>9. 0 \in 0 .. TxBufLen - 1
  BY PrintingAssumption
<1>10. ASSUME NEW c \in Controls, alt_log_jtag_uart_startup_info(c) PROVE PrintInv'
  <2>1. Reports(c, 0, 0, "JTAG Startup Info:")
    BY <1>10 DEF alt_log_jtag_uart_startup_info
  <2>. QED
    BY <1>7, <1>8, <1>9, <2>1
<1>11. ASSUME NEW c \in Controls, NEW i \in 0 .. TxBufLen - 1, NEW o \in 0 .. TxBufLen - 1,
              \/ altera_avalon_jtag_uart_report_log(c, i, o)
              \/ alt_log_jtag_uart_isr_proc(c, i, o)
       PROVE  PrintInv'
  <2>1. Reports(c, i, o, "JTAG Alarm:") \/ Reports(c, i, o, "JTAG IRQ:")
    BY <1>11 DEF altera_avalon_jtag_uart_report_log, alt_log_jtag_uart_isr_proc
  <2>. QED
    BY <1>7, <1>8, <2>1
<1>. QED
  BY <1>1, <1>2, <1>3, <1>4, <1>5, <1>6, <1>10, <1>11, Zenon DEF PrintNext

LEMMA PrintStutters ==
  ASSUME PrintInv, UNCHANGED printVars
  PROVE  PrintInv'
<1>1. job' = job /\ printed' = printed
  BY DEF printVars
<1>3. PrintsField' = PrintsField
  BY <1>1, Zenon DEF PrintsField, Field
<1>4. ReportsRight' = ReportsRight
  BY <1>1, Zenon DEF ReportsRight, Reported
<1>5. FieldRight' /\ StatusRight' /\ EchoRight'
  BY <1>1, <1>3, <1>4, Zenon DEF PrintInv, FieldRight, StatusRight, EchoRight
<1>. QED
  BY <1>5 DEF PrintInv

LEMMA RightlyPrinted ==
  ASSUME PrintInv
  PROVE  PrintsRight
<1>1. job.call \in {"alt_printf", "log"} => PrintsField
  BY DEF PrintInv, FieldRight
<1>2. job.call = "status" => ReportsRight
  BY DEF PrintInv, StatusRight
<1>3. job.call = "echo" =>
        /\ Len(printed) <= EchoLen + 1
        /\ \A i \in DOMAIN printed :
             /\ printed[i] \notin {CtrlD, NUL}
             /\ printed[i] \in {"\n", "\r"} \/ printed[i] = job.arg[i]
                \/ (printed[i] = "D" /\ job.arg[i] = CtrlD)
  BY Zenon DEF PrintInv, EchoRight, EchoShows
<1>. QED
  BY <1>1, <1>2, <1>3, Zenon DEF PrintsRight

-----------------------------------------------------------------------------
(* Theorems *)

\* Whenever handlers make calls, every call that returned is on a list and counted
\* there, in one copy of its arc or another, but for a count that the thread stored
\* over; no function is listed without an arc; the alarm is started once if no
\* handler overtook the thread as it claimed the start; and a sample lands in the
\* histogram or just past it.
THEOREM ProfilingInvariance == Spec => []ProfileInv
<1>1. Init => GmonInv
  BY ProfileStarts, Zenon DEF Init
<1>2. GmonInv /\ [Next]_libraryVars => GmonInv'
  BY ReportSteps, ListsStep, AlarmStep, SamplesStep DEF GmonInv, ListsInv
<1>. QED
  BY <1>1, <1>2, GmonPromises, PTL DEF Spec

\* A text reads back to what was to be printed: the number, whatever its size,
\* base, padding and sign, and the state of the register; an echo fits its buffer
\* and shows characters of what was written at their places, without those that
\* would end the connection.
THEOREM PrintingInvariance == Spec => []PrintsRight
<1>1. Init => PrintInv
  BY PrintBegins, Zenon DEF Init
<1>2. PrintInv /\ [Next]_libraryVars => PrintInv'
  BY ReportSteps, PrintSteps, PrintStutters
<1>3. PrintInv => PrintsRight
  BY RightlyPrinted
<1>. QED
  BY <1>1, <1>2, <1>3, PTL DEF Spec

\* The texts that are printed read back to what was passed, and the profile counts
\* the calls that were made, but for the counts that were stored over.
THEOREM ReportInvariance == Spec => []ReportInv
<1>1. PrintsRight /\ ProfileInv => ReportInv
  BY DEF ReportInv
<1>. QED
  BY <1>1, PrintingInvariance, ProfilingInvariance, PTL
=============================================================================
