------------------------------ MODULE SumFacts ------------------------------
(***************************************************************************)
(* What the proofs need to know of sums over finite sets.                  *)
(*                                                                         *)
(* SumFunctionOnSet (community module Functions) takes an element of the   *)
(* set by CHOOSE and goes on with the rest.  Induction over finite sets is *)
(* used in the form of a smallest counterexample, which the well-founded   *)
(* order of inclusion provides: that the recursion defines a function,     *)
(* that the element taken first makes no difference, and the arithmetic.   *)
(***************************************************************************)
EXTENDS FiniteSetsExt, FiniteSetTheorems, WellFoundedInduction, TLAPS

Sum(f, S) == SumFunctionOnSet(f, S)

(* A nonempty family of subsets of a finite set has a smallest member. *)
LEMMA Smallest ==
    ASSUME NEW S, IsFiniteSet(S), NEW F, F \subseteq SUBSET S, F # {}
    PROVE  \E A \in F : \A B \in F : B \subseteq A => B = A
<1>1. IsWellFoundedOn(StrictSubsetOrdering(S), SUBSET S)
  BY FS_StrictSubsetOrderingWellFounded, FS_FiniteSubsetsOfFinite
<1>2. PICK A \in F : \A B \in F : <<B, A>> \notin StrictSubsetOrdering(S)
  BY <1>1, WFMin
<1>3. \A B \in F : B \subseteq A => B = A
  BY <1>2 DEF StrictSubsetOrdering
<1> QED
  BY <1>3

(* Induction: a family that has the empty set and grows by elements has    *)
(* the whole set.                                                          *)
LEMMA SetInduction ==
    ASSUME NEW S, IsFiniteSet(S), NEW P,
           {} \in P,
           \A A \in SUBSET S : \A x \in S \ A : A \in P => A \cup {x} \in P
    PROVE  S \in P
<1> DEFINE F == {A \in SUBSET S : A \notin P}
<1> SUFFICES ASSUME F # {} PROVE FALSE
  OBVIOUS
<1>0. F \subseteq SUBSET S
  OBVIOUS
<1>1. PICK A \in F : \A B \in F : B \subseteq A => B = A
  <2> HIDE DEF F
  <2> QED BY <1>0, Smallest
<1>2. PICK x \in A : TRUE
  BY <1>1
<1>3. A \ {x} \in P
  BY <1>1, <1>2
<1>4. (A \ {x}) \cup {x} = A /\ x \in S \ (A \ {x}) /\ A \ {x} \in SUBSET S
  BY <1>0, <1>2
<1>5. A \notin P
  OBVIOUS
<1> HIDE DEF F
<1> QED
  BY <1>3, <1>4, <1>5

-----------------------------------------------------------------------------
(* The recursion. *)

Taken(s) == CHOOSE x \in s : TRUE

IsSum(g, f, S) ==
    g = [s \in SUBSET S |-> IF s = {} THEN 0 ELSE f[Taken(s)] + g[s \ {Taken(s)}]]

(* The element the recursion takes first is one of the set. *)
LEMMA TakenIn ==
    ASSUME NEW s, s # {}
    PROVE  Taken(s) \in s
  BY DEF Taken

(* Two functions that satisfy the recursion below S agree on S. *)
LEMMA Unique ==
    ASSUME NEW f, NEW S, IsFiniteSet(S), NEW T, NEW U, S \subseteq T, S \subseteq U,
           NEW g, IsSum(g, f, T), NEW h, IsSum(h, f, U)
    PROVE  g[S] = h[S]
<1> DEFINE F == {A \in SUBSET S : g[A] # h[A]}
<1> SUFFICES ASSUME F # {} PROVE FALSE
  OBVIOUS
<1>0. F \subseteq SUBSET S
  OBVIOUS
<1>1. PICK A \in F : \A B \in F : B \subseteq A => B = A
  <2> HIDE DEF F
  <2> QED BY <1>0, Smallest
<1> DEFINE x == Taken(A)
<1>2. A \in SUBSET T /\ A \in SUBSET U /\ A \ {x} \in SUBSET S
  BY <1>1
<1>3. g[A] = IF A = {} THEN 0 ELSE f[x] + g[A \ {x}]
  BY <1>2 DEF IsSum
<1>4. h[A] = IF A = {} THEN 0 ELSE f[x] + h[A \ {x}]
  BY <1>2 DEF IsSum
<1>5. A # {} => x \in A
  BY TakenIn
<1>6. A # {} => g[A \ {x}] = h[A \ {x}]
  BY <1>1, <1>2, <1>5
<1> QED
  BY <1>1, <1>3, <1>4, <1>6

(* For every finite set there is a function that satisfies the recursion   *)
(* below it.                                                               *)
LEMMA Exists ==
    ASSUME NEW f, NEW S, IsFiniteSet(S)
    PROVE  \E g : IsSum(g, f, S)
<1> DEFINE F == {A \in SUBSET S : ~ \E g : IsSum(g, f, A)}
<1> SUFFICES ASSUME F # {} PROVE FALSE
  OBVIOUS
<1>0. F \subseteq SUBSET S
  OBVIOUS
<1>1. PICK A \in F : \A B \in F : B \subseteq A => B = A
  <2> HIDE DEF F
  <2> QED BY <1>0, Smallest
<1> DEFINE sub(s) == CHOOSE g : IsSum(g, f, s)
           low == [s \in SUBSET A |-> IF s = A THEN 0 ELSE sub(s)[s]]
           top == [s \in SUBSET A |->
                     IF s = {} THEN 0 ELSE f[Taken(s)] + low[s \ {Taken(s)}]]
<1>2. ASSUME NEW s \in SUBSET A, s # A PROVE IsSum(sub(s), f, s)
  BY <1>1, <1>2
<1>3. ASSUME NEW s \in SUBSET A, s # A PROVE low[s] = top[s]
  <2>1. CASE s = {}
    <3>0. IsSum(sub(s), f, s)
      BY <1>2, <1>3
    <3>1. sub(s)[s] = 0
      <4> HIDE DEF sub
      <4> QED BY <2>1, <3>0 DEF IsSum
    <3> HIDE DEF sub
    <3> QED
      BY <1>3, <2>1, <3>1
  <2>2. CASE s # {}
    <3> DEFINE x == Taken(s)
               r == s \ {x}
    <3>1. x \in s /\ r \in SUBSET A /\ r # A /\ r \in SUBSET s /\ s \in SUBSET s
      BY <1>3, <2>2, TakenIn
    <3>2. IsSum(sub(s), f, s) /\ IsSum(sub(r), f, r)
      BY <1>2, <1>3, <3>1
    <3>3. sub(s)[s] = f[x] + sub(s)[r]
      BY <2>2, <3>1, <3>2 DEF IsSum
    <3>4. IsFiniteSet(r)
      BY <1>1, <3>1, FS_Subset
    <3>5. sub(s)[r] = sub(r)[r]
      <4> HIDE DEF sub, r
      <4> QED BY <3>1, <3>2, <3>4, Unique
    <3> QED
      BY <1>3, <2>2, <3>1, <3>3, <3>5
  <2> QED
    BY <2>1, <2>2
<1>4. ASSUME NEW s \in SUBSET A, s # {}
      PROVE  s \ {Taken(s)} \in SUBSET A /\ s \ {Taken(s)} # A
  BY <1>4, TakenIn
<1>5. \A s \in SUBSET A :
        top[s] = IF s = {} THEN 0 ELSE f[Taken(s)] + top[s \ {Taken(s)}]
  <2> SUFFICES ASSUME NEW s \in SUBSET A
               PROVE  top[s] = IF s = {} THEN 0 ELSE f[Taken(s)] + top[s \ {Taken(s)}]
    OBVIOUS
  <2>1. s # {} => low[s \ {Taken(s)}] = top[s \ {Taken(s)}]
    <3> HIDE DEF low, top
    <3> QED BY <1>3, <1>4
  <2> HIDE DEF low
  <2> QED
    BY <2>1
<1>6. IsSum(top, f, A)
  <2>1. top = [s \in SUBSET A |-> top[s]]
    OBVIOUS
  <2> HIDE DEF top
  <2> QED
    BY <1>5, <2>1 DEF IsSum
<1> QED
  BY <1>1, <1>6

(* So the sum of the library is a value of such a function. *)
LEMMA Unfolds ==
    ASSUME NEW f, NEW S, IsFiniteSet(S)
    PROVE  \E g : IsSum(g, f, S) /\ Sum(f, S) = g[S]
<1>1. \E g : IsSum(g, f, S)
  BY Exists
<1> QED
  BY <1>1 DEF Sum, SumFunctionOnSet, FoldFunctionOnSet, MapThenFoldSet, IsSum, Taken

(* Nothing adds up to nothing. *)
LEMMA SumEmpty == ASSUME NEW f PROVE Sum(f, {}) = 0
<1>1. PICK g : IsSum(g, f, {}) /\ Sum(f, {}) = g[{}]
  BY Unfolds, FS_EmptySet
<1> QED
  BY <1>1 DEF IsSum

(* The sum by its recursion: the element taken first and the rest. *)
LEMMA SumTaken ==
    ASSUME NEW f, NEW S, IsFiniteSet(S), S # {}
    PROVE  Sum(f, S) = f[Taken(S)] + Sum(f, S \ {Taken(S)})
<1> DEFINE R == S \ {Taken(S)}
<1>1. IsFiniteSet(R)
  BY FS_Subset
<1>2. PICK g : IsSum(g, f, S) /\ Sum(f, S) = g[S]
  BY Unfolds
<1>3. PICK h : IsSum(h, f, R) /\ Sum(f, R) = h[R]
  BY <1>1, Unfolds
<1>4. g[R] = h[R]
  BY <1>1, <1>2, <1>3, Unique
<1>5. g[S] = f[Taken(S)] + g[R]
  BY <1>2 DEF IsSum
<1> QED
  BY <1>2, <1>3, <1>4, <1>5

-----------------------------------------------------------------------------
(* The arithmetic. *)

LEMMA SumType ==
    ASSUME NEW S, IsFiniteSet(S), NEW f, \A x \in S : f[x] \in Int
    PROVE  Sum(f, S) \in Int
<1> DEFINE F == {A \in SUBSET S : Sum(f, A) \notin Int}
<1> SUFFICES ASSUME F # {} PROVE FALSE
  OBVIOUS
<1>0. F \subseteq SUBSET S
  OBVIOUS
<1>1. PICK A \in F : \A B \in F : B \subseteq A => B = A
  <2> HIDE DEF F
  <2> QED BY <1>0, Smallest
<1>2. IsFiniteSet(A)
  BY <1>0, FS_Subset
<1>3. CASE A = {}
  BY <1>3, SumEmpty
<1>4. CASE A # {}
  <2>1. Taken(A) \in A
    BY <1>4, TakenIn
  <2>2. Sum(f, A) = f[Taken(A)] + Sum(f, A \ {Taken(A)})
    BY <1>2, <1>4, SumTaken
  <2>3. A \ {Taken(A)} \notin F
    BY <1>1, <2>1
  <2> QED
    BY <1>1, <2>1, <2>2, <2>3
<1> QED
  BY <1>3, <1>4

(* It makes no difference which element is taken out first. *)
LEMMA SumRemove ==
    ASSUME NEW S, IsFiniteSet(S), NEW f, \A y \in S : f[y] \in Int, NEW x \in S
    PROVE  Sum(f, S) = f[x] + Sum(f, S \ {x})
<1> DEFINE F == {A \in SUBSET S : ~ \A y \in A : Sum(f, A) = f[y] + Sum(f, A \ {y})}
<1> SUFFICES ASSUME F # {} PROVE FALSE
  OBVIOUS
<1>0. F \subseteq SUBSET S
  OBVIOUS
<1>1. PICK A \in F : \A B \in F : B \subseteq A => B = A
  <2> HIDE DEF F
  <2> QED BY <1>0, Smallest
<1>2. PICK y \in A : Sum(f, A) # f[y] + Sum(f, A \ {y})
  BY <1>1
<1> DEFINE t == Taken(A)
           R == A \ {t}
           Q == A \ {y}
           V == (A \ {t}) \ {y}
<1>3. t \in A /\ A \subseteq S
  BY <1>0, TakenIn
<1>4. IsFiniteSet(A) /\ IsFiniteSet(R) /\ IsFiniteSet(Q) /\ IsFiniteSet(V)
  BY <1>3, FS_Subset
<1>5. Sum(f, A) = f[t] + Sum(f, R)
  BY <1>2, <1>4, SumTaken
<1>6. y # t
  BY <1>2, <1>5
<1>7. R \notin F /\ Q \notin F /\ R \in SUBSET S /\ Q \in SUBSET S
  BY <1>1, <1>2, <1>3
<1>8. Sum(f, R) = f[y] + Sum(f, V)
  BY <1>2, <1>6, <1>7
<1>9. V = Q \ {t} /\ t \in Q
  BY <1>2, <1>3, <1>6
<1>10. Sum(f, Q) = f[t] + Sum(f, V)
  BY <1>7, <1>9
<1>11. Sum(f, V) \in Int /\ f[t] \in Int /\ f[y] \in Int
  BY <1>2, <1>3, <1>4, SumType
<1> QED
  BY <1>2, <1>5, <1>8, <1>10, <1>11

(* One element more adds its value. *)
LEMMA SumAdd ==
    ASSUME NEW S, IsFiniteSet(S), NEW x, x \notin S, NEW f,
           \A y \in S \cup {x} : f[y] \in Int
    PROVE  Sum(f, S \cup {x}) = f[x] + Sum(f, S)
<1>1. IsFiniteSet(S \cup {x})
  BY FS_AddElement
<1>2. (S \cup {x}) \ {x} = S
  OBVIOUS
<1> QED
  BY <1>1, <1>2, SumRemove

(* A sum is determined by the values on the set. *)
LEMMA SumSame ==
    ASSUME NEW S, IsFiniteSet(S), NEW f, NEW h,
           \A x \in S : f[x] \in Int /\ h[x] = f[x]
    PROVE  Sum(h, S) = Sum(f, S)
<1> DEFINE P == {A \in SUBSET S : Sum(h, A) = Sum(f, A)}
<1>1. {} \in P
  BY SumEmpty
<1>2. ASSUME NEW A \in SUBSET S, NEW x \in S \ A, A \in P PROVE A \cup {x} \in P
  <2>1. IsFiniteSet(A)
    BY FS_Subset
  <2>2. Sum(h, A \cup {x}) = h[x] + Sum(h, A)
    BY <2>1, SumAdd
  <2>3. Sum(f, A \cup {x}) = f[x] + Sum(f, A)
    BY <2>1, SumAdd
  <2> QED
    BY <1>2, <2>2, <2>3
<1>3. S \in P
  <2> HIDE DEF P
  <2> QED BY <1>1, <1>2, SetInduction
<1> QED
  BY <1>3

(* One value changes. *)
LEMMA SumChange ==
    ASSUME NEW S, IsFiniteSet(S), NEW x \in S, NEW f, NEW h,
           \A y \in S : f[y] \in Int /\ h[y] \in Int,
           \A y \in S \ {x} : h[y] = f[y]
    PROVE  Sum(h, S) = Sum(f, S) - f[x] + h[x]
<1>1. IsFiniteSet(S \ {x})
  BY FS_Subset
<1>2. Sum(h, S) = h[x] + Sum(h, S \ {x}) /\ Sum(f, S) = f[x] + Sum(f, S \ {x})
  BY SumRemove
<1>3. Sum(h, S \ {x}) = Sum(f, S \ {x})
  BY <1>1, SumSame
<1>4. Sum(f, S \ {x}) \in Int
  BY <1>1, SumType
<1> QED
  BY <1>2, <1>3, <1>4

(* Two sums over the same set add up value by value. *)
LEMMA SumPlus ==
    ASSUME NEW S, IsFiniteSet(S), NEW f, NEW g, NEW h,
           \A x \in S : f[x] \in Int /\ g[x] \in Int /\ h[x] = f[x] + g[x]
    PROVE  Sum(h, S) = Sum(f, S) + Sum(g, S)
<1> DEFINE P == {A \in SUBSET S : Sum(h, A) = Sum(f, A) + Sum(g, A)}
<1>1. {} \in P
  BY SumEmpty
<1>2. ASSUME NEW A \in SUBSET S, NEW x \in S \ A, A \in P PROVE A \cup {x} \in P
  <2>1. IsFiniteSet(A)
    BY FS_Subset
  <2>0. \A y \in A \cup {x} : f[y] \in Int /\ g[y] \in Int /\ h[y] \in Int
    OBVIOUS
  <2>2. /\ Sum(h, A \cup {x}) = h[x] + Sum(h, A)
        /\ Sum(f, A \cup {x}) = f[x] + Sum(f, A)
        /\ Sum(g, A \cup {x}) = g[x] + Sum(g, A)
    BY <2>0, <2>1, SumAdd
  <2>3. Sum(f, A) \in Int /\ Sum(g, A) \in Int
    BY <2>1, SumType
  <2>4. Sum(h, A) = Sum(f, A) + Sum(g, A)
    BY <1>2
  <2>5. h[x] = f[x] + g[x] /\ f[x] \in Int /\ g[x] \in Int
    OBVIOUS
  <2>6. Sum(h, A \cup {x}) = Sum(f, A \cup {x}) + Sum(g, A \cup {x})
    BY <2>2, <2>3, <2>4, <2>5
  <2> QED
    BY <2>6
<1>3. S \in P
  <2> HIDE DEF P
  <2> QED BY <1>1, <1>2, SetInduction
<1> QED
  BY <1>3

(* Zeros add up to zero. *)
LEMMA SumZero ==
    ASSUME NEW S, IsFiniteSet(S), NEW f, \A x \in S : f[x] = 0
    PROVE  Sum(f, S) = 0
<1> DEFINE P == {A \in SUBSET S : Sum(f, A) = 0}
<1>1. {} \in P
  BY SumEmpty
<1>2. ASSUME NEW A \in SUBSET S, NEW x \in S \ A, A \in P PROVE A \cup {x} \in P
  <2>1. IsFiniteSet(A)
    BY FS_Subset
  <2>0. \A y \in A \cup {x} : f[y] \in Int
    OBVIOUS
  <2>2. Sum(f, A \cup {x}) = f[x] + Sum(f, A)
    BY <2>0, <2>1, SumAdd
  <2> QED
    BY <1>2, <2>2
<1>3. S \in P
  <2> HIDE DEF P
  <2> QED BY <1>1, <1>2, SetInduction
<1> QED
  BY <1>3

(* A sum of natural numbers is a natural number. *)
LEMMA SumNat ==
    ASSUME NEW S, IsFiniteSet(S), NEW f, \A x \in S : f[x] \in Nat
    PROVE  Sum(f, S) \in Nat
<1> DEFINE P == {A \in SUBSET S : Sum(f, A) \in Nat}
<1>1. {} \in P
  BY SumEmpty
<1>2. ASSUME NEW A \in SUBSET S, NEW x \in S \ A, A \in P PROVE A \cup {x} \in P
  <2>1. IsFiniteSet(A)
    BY FS_Subset
  <2>0. \A y \in A \cup {x} : f[y] \in Int
    OBVIOUS
  <2>2. Sum(f, A \cup {x}) = f[x] + Sum(f, A)
    BY <2>0, <2>1, SumAdd
  <2> QED
    BY <1>2, <2>2
<1>3. S \in P
  <2> HIDE DEF P
  <2> QED BY <1>1, <1>2, SetInduction
<1> QED
  BY <1>3

(* The elements with value 0 can be left out. *)
LEMMA SumSupport ==
    ASSUME NEW S, IsFiniteSet(S), NEW T \in SUBSET S, NEW f,
           \A x \in S : f[x] \in Int, \A x \in S \ T : f[x] = 0
    PROVE  Sum(f, T) = Sum(f, S)
<1> DEFINE P == {A \in SUBSET (S \ T) : Sum(f, T) = Sum(f, T \cup A)}
<1>0. IsFiniteSet(S \ T) /\ IsFiniteSet(T)
  BY FS_Subset
<1>1. {} \in P
  <2>1. T \cup {} = T
    OBVIOUS
  <2> QED BY <2>1
<1>2. ASSUME NEW A \in SUBSET (S \ T), NEW x \in (S \ T) \ A, A \in P
      PROVE  A \cup {x} \in P
  <2>1. IsFiniteSet(T \cup A) /\ x \notin T \cup A /\ A \cup {x} \in SUBSET (S \ T)
    BY FS_Subset
  <2>0. T \cup (A \cup {x}) = (T \cup A) \cup {x} /\ \A y \in (T \cup A) \cup {x} : f[y] \in Int
    OBVIOUS
  <2>2. Sum(f, (T \cup A) \cup {x}) = f[x] + Sum(f, T \cup A)
    BY <2>0, <2>1, SumAdd
  <2>3. Sum(f, T \cup A) \in Int
    BY <2>1, SumType
  <2>4. f[x] = 0
    OBVIOUS
  <2>5. Sum(f, T) = Sum(f, T \cup A)
    BY <1>2
  <2>6. Sum(f, T) = Sum(f, (T \cup A) \cup {x})
    BY <2>2, <2>3, <2>4, <2>5
  <2> QED
    BY <2>0, <2>1, <2>6
<1>3. S \ T \in P
  <2> HIDE DEF P
  <2> QED BY <1>0, <1>1, <1>2, SetInduction
<1>4. T \cup (S \ T) = S
  OBVIOUS
<1> QED
  BY <1>3, <1>4

-----------------------------------------------------------------------------
(* Tables. *)

(* A table gets one more row. *)
LEMMA SumExtends ==
    ASSUME NEW S, IsFiniteSet(S), NEW k, k \notin S, NEW f, NEW h,
           \A x \in S : f[x] \in Int /\ h[x] = f[x], h[k] \in Int
    PROVE  Sum(h, S \cup {k}) = Sum(f, S) + h[k] /\ Sum(f, S) \in Int
<1>1. \A x \in S \cup {k} : h[x] \in Int
  OBVIOUS
<1>2. Sum(h, S \cup {k}) = h[k] + Sum(h, S)
  BY <1>1, SumAdd
<1>3. Sum(h, S) = Sum(f, S)
  BY SumSame
<1>4. Sum(f, S) \in Int
  BY SumType
<1> QED
  BY <1>2, <1>3, <1>4

(* One row of a table changes by u. *)
LEMMA SumShift ==
    ASSUME NEW S, IsFiniteSet(S), NEW a \in S, NEW u \in Int, NEW f, NEW h,
           \A x \in S : f[x] \in Int /\ h[x] = f[x] + (IF x = a THEN u ELSE 0)
    PROVE  Sum(h, S) = Sum(f, S) + u /\ Sum(f, S) \in Int
<1>1. \A x \in S : f[x] \in Int /\ h[x] \in Int
  OBVIOUS
<1>2. \A x \in S \ {a} : h[x] = f[x]
  OBVIOUS
<1>3. Sum(h, S) = Sum(f, S) - f[a] + h[a]
  BY <1>1, <1>2, SumChange
<1>4. Sum(f, S) \in Int /\ h[a] = f[a] + u /\ f[a] \in Int
  BY SumType
<1> QED
  BY <1>3, <1>4

(* A sum over part of a table is a sum over all of it with the other rows  *)
(* put to zero.                                                            *)
LEMMA SumWhere ==
    ASSUME NEW S, IsFiniteSet(S), NEW T \in SUBSET S, NEW f, NEW h,
           \A x \in T : f[x] \in Int /\ h[x] = f[x], \A x \in S \ T : h[x] = 0
    PROVE  Sum(f, T) = Sum(h, S)
<1>1. IsFiniteSet(T)
  BY FS_Subset
<1>2. Sum(h, T) = Sum(f, T)
  BY <1>1, SumSame
<1>3. \A x \in S : h[x] \in Int
  OBVIOUS
<1>4. Sum(h, T) = Sum(h, S)
  BY <1>3, SumSupport
<1> QED
  BY <1>2, <1>4

(* A common factor can be taken out. *)
LEMMA SumScale ==
    ASSUME NEW S, IsFiniteSet(S), NEW a \in Int, NEW f, NEW h,
           \A x \in S : f[x] \in Int /\ h[x] = a * f[x]
    PROVE  Sum(h, S) = a * Sum(f, S)
<1> DEFINE P == {A \in SUBSET S : Sum(h, A) = a * Sum(f, A)}
<1>0. \A x \in S : f[x] \in Int /\ h[x] \in Int
  OBVIOUS
<1>1. {} \in P
  BY SumEmpty
<1>2. ASSUME NEW A \in SUBSET S, NEW x \in S \ A, A \in P PROVE A \cup {x} \in P
  <2>1. IsFiniteSet(A)
    BY FS_Subset
  <2>2. Sum(h, A \cup {x}) = h[x] + Sum(h, A) /\ Sum(f, A \cup {x}) = f[x] + Sum(f, A)
    BY <1>0, <2>1, SumAdd
  <2>3. Sum(f, A) \in Int
    BY <1>0, <2>1, SumType
  <2>4. Sum(h, A) = a * Sum(f, A) /\ h[x] = a * f[x] /\ f[x] \in Int
    BY <1>2
  <2>5. a * (f[x] + Sum(f, A)) = a * f[x] + a * Sum(f, A)
    BY <2>3, <2>4
  <2>6. Sum(h, A \cup {x}) = a * Sum(f, A \cup {x})
    BY <2>2, <2>4, <2>5
  <2> QED
    BY <2>6
<1>3. S \in P
  <2> HIDE DEF P
  <2> QED BY <1>1, <1>2, SetInduction
<1> QED
  BY <1>3

(* Counting is a sum of ones. *)
LEMMA SumCount ==
    ASSUME NEW S, IsFiniteSet(S), NEW T \in SUBSET S, NEW f,
           \A x \in S : f[x] = IF x \in T THEN 1 ELSE 0
    PROVE  Sum(f, S) = Cardinality(T)
<1> DEFINE P == {A \in SUBSET S : Sum(f, A) = Cardinality(A \cap T)}
<1>0. \A x \in S : f[x] \in Int
  OBVIOUS
<1>1. {} \in P
  BY SumEmpty, FS_EmptySet, {} \cap T = {}
<1>2. ASSUME NEW A \in SUBSET S, NEW x \in S \ A, A \in P PROVE A \cup {x} \in P
  <2>1. IsFiniteSet(A) /\ IsFiniteSet(A \cap T)
    BY FS_Subset
  <2>2. Sum(f, A \cup {x}) = f[x] + Sum(f, A)
    BY <1>0, <2>1, SumAdd
  <2>3. Cardinality(A \cap T) \in Nat /\ Sum(f, A) = Cardinality(A \cap T)
    BY <1>2, <2>1, FS_CardinalityType
  <2>4. CASE x \in T
    <3>1. (A \cup {x}) \cap T = (A \cap T) \cup {x} /\ x \notin A \cap T /\ f[x] = 1
      BY <2>4
    <3>2. Cardinality((A \cap T) \cup {x}) = Cardinality(A \cap T) + 1
      BY <2>1, <3>1, FS_AddElement
    <3> QED
      BY <2>2, <2>3, <3>1, <3>2
  <2>5. CASE x \notin T
    <3>1. (A \cup {x}) \cap T = A \cap T /\ f[x] = 0
      BY <2>5
    <3> QED
      BY <2>2, <2>3, <3>1
  <2> QED
    BY <2>4, <2>5
<1>3. S \in P
  <2> HIDE DEF P
  <2> QED BY <1>1, <1>2, SetInduction
<1> QED
  BY <1>3, S \cap T = T

(* Values below m add up to less than m for each element.                  *)
LEMMA SumBelow ==
    ASSUME NEW S, IsFiniteSet(S), S # {}, NEW m \in Nat, NEW f, \A x \in S : f[x] \in 0 .. m - 1
    PROVE  Sum(f, S) \in Nat /\ Sum(f, S) < m * Cardinality(S)
<1> DEFINE P == {A \in SUBSET S : A # {} => Sum(f, A) < m * Cardinality(A)}
<1>0. \A x \in S : f[x] \in Nat /\ f[x] \in Int /\ f[x] < m
  OBVIOUS
<1>1. {} \in P
  OBVIOUS
<1>2. ASSUME NEW A \in SUBSET S, NEW x \in S \ A, A \in P PROVE A \cup {x} \in P
  <2>1. IsFiniteSet(A) /\ Cardinality(A) \in Nat /\ Cardinality(A \cup {x}) = Cardinality(A) + 1
    BY FS_Subset, FS_AddElement, FS_CardinalityType
  <2>2. Sum(f, A \cup {x}) = f[x] + Sum(f, A)
    BY <1>0, <2>1, SumAdd
  <2>3. Sum(f, A) \in Nat
    BY <1>0, <2>1, SumNat
  <2>4. f[x] \in Nat /\ f[x] < m
    BY <1>0
  <2>5. Sum(f, A) <= m * Cardinality(A)
    <3>1. CASE A = {}
      BY <2>1, <3>1, SumEmpty, FS_EmptySet
    <3>2. CASE A # {}
      <4>1. m * Cardinality(A) \in Nat
        BY <2>1
      <4> QED
        BY <1>2, <2>3, <3>2, <4>1
    <3> QED
      BY <3>1, <3>2
  <2>6. m * (Cardinality(A) + 1) = m * Cardinality(A) + m /\ m * Cardinality(A) \in Nat
    BY <2>1
  <2>7. Sum(f, A \cup {x}) < m * Cardinality(A \cup {x})
    BY <2>1, <2>2, <2>3, <2>4, <2>5, <2>6
  <2> QED
    BY <2>7
<1>3. S \in P
  <2> HIDE DEF P
  <2> QED BY <1>1, <1>2, SetInduction
<1> QED
  BY <1>0, <1>3, SumNat
=============================================================================
