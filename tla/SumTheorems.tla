---------------------------- MODULE SumTheorems ----------------------------
(***************************************************************************)
(* Sums of the values of a function over a finite set, as MapThenSumSet of *)
(* the community modules computes them: what the proofs about quantities   *)
(* and reservations need.                                                  *)
(*                                                                         *)
(* A claim about every finite set is proved by its least counterexample    *)
(* (WFMin over the strict subsets), not by an induction theorem.           *)
(***************************************************************************)
EXTENDS Integers, FiniteSetsExt, FiniteSetTheorems, WellFoundedInduction, TLAPS

SumOf(v, S) == MapThenSumSet(LAMBDA x : v[x], S)

\* The element that the fold takes from a set.
Pick(s) == CHOOSE x \in s : TRUE

\* g is the fold of v over every subset of S.
IsFold(g, v, S) ==
  g = [s \in SUBSET S |-> IF s = {} THEN 0 ELSE v[Pick(s)] + g[s \ {Pick(s)}]]

\* A set of sets has a member none of whose strict subsets belongs to it.
LEMMA Smallest ==
  ASSUME NEW S, IsFiniteSet(S), NEW T \in SUBSET SUBSET S, T # {}
  PROVE  \E s \in T : \A t \in T : t \subseteq s => t = s
<1>1. IsWellFoundedOn(StrictSubsetOrdering(S), FiniteSubsetsOf(S))
  BY FS_StrictSubsetOrderingWellFounded
<1>2. T \subseteq FiniteSubsetsOf(S)
  BY FS_Subset DEF FiniteSubsetsOf
<1>3. \E s \in T : \A t \in T : ~ (<<t, s>> \in StrictSubsetOrdering(S))
  <2> HIDE DEF IsWellFoundedOn
  <2> QED  BY <1>1, <1>2, WFMin
<1> QED  BY <1>3 DEF StrictSubsetOrdering

LEMMA Picked == ASSUME NEW s, s # {}  PROVE Pick(s) \in s
BY DEF Pick

\* One step of a fold.
LEMMA FoldStep ==
  ASSUME NEW v, NEW S, NEW g, IsFold(g, v, S), NEW s \in SUBSET S
  PROVE  /\ s = {} => g[s] = 0
         /\ s # {} => g[s] = v[Pick(s)] + g[s \ {Pick(s)}]
BY DEF IsFold

\* Two folds agree wherever the values do.
LEMMA FoldsAgree ==
  ASSUME NEW S, IsFiniteSet(S), NEW v, NEW w,
         \A x \in S : v[x] = w[x],
         NEW A, S \subseteq A, NEW g, IsFold(g, v, A),
         NEW B, S \subseteq B, NEW h, IsFold(h, w, B)
  PROVE  g[S] = h[S]
<1> DEFINE T == {s \in SUBSET S : g[s] # h[s]}
<1> SUFFICES ASSUME T # {}  PROVE FALSE
  OBVIOUS
<1>1. PICK s \in T : \A t \in T : t \subseteq s => t = s
  <2> HIDE DEF T
  <2>1. T \in SUBSET SUBSET S
    BY DEF T
  <2> QED  BY <2>1, Smallest
<1>2. s \in SUBSET A /\ s \in SUBSET B /\ s \in SUBSET S
  OBVIOUS
<1>3. s # {}
  BY <1>2, FoldStep
<1>4. Pick(s) \in s
  BY <1>3, Picked
<1> DEFINE r == s \ {Pick(s)}
<1>5. g[r] = h[r]
  BY <1>1, <1>2, <1>4
<1>6. v[Pick(s)] = w[Pick(s)]
  BY <1>2, <1>4
<1>7. g[s] = v[Pick(s)] + g[r] /\ h[s] = w[Pick(s)] + h[r]
  BY <1>2, <1>3, FoldStep
<1> QED  BY <1>5, <1>6, <1>7

\* Every function has a fold over a finite set.
LEMMA FoldExists ==
  ASSUME NEW S, IsFiniteSet(S), NEW v
  PROVE  \E g : IsFold(g, v, S)
<1> DEFINE T == {s \in SUBSET S : ~ \E g : IsFold(g, v, s)}
<1> SUFFICES ASSUME T # {}  PROVE FALSE
  OBVIOUS
<1>1. PICK s \in T : \A t \in T : t \subseteq s => t = s
  <2> HIDE DEF T
  <2>1. T \in SUBSET SUBSET S
    BY DEF T
  <2> QED  BY <2>1, Smallest
<1> DEFINE G(t) == CHOOSE g : IsFold(g, v, t)
           F(t) == G(t)[t]
           h == [t \in SUBSET s |->
                   IF t = {} THEN 0 ELSE v[Pick(t)] + F(t \ {Pick(t)})]
<1>2. ASSUME NEW t \in SUBSET s, t # s  PROVE IsFold(G(t), v, t)
  <2>1. \E g : IsFold(g, v, t)
    BY <1>1, <1>2
  <2> QED  BY <2>1
<1>3. ASSUME NEW t \in SUBSET s, t # {}
      PROVE  /\ t \ {Pick(t)} \in SUBSET s
             /\ t \ {Pick(t)} # s
  BY <1>3, Picked
<1> HIDE DEF G
<1>4. ASSUME NEW t \in SUBSET s, t # s  PROVE h[t] = F(t)
  <2>1. CASE t = {}
    <3>1. G(t)[t] = 0
      <4>1. IsFold(G(t), v, t) /\ t \in SUBSET t
        BY <1>2, <1>4
      <4> QED  BY <2>1, <4>1, FoldStep
    <3>2. h[t] = 0
      BY <2>1
    <3> QED  BY <3>1, <3>2
  <2>2. CASE t # {}
    <3> DEFINE r == t \ {Pick(t)}
    <3>1. r \in SUBSET s /\ r # s /\ r \in SUBSET t
      BY <1>3, <2>2
    <3>2. F(t) = v[Pick(t)] + G(t)[r]
      BY <1>2, <1>4, <2>2, FoldStep
    <3>3. IsFiniteSet(r)
      <4>1. r \in SUBSET S
        BY <3>1
      <4> QED  BY <4>1, FS_Subset
    <3>4. G(t)[r] = G(r)[r]
      <4>1. IsFold(G(t), v, t) /\ IsFold(G(r), v, r)
        BY <1>2, <1>4, <3>1
      <4> HIDE DEF r
      <4> QED  BY <3>1, <3>3, <4>1, FoldsAgree
    <3> QED  BY <2>2, <3>2, <3>4
  <2> QED  BY <2>1, <2>2
<1>5. IsFold(h, v, s)
  <2>1. ASSUME NEW t \in SUBSET s, t # {}
        PROVE  h[t] = v[Pick(t)] + h[t \ {Pick(t)}]
    <3>1. h[t \ {Pick(t)}] = F(t \ {Pick(t)})
      BY <1>3, <1>4, <2>1
    <3> HIDE DEF F
    <3> QED  BY <2>1, <3>1
  <2>2. ASSUME NEW t \in SUBSET s, t = {}  PROVE h[t] = 0
    BY <2>2
  <2>3. h = [t \in SUBSET s |-> h[t]]
    BY Zenon
  <2> HIDE DEF h
  <2> QED  BY <2>1, <2>2, <2>3 DEF IsFold
<1> QED  BY <1>1, <1>5

\* A sum is the value of a fold, over a larger set as well.
LEMMA SumIsFold ==
  ASSUME NEW A, IsFiniteSet(A), NEW v, NEW g, IsFold(g, v, A),
         NEW S \in SUBSET A
  PROVE  SumOf(v, S) = g[S]
<1> DEFINE h == CHOOSE h : IsFold(h, v, S)
<1>1. IsFiniteSet(S)
  BY FS_Subset
<1>2. IsFold(h, v, S)
  <2>1. \E f : IsFold(f, v, S)
    BY <1>1, FoldExists
  <2> QED  BY <2>1
<1>3. SumOf(v, S) = h[S]
  BY Zenon DEF SumOf, MapThenSumSet, MapThenFoldSet, IsFold, Pick
<1> HIDE DEF h
<1>4. h[S] = g[S]
  BY <1>1, <1>2, FoldsAgree
<1> QED  BY <1>3, <1>4

\* The empty sum, and the element a sum begins with.
LEMMA SumStep ==
  ASSUME NEW S, IsFiniteSet(S), NEW v
  PROVE  /\ SumOf(v, {}) = 0
         /\ S # {} => SumOf(v, S) = v[Pick(S)] + SumOf(v, S \ {Pick(S)})
<1>1. PICK g : IsFold(g, v, S)
  BY FoldExists
<1>2. /\ SumOf(v, {}) = g[{}]
      /\ SumOf(v, S) = g[S]
      /\ SumOf(v, S \ {Pick(S)}) = g[S \ {Pick(S)}]
  BY <1>1, SumIsFold
<1>3. g[{}] = 0
  BY <1>1, FoldStep
<1>4. S # {} => g[S] = v[Pick(S)] + g[S \ {Pick(S)}]
  <2>1. S \in SUBSET S
    OBVIOUS
  <2> QED  BY <1>1, <2>1 DEF IsFold
<1> QED  BY <1>2, <1>3, <1>4

\* A set of subsets that contains every subset whose strict subsets it
\* contains contains them all.
LEMMA AllSubsets ==
  ASSUME NEW S, IsFiniteSet(S), NEW T \in SUBSET SUBSET S, {} \in T,
         \A s \in SUBSET S :
           s # {} /\ (\A x \in s : s \ {x} \in T) => s \in T
  PROVE  T = SUBSET S
<1> DEFINE U == (SUBSET S) \ T
<1> SUFFICES ASSUME U # {}  PROVE FALSE
  OBVIOUS
<1>1. PICK s \in U : \A t \in U : t \subseteq s => t = s
  <2> HIDE DEF U
  <2>1. U \in SUBSET SUBSET S
    BY DEF U
  <2> QED  BY <2>1, Smallest
<1>2. s # {}
  OBVIOUS
<1>3. ASSUME NEW x \in s  PROVE s \ {x} \in T
  BY <1>1, <1>3
<1> QED  BY <1>2, <1>3

\* A sum of integers is an integer.
LEMMA SumType ==
  ASSUME NEW S, IsFiniteSet(S), NEW v, \A x \in S : v[x] \in Int
  PROVE  SumOf(v, S) \in Int
<1> DEFINE T == {s \in SUBSET S : SumOf(v, s) \in Int}
<1>1. {} \in T
  <2>1. SumOf(v, {}) = 0
    BY SumStep
  <2> QED  BY <2>1
<1>2. ASSUME NEW s \in SUBSET S, s # {}, \A x \in s : s \ {x} \in T
      PROVE  s \in T
  <2>1. Pick(s) \in s /\ IsFiniteSet(s)
    BY <1>2, Picked, FS_Subset
  <2>2. SumOf(v, s) = v[Pick(s)] + SumOf(v, s \ {Pick(s)})
    BY <1>2, <2>1, SumStep
  <2> QED  BY <1>2, <2>1, <2>2
<1>3. T = SUBSET S
  <2> HIDE DEF T
  <2>1. T \in SUBSET SUBSET S
    BY DEF T
  <2> QED  BY <1>1, <1>2, <2>1, AllSubsets
<1> QED  BY <1>3

\* A sum is any of its terms and the sum of the others.
LEMMA SumTerm ==
  ASSUME NEW S, IsFiniteSet(S), NEW v, \A x \in S : v[x] \in Int
  PROVE  \A x \in S : SumOf(v, S) = v[x] + SumOf(v, S \ {x})
<1> DEFINE T == {s \in SUBSET S :
                   \A x \in s : SumOf(v, s) = v[x] + SumOf(v, s \ {x})}
<1>1. {} \in T
  OBVIOUS
<1>2. ASSUME NEW s \in SUBSET S, s # {}, \A x \in s : s \ {x} \in T
      PROVE  s \in T
  <2> DEFINE p == Pick(s)
  <2>1. p \in s /\ IsFiniteSet(s)
    BY <1>2, Picked, FS_Subset
  <2>2. SumOf(v, s) = v[p] + SumOf(v, s \ {p})
    BY <1>2, <2>1, SumStep
  <2>3. ASSUME NEW x \in s  PROVE SumOf(v, s) = v[x] + SumOf(v, s \ {x})
    <3>1. CASE x = p
      BY <2>2, <3>1
    <3>2. CASE x # p
      <4>1. SumOf(v, s \ {p}) = v[x] + SumOf(v, (s \ {p}) \ {x})
        BY <1>2, <2>1, <3>2
      <4>2. SumOf(v, s \ {x}) = v[p] + SumOf(v, (s \ {x}) \ {p})
        BY <1>2, <2>1, <3>2
      <4>3. (s \ {x}) \ {p} = (s \ {p}) \ {x}
        OBVIOUS
      <4>4. SumOf(v, (s \ {p}) \ {x}) \in Int
        BY SumType, FS_Subset
      <4>5. v[x] \in Int /\ v[p] \in Int
        BY <2>1
      <4> DEFINE a == SumOf(v, s)
                 b == SumOf(v, s \ {p})
                 c == SumOf(v, s \ {x})
                 d == SumOf(v, (s \ {p}) \ {x})
      <4>6. a = v[p] + b /\ b = v[x] + d /\ c = v[p] + d /\ d \in Int
        BY <2>2, <4>1, <4>2, <4>3, <4>4
      <4> HIDE DEF a, b, c, d, p, T
      <4>7. a = v[x] + c
        BY <4>5, <4>6
      <4> QED  BY <4>7 DEF a, c
    <3> QED  BY <3>1, <3>2
  <2> QED  BY <2>3
<1>3. T = SUBSET S
  <2> HIDE DEF T
  <2>1. T \in SUBSET SUBSET S
    BY DEF T
  <2> QED  BY <1>1, <1>2, <2>1, AllSubsets
<1> QED  BY <1>3

\* Where no term of v is above that of w, neither is the sum.
LEMMA SumMonotone ==
  ASSUME NEW S, IsFiniteSet(S), NEW v, NEW w,
         \A x \in S : v[x] \in Int /\ w[x] \in Int /\ v[x] <= w[x]
  PROVE  SumOf(v, S) <= SumOf(w, S)
<1> DEFINE T == {s \in SUBSET S : SumOf(v, s) <= SumOf(w, s)}
<1>1. {} \in T
  <2>1. SumOf(v, {}) = 0 /\ SumOf(w, {}) = 0
    BY SumStep
  <2> QED  BY <2>1
<1>2. ASSUME NEW s \in SUBSET S, s # {}, \A x \in s : s \ {x} \in T
      PROVE  s \in T
  <2> DEFINE p == Pick(s)
             a == SumOf(v, s)
             b == SumOf(w, s)
             c == SumOf(v, s \ {p})
             d == SumOf(w, s \ {p})
  <2>1. p \in s /\ IsFiniteSet(s) /\ IsFiniteSet(s \ {p})
    BY <1>2, Picked, FS_Subset
  <2>2. a = v[p] + c /\ b = w[p] + d
    BY <1>2, <2>1, SumStep
  <2>3. c <= d
    BY <1>2, <2>1
  <2>4. c \in Int /\ d \in Int
    BY <1>2, <2>1, SumType
  <2>5. v[p] \in Int /\ w[p] \in Int /\ v[p] <= w[p]
    BY <2>1
  <2> HIDE DEF a, b, c, d, p, T
  <2>6. a <= b
    BY <2>2, <2>3, <2>4, <2>5
  <2> QED  BY <2>6 DEF a, b, T
<1>3. T = SUBSET S
  <2> HIDE DEF T
  <2>1. T \in SUBSET SUBSET S
    BY DEF T
  <2> QED  BY <1>1, <1>2, <2>1, AllSubsets
<1> QED  BY <1>3

\* Equal terms, equal sums.
LEMMA SumEqual ==
  ASSUME NEW S, IsFiniteSet(S), NEW v, NEW w, \A x \in S : v[x] = w[x]
  PROVE  SumOf(v, S) = SumOf(w, S)
<1>1. PICK g : IsFold(g, v, S)
  BY FoldExists
<1>2. PICK h : IsFold(h, w, S)
  BY FoldExists
<1>3. SumOf(v, S) = g[S]
  BY <1>1, SumIsFold
<1>4. SumOf(w, S) = h[S]
  BY <1>2, SumIsFold
<1>5. g[S] = h[S]
  BY <1>1, <1>2, FoldsAgree
<1> QED  BY <1>3, <1>4, <1>5

\* The sum of two functions is the sum of their sums.
LEMMA SumPlus ==
  ASSUME NEW S, IsFiniteSet(S), NEW v, NEW w, NEW u,
         \A x \in S : /\ v[x] \in Int /\ w[x] \in Int
                     /\ u[x] = v[x] + w[x]
  PROVE  SumOf(u, S) = SumOf(v, S) + SumOf(w, S)
<1> DEFINE T == {s \in SUBSET S : SumOf(u, s) = SumOf(v, s) + SumOf(w, s)}
<1>1. {} \in T
  <2>1. SumOf(v, {}) = 0 /\ SumOf(w, {}) = 0 /\ SumOf(u, {}) = 0
    BY SumStep
  <2> QED  BY <2>1
<1>2. ASSUME NEW s \in SUBSET S, s # {}, \A x \in s : s \ {x} \in T
      PROVE  s \in T
  <2> DEFINE p == Pick(s)
             a == SumOf(u, s)
             b == SumOf(v, s)
             c == SumOf(w, s)
             d == SumOf(u, s \ {p})
             e == SumOf(v, s \ {p})
             f == SumOf(w, s \ {p})
  <2>1. p \in s /\ IsFiniteSet(s) /\ IsFiniteSet(s \ {p})
    BY <1>2, Picked, FS_Subset
  <2>2. a = u[p] + d /\ b = v[p] + e /\ c = w[p] + f
    BY <1>2, <2>1, SumStep
  <2>3. d = e + f
    BY <1>2, <2>1
  <2>4. e \in Int /\ f \in Int
    BY <1>2, <2>1, SumType
  <2>5. v[p] \in Int /\ w[p] \in Int /\ u[p] = v[p] + w[p]
    BY <2>1
  <2> HIDE DEF a, b, c, d, e, f, p, T
  <2>6. a = b + c
    BY <2>2, <2>3, <2>4, <2>5
  <2> QED  BY <2>6 DEF a, b, c, T
<1>3. T = SUBSET S
  <2> HIDE DEF T
  <2>1. T \in SUBSET SUBSET S
    BY DEF T
  <2> QED  BY <1>1, <1>2, <2>1, AllSubsets
<1> QED  BY <1>3

\* A sum without negative terms is at least that over any part of the set.
LEMMA SumPart ==
  ASSUME NEW S, IsFiniteSet(S), NEW v, \A x \in S : v[x] \in Nat,
         NEW R \in SUBSET S
  PROVE  /\ SumOf(v, R) \in Nat
         /\ SumOf(v, R) <= SumOf(v, S)
<1> DEFINE T == {s \in SUBSET S : /\ SumOf(v, s \cap R) \in Nat
                                  /\ SumOf(v, s \cap R) <= SumOf(v, s)}
<1>1. {} \in T
  <2>1. SumOf(v, {}) = 0 /\ {} \cap R = {}
    BY SumStep
  <2> QED  BY <2>1
<1>2. ASSUME NEW s \in SUBSET S, s # {}, \A x \in s : s \ {x} \in T
      PROVE  s \in T
  <2> DEFINE p == Pick(s)
             a == SumOf(v, s)
             b == SumOf(v, s \cap R)
             c == SumOf(v, s \ {p})
             d == SumOf(v, (s \ {p}) \cap R)
  <2>1. p \in s /\ IsFiniteSet(s) /\ IsFiniteSet(s \ {p})
        /\ IsFiniteSet(s \cap R)
    BY <1>2, Picked, FS_Subset
  <2>2. a = v[p] + c
    BY <1>2, <2>1, SumStep
  <2>3. d \in Nat /\ d <= c
    BY <1>2, <2>1
  <2>4. c \in Int
    BY <1>2, <2>1, SumType
  <2>5. v[p] \in Nat
    BY <2>1
  <2>6. CASE p \in R
    <3>1. b = v[p] + SumOf(v, (s \cap R) \ {p})
      <4>1. p \in s \cap R /\ \A x \in s \cap R : v[x] \in Int
        BY <2>1, <2>6
      <4> QED  BY <2>1, <4>1, SumTerm
    <3>2. (s \cap R) \ {p} = (s \ {p}) \cap R
      OBVIOUS
    <3>3. b = v[p] + d
      BY <3>1, <3>2
    <3> HIDE DEF a, b, c, d, p, T
    <3>4. b \in Nat /\ b <= a
      BY <2>2, <2>3, <2>4, <2>5, <3>3
    <3> QED  BY <3>4 DEF a, b, T
  <2>7. CASE p \notin R
    <3>1. s \cap R = (s \ {p}) \cap R
      BY <2>7
    <3>2. b = d
      BY <3>1
    <3> HIDE DEF a, b, c, d, p, T
    <3>3. b \in Nat /\ b <= a
      BY <2>2, <2>3, <2>4, <2>5, <3>2
    <3> QED  BY <3>3 DEF a, b, T
  <2> QED  BY <2>6, <2>7
<1>3. T = SUBSET S
  <2> HIDE DEF T
  <2>1. T \in SUBSET SUBSET S
    BY DEF T
  <2> QED  BY <1>1, <1>2, <2>1, AllSubsets
<1>4. S \in T /\ S \cap R = R
  BY <1>3
<1> QED  BY <1>4

\* Terms that are zero do not count.
LEMMA SumZeros ==
  ASSUME NEW S, IsFiniteSet(S), NEW v, NEW R \in SUBSET S,
         \A x \in S : v[x] \in Int /\ (x \notin R => v[x] = 0)
  PROVE  SumOf(v, S) = SumOf(v, R)
<1> DEFINE T == {s \in SUBSET S : SumOf(v, s) = SumOf(v, s \cap R)}
<1>1. {} \in T
  <2>1. {} \cap R = {}
    OBVIOUS
  <2> QED  BY <2>1
<1>2. ASSUME NEW s \in SUBSET S, s # {}, \A x \in s : s \ {x} \in T
      PROVE  s \in T
  <2> DEFINE p == Pick(s)
             a == SumOf(v, s)
             b == SumOf(v, s \cap R)
             c == SumOf(v, s \ {p})
             d == SumOf(v, (s \ {p}) \cap R)
  <2>1. p \in s /\ IsFiniteSet(s) /\ IsFiniteSet(s \ {p})
        /\ IsFiniteSet(s \cap R)
    BY <1>2, Picked, FS_Subset
  <2>2. a = v[p] + c
    BY <1>2, <2>1, SumStep
  <2>3. c = d
    BY <1>2, <2>1
  <2>4. c \in Int
    BY <1>2, <2>1, SumType
  <2>5. CASE p \in R
    <3>1. b = v[p] + SumOf(v, (s \cap R) \ {p})
      <4>1. p \in s \cap R /\ \A x \in s \cap R : v[x] \in Int
        BY <2>1, <2>5
      <4> QED  BY <2>1, <4>1, SumTerm
    <3>2. (s \cap R) \ {p} = (s \ {p}) \cap R
      OBVIOUS
    <3>3. b = v[p] + d
      BY <3>1, <3>2
    <3>4. a = b
      BY <2>2, <2>3, <3>3
    <3> QED  BY <3>4
  <2>6. CASE p \notin R
    <3>1. s \cap R = (s \ {p}) \cap R
      BY <2>6
    <3>2. b = d /\ v[p] = 0
      BY <2>1, <2>6, <3>1
    <3> HIDE DEF a, b, c, d, p, T
    <3>3. a = b
      BY <2>2, <2>3, <2>4, <3>2
    <3> QED  BY <3>3 DEF a, b, T
  <2> QED  BY <2>5, <2>6
<1>3. T = SUBSET S
  <2> HIDE DEF T
  <2>1. T \in SUBSET SUBSET S
    BY DEF T
  <2> QED  BY <1>1, <1>2, <2>1, AllSubsets
<1>4. S \in T /\ S \cap R = R
  BY <1>3
<1> QED  BY <1>4

\* One term is another: the sum changes by the difference.
LEMMA SumChange ==
  ASSUME NEW S, IsFiniteSet(S), NEW v, NEW w, NEW k \in S,
         \A x \in S : v[x] \in Int /\ w[x] \in Int,
         \A x \in S \ {k} : v[x] = w[x]
  PROVE  SumOf(w, S) = SumOf(v, S) + w[k] - v[k]
<1> DEFINE a == SumOf(v, S)
           b == SumOf(w, S)
           c == SumOf(v, S \ {k})
           d == SumOf(w, S \ {k})
<1>1. IsFiniteSet(S \ {k})
  BY FS_Subset
<1>2. c = d
  BY <1>1, SumEqual
<1>3. a = v[k] + c /\ b = w[k] + d
  BY SumTerm
<1>4. c \in Int
  BY <1>1, SumType
<1>5. v[k] \in Int /\ w[k] \in Int
  OBVIOUS
<1> HIDE DEF a, b, c, d
<1>6. b = a + w[k] - v[k]
  BY <1>2, <1>3, <1>4, <1>5
<1> QED  BY <1>6 DEF a, b
=============================================================================
