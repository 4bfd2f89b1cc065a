---------------------------- MODULE NaturalFacts ----------------------------
(***************************************************************************)
(* Least and greatest elements of sets of naturals, and sums of naturals   *)
(* over finite sets.                                                       *)
(*                                                                         *)
(* A sum is a fold, defined by choice from the equation of its recursion.  *)
(* That the equation has a solution, and that all its solutions agree, is  *)
(* shown by least counterexample: by LeastExists, of the cardinalities.    *)
(***************************************************************************)
EXTENDS Integers, Functions, FiniteSetTheorems, WellFoundedInduction, TLAPS

(* A non-empty set of naturals has a least element. *)
LEMMA LeastExists ==
  ASSUME NEW S \in SUBSET Nat, S # {}
  PROVE  \E m \in S : \A x \in S : m <= x
<1> DEFINE R == OpToRel(<, Nat)
<1>1. IsWellFoundedOn(R, Nat)
  BY NatLessThanWellFounded
<1>2. \A x, m \in Nat : x < m => <<x, m>> \in R
  BY DEF OpToRel
<1> HIDE DEF R
<1>3. PICK m \in S : \A x \in S : ~ (<<x, m>> \in R)
  BY <1>1, WFMin, Zenon
<1>4. \A x \in S : ~ (x < m)
  BY <1>2, <1>3
<1> QED
  BY <1>4

(* A bounded one has a greatest. *)
LEMMA GreatestExists ==
  ASSUME NEW S \in SUBSET Nat, S # {}, NEW n \in Nat, \A x \in S : x <= n
  PROVE  \E m \in S : \A x \in S : x <= m
<1> DEFINE D == {n - x : x \in S}
<1>1. D \in SUBSET Nat /\ D # {}
  <2>1. \A x \in S : n - x \in Nat
    OBVIOUS
  <2>2. D \in SUBSET Nat
    BY <2>1
  <2>3. PICK x \in S : TRUE
    OBVIOUS
  <2>4. n - x \in D
    OBVIOUS
  <2> QED
    BY <2>2, <2>4
<1>2. PICK d \in D : \A e \in D : d <= e
  BY <1>1, LeastExists
<1>3. PICK m \in S : d = n - m
  BY <1>2
<1>4. \A x \in S : n - m <= n - x
  BY <1>2, <1>3
<1>5. \A x \in S : x <= m
  BY <1>4
<1> QED
  BY <1>5

-----------------------------------------------------------------------------

(* One step of the fold that SumFunctionOnSet is, with the rest from g. *)
SumStep(f, g, s) ==
  IF s = {} THEN 0 ELSE LET x == CHOOSE x \in s : TRUE IN f[x] + g[s \ {x}]

IsSumOn(f, g, S) == g = [s \in SUBSET S |-> SumStep(f, g, s)]

LEMMA SumUnfolds ==
  ASSUME NEW f, NEW S
  PROVE  SumFunctionOnSet(f, S) = (CHOOSE g : IsSumOn(f, g, S))[S]
BY DEF SumFunctionOnSet, FoldFunctionOnSet, MapThenFoldSet, SumStep, IsSumOn

(* A non-empty finite set less one element. *)
LEMMA OneLess ==
  ASSUME NEW s, IsFiniteSet(s), NEW x \in s
  PROVE  /\ IsFiniteSet(s \ {x})
         /\ Cardinality(s) \in Nat \ {0}
         /\ Cardinality(s \ {x}) = Cardinality(s) - 1
<1>1. Cardinality(s) \in Nat /\ Cardinality(s) # 0
  BY FS_CardinalityType, FS_EmptySet
<1> QED
  BY <1>1, FS_RemoveElement

LEMMA SumExists ==
  ASSUME NEW S, IsFiniteSet(S), NEW f, \A x \in S : f[x] \in Nat
  PROVE  \E g \in [SUBSET S -> Nat] : IsSumOn(f, g, S)
<1> DEFINE Upto(g, n) == \A s \in SUBSET S : Cardinality(s) <= n => g[s] = SumStep(f, g, s)
           Bad == {n \in Nat : \A g \in [SUBSET S -> Nat] : ~ Upto(g, n)}
<1>1. \A s \in SUBSET S : IsFiniteSet(s) /\ Cardinality(s) \in Nat
                          /\ Cardinality(s) <= Cardinality(S)
  BY FS_Subset, FS_CardinalityType
<1>2. \A s \in SUBSET S : s # {} =>
        LET c == CHOOSE c \in s : TRUE IN
        /\ c \in s /\ f[c] \in Nat /\ s \ {c} \in SUBSET S
        /\ Cardinality(s) \in Nat \ {0}
        /\ Cardinality(s \ {c}) = Cardinality(s) - 1
  <2> SUFFICES ASSUME NEW s \in SUBSET S, s # {}
               PROVE  LET c == CHOOSE c \in s : TRUE IN
                      /\ c \in s /\ f[c] \in Nat /\ s \ {c} \in SUBSET S
                      /\ Cardinality(s) \in Nat \ {0}
                      /\ Cardinality(s \ {c}) = Cardinality(s) - 1
    OBVIOUS
  <2> DEFINE c == CHOOSE c \in s : TRUE
  <2>1. c \in s
    OBVIOUS
  <2> HIDE DEF c
  <2>2. /\ Cardinality(s) \in Nat \ {0}
        /\ Cardinality(s \ {c}) = Cardinality(s) - 1
    BY <1>1, <2>1, OneLess
  <2>3. f[c] \in Nat /\ s \ {c} \in SUBSET S
    BY <2>1
  <2> QED
    BY <2>1, <2>2, <2>3 DEF c
<1>3. 0 \notin Bad
  <2> DEFINE g == [s \in SUBSET S |-> 0]
  <2>1. g \in [SUBSET S -> Nat]
    OBVIOUS
  <2>2. Upto(g, 0)
    <3> SUFFICES ASSUME NEW s \in SUBSET S, Cardinality(s) <= 0
                 PROVE  g[s] = SumStep(f, g, s)
      OBVIOUS
    <3>1. s = {}
      BY <1>1, FS_EmptySet
    <3> QED
      BY <3>1 DEF SumStep
  <2> QED
    BY <2>1, <2>2
<1>4. ASSUME NEW m \in Nat, m + 1 \in Bad
      PROVE  m \in Bad
  <2> SUFFICES ASSUME NEW g \in [SUBSET S -> Nat], Upto(g, m)
               PROVE  FALSE
    BY <1>4
  <2> DEFINE h == [s \in SUBSET S |-> IF Cardinality(s) <= m THEN g[s] ELSE SumStep(f, g, s)]
  <2>1. \A s \in SUBSET S : SumStep(f, g, s) \in Nat
    <3> SUFFICES ASSUME NEW s \in SUBSET S, s # {}
                 PROVE  SumStep(f, g, s) \in Nat
      BY DEF SumStep
    <3> DEFINE c == CHOOSE c \in s : TRUE
    <3>1. f[c] \in Nat /\ s \ {c} \in SUBSET S
      BY <1>2
    <3>2. SumStep(f, g, s) = f[c] + g[s \ {c}]
      BY DEF SumStep
    <3> HIDE DEF c
    <3> QED
      BY <3>1, <3>2
  <2>2. h \in [SUBSET S -> Nat]
    BY <2>1
  <2>3. Upto(h, m + 1)
    <3> SUFFICES ASSUME NEW s \in SUBSET S, Cardinality(s) <= m + 1
                 PROVE  h[s] = SumStep(f, h, s)
      OBVIOUS
    <3>1. SumStep(f, h, s) = SumStep(f, g, s)
      <4>1. CASE s = {}
        BY <4>1 DEF SumStep
      <4>2. CASE s # {}
        <5> DEFINE c == CHOOSE c \in s : TRUE
        <5>1. /\ s \ {c} \in SUBSET S /\ Cardinality(s) \in Nat
              /\ Cardinality(s \ {c}) = Cardinality(s) - 1
          BY <1>2, <4>2
        <5>2. /\ SumStep(f, g, s) = f[c] + g[s \ {c}]
              /\ SumStep(f, h, s) = f[c] + h[s \ {c}]
          BY <4>2 DEF SumStep
        <5> HIDE DEF c
        <5>3. Cardinality(s \ {c}) <= m
          BY <5>1
        <5>4. h[s \ {c}] = g[s \ {c}]
          BY <5>1, <5>3
        <5> QED
          BY <5>2, <5>4
      <4> QED
        BY <4>1, <4>2
    <3>2. h[s] = SumStep(f, g, s)
      OBVIOUS
    <3> QED
      BY <3>1, <3>2
  <2> QED
    BY <1>4, <2>2, <2>3
<1>5. Bad = {}
  <2> SUFFICES ASSUME Bad # {} PROVE FALSE
    OBVIOUS
  <2>1. Bad \in SUBSET Nat
    OBVIOUS
  <2> HIDE DEF Bad
  <2>2. PICK n \in Bad : \A x \in Bad : n <= x
    BY <2>1, LeastExists
  <2>3. n # 0 /\ n \in Nat
    BY <1>3, <2>1
  <2>4. n - 1 \in Nat /\ (n - 1) + 1 = n
    BY <2>3
  <2>5. n - 1 \in Bad
    BY <1>4, <2>4
  <2> QED
    BY <2>2, <2>3, <2>5
<1>6. PICK g \in [SUBSET S -> Nat] : Upto(g, Cardinality(S))
  <2>1. Cardinality(S) \in Nat
    BY <1>1
  <2> QED
    BY <1>5, <2>1
<1>7. \A s \in SUBSET S : g[s] = SumStep(f, g, s)
  BY <1>1, <1>6
<1>8. g = [s \in SUBSET S |-> SumStep(f, g, s)]
  BY <1>7
<1> QED
  BY <1>8 DEF IsSumOn

(* All that satisfy the equation agree where they are both defined. *)
LEMMA SumUnique ==
  ASSUME NEW S, IsFiniteSet(S), NEW T \in SUBSET S, NEW f, NEW g, NEW h,
         IsSumOn(f, g, S), IsSumOn(f, h, T)
  PROVE  g[T] = h[T]
<1> DEFINE Bad == {s \in SUBSET T : g[s] # h[s]}
           N   == {Cardinality(s) : s \in Bad}
<1> SUFFICES ASSUME Bad # {} PROVE FALSE
  OBVIOUS
<1>1. \A s \in SUBSET T : IsFiniteSet(s) /\ Cardinality(s) \in Nat
  BY FS_Subset, FS_CardinalityType
<1>2. N \in SUBSET Nat /\ N # {}
  BY <1>1
<1>3. PICK n \in N : \A x \in N : n <= x
  <2> HIDE DEF N
  <2> QED
    BY <1>2, LeastExists
<1>4. PICK s \in Bad : n = Cardinality(s)
  OBVIOUS
<1>5. g[s] = SumStep(f, g, s) /\ h[s] = SumStep(f, h, s)
  BY DEF IsSumOn
<1>6. s # {}
  BY <1>5 DEF SumStep
<1> DEFINE c == CHOOSE c \in s : TRUE
<1>7. c \in s
  BY <1>6
<1>8. g[s] = f[c] + g[s \ {c}] /\ h[s] = f[c] + h[s \ {c}]
  BY <1>5, <1>6 DEF SumStep
<1> HIDE DEF c
<1>9. s \ {c} \in Bad
  BY <1>7, <1>8
<1>10. Cardinality(s \ {c}) \in N /\ Cardinality(s \ {c}) = Cardinality(s) - 1
       /\ Cardinality(s) \in Nat \ {0}
  BY <1>1, <1>7, <1>9, OneLess
<1> QED
  BY <1>3, <1>4, <1>10

(* A sum of naturals: a natural, nothing for nothing, and any term apart. *)
LEMMA SumFacts ==
  ASSUME NEW S, IsFiniteSet(S), NEW f, \A x \in S : f[x] \in Nat
  PROVE  /\ SumFunctionOnSet(f, S) \in Nat
         /\ S = {} => SumFunctionOnSet(f, S) = 0
         /\ S # {} =>
              LET c == CHOOSE c \in S : TRUE IN
              SumFunctionOnSet(f, S) = f[c] + SumFunctionOnSet(f, S \ {c})
<1>1. PICK g \in [SUBSET S -> Nat] : IsSumOn(f, g, S)
  BY SumExists
<1>2. ASSUME NEW T \in SUBSET S
      PROVE  SumFunctionOnSet(f, T) = g[T]
  <2>1. IsFiniteSet(T) /\ \A x \in T : f[x] \in Nat
    BY FS_Subset
  <2>2. \E h : IsSumOn(f, h, T)
    BY <2>1, SumExists
  <2> DEFINE h == CHOOSE h : IsSumOn(f, h, T)
  <2>3. IsSumOn(f, h, T)
    BY <2>2
  <2>4. SumFunctionOnSet(f, T) = h[T]
    BY SumUnfolds
  <2> HIDE DEF h
  <2> QED
    BY <1>1, <2>3, <2>4, SumUnique
<1>3. g[S] = SumStep(f, g, S)
  BY <1>1 DEF IsSumOn
<1>4. S # {} => LET c == CHOOSE c \in S : TRUE IN g[S] = f[c] + g[S \ {c}]
  BY <1>3 DEF SumStep
<1>5. S = {} => g[S] = 0
  BY <1>3 DEF SumStep
<1> QED
  BY <1>1, <1>2, <1>4, <1>5

(* Any one term can be taken out. *)
LEMMA SumWithout ==
  ASSUME NEW S, IsFiniteSet(S), NEW f, \A x \in S : f[x] \in Nat, NEW a \in S
  PROVE  SumFunctionOnSet(f, S) = f[a] + SumFunctionOnSet(f, S \ {a})
<1> DEFINE Sum(s) == SumFunctionOnSet(f, s)
           Bad == {s \in SUBSET S : \E x \in s : Sum(s) # f[x] + Sum(s \ {x})}
           N   == {Cardinality(s) : s \in Bad}
<1> SUFFICES ASSUME Bad # {} PROVE FALSE
  OBVIOUS
<1>1. \A s \in SUBSET S : /\ IsFiniteSet(s) /\ Cardinality(s) \in Nat
                          /\ Sum(s) \in Nat
                          /\ s # {} => LET c == CHOOSE c \in s : TRUE IN
                                       c \in s /\ Sum(s) = f[c] + Sum(s \ {c})
  <2> SUFFICES ASSUME NEW s \in SUBSET S
               PROVE  /\ IsFiniteSet(s) /\ Cardinality(s) \in Nat
                      /\ Sum(s) \in Nat
                      /\ s # {} => LET c == CHOOSE c \in s : TRUE IN
                                   c \in s /\ Sum(s) = f[c] + Sum(s \ {c})
    OBVIOUS
  <2>1. IsFiniteSet(s) /\ Cardinality(s) \in Nat /\ \A x \in s : f[x] \in Nat
    BY FS_Subset, FS_CardinalityType
  <2>2. s # {} => (CHOOSE c \in s : TRUE) \in s
    OBVIOUS
  <2> QED
    BY <2>1, <2>2, SumFacts
<1> HIDE DEF Sum
<1>2. N \in SUBSET Nat /\ N # {}
  <2>1. Bad \subseteq SUBSET S
    OBVIOUS
  <2> HIDE DEF Bad
  <2> QED
    BY <1>1, <2>1
<1>3. PICK n \in N : \A x \in N : n <= x
  <2> HIDE DEF N
  <2> QED
    BY <1>2, LeastExists
<1>4. PICK s \in Bad : n = Cardinality(s)
  OBVIOUS
<1>5. PICK x \in s : Sum(s) # f[x] + Sum(s \ {x})
  OBVIOUS
<1> DEFINE c == CHOOSE c \in s : TRUE
<1>6. c \in s /\ Sum(s) = f[c] + Sum(s \ {c})
  BY <1>1
<1> HIDE DEF c
<1>7. c # x
  BY <1>5, <1>6
<1>8. \A y \in s : s \ {y} \in SUBSET S /\ s \ {y} \notin Bad
  <2> SUFFICES ASSUME NEW y \in s, s \ {y} \in Bad PROVE FALSE
    OBVIOUS
  <2>1. /\ Cardinality(s \ {y}) \in N /\ Cardinality(s \ {y}) = Cardinality(s) - 1
        /\ Cardinality(s) \in Nat \ {0}
    BY <1>1, OneLess
  <2> HIDE DEF N, Bad
  <2>2. n <= Cardinality(s \ {y})
    BY <1>3, <2>1
  <2> QED
    BY <1>4, <2>1, <2>2
<1>9. /\ Sum(s \ {c}) = f[x] + Sum((s \ {c}) \ {x})
      /\ Sum(s \ {x}) = f[c] + Sum((s \ {x}) \ {c})
  BY <1>6, <1>7, <1>8
<1>10. (s \ {c}) \ {x} = (s \ {x}) \ {c} /\ (s \ {c}) \ {x} \in SUBSET S
  OBVIOUS
<1>11. f[x] \in Nat /\ f[c] \in Nat /\ Sum((s \ {c}) \ {x}) \in Nat
  BY <1>1, <1>6, <1>10
<1> QED
  BY <1>5, <1>6, <1>9, <1>10, <1>11

(* A sum does not depend on what its terms are counted by. *)
LEMMA SumMoved ==
  ASSUME NEW T, IsFiniteSet(T), NEW S, NEW f, \A x \in S : f[x] \in Nat,
         NEW to, \A t \in T : to[t] \in S,
         \A t, u \in T : to[t] = to[u] => t = u,
         \A x \in S : \E t \in T : to[t] = x,
         NEW h, \A t \in T : h[t] = f[to[t]]
  PROVE  SumFunctionOnSet(h, T) = SumFunctionOnSet(f, S)
<1> DEFINE Img(s) == {to[t] : t \in s}
           Bad == {s \in SUBSET T : SumFunctionOnSet(h, s) # SumFunctionOnSet(f, Img(s))}
           N   == {Cardinality(s) : s \in Bad}
<1>1. Img(T) = S
  OBVIOUS
<1> SUFFICES ASSUME Bad # {} PROVE FALSE
  BY <1>1
<1>2. \A s \in SUBSET T : IsFiniteSet(s) /\ Cardinality(s) \in Nat
  BY FS_Subset, FS_CardinalityType
<1>3. \A t \in T : h[t] \in Nat
  OBVIOUS
<1>4. N \in SUBSET Nat /\ N # {}
  <2>1. Bad \subseteq SUBSET T
    OBVIOUS
  <2> HIDE DEF Bad
  <2> QED
    BY <1>2, <2>1
<1>5. PICK n \in N : \A x \in N : n <= x
  <2> HIDE DEF N
  <2> QED
    BY <1>4, LeastExists
<1>6. PICK s \in Bad : n = Cardinality(s)
  OBVIOUS
<1>7. IsFiniteSet(s) /\ IsFiniteSet(Img(s)) /\ Img(s) \subseteq S
  <2>1. IsFiniteSet(s)
    BY <1>2
  <2>2. IsFiniteSet(Img(s))
    <3> DEFINE m == [t \in s |-> to[t]]
    <3>1. m \in Surjection(s, Img(s))
      BY DEF Surjection
    <3> HIDE DEF m, Img
    <3> QED
      BY <2>1, <3>1, FS_Surjection
  <2> QED
    BY <2>1, <2>2
<1>8. \A t \in s : h[t] \in Nat
  BY <1>3
<1>9. \A x \in Img(s) : f[x] \in Nat
  BY <1>7
<1>10. CASE s = {}
  <2>1. Img(s) = {}
    BY <1>10
  <2>2. SumFunctionOnSet(h, s) = 0
    BY <1>7, <1>8, <1>10, SumFacts
  <2>3. SumFunctionOnSet(f, Img(s)) = 0
    <3> HIDE DEF Img
    <3> QED
      BY <1>7, <1>9, <2>1, SumFacts
  <2> QED
    BY <2>2, <2>3
<1>11. CASE s # {}
  <2>1. PICK t \in s : TRUE
    BY <1>11
  <2>2. SumFunctionOnSet(h, s) = h[t] + SumFunctionOnSet(h, s \ {t})
    BY <1>7, <1>8, SumWithout
  <2>3. to[t] \in Img(s)
    OBVIOUS
  <2>4. SumFunctionOnSet(f, Img(s)) = f[to[t]] + SumFunctionOnSet(f, Img(s) \ {to[t]})
    <3> HIDE DEF Img
    <3> QED
      BY <1>7, <1>9, <2>3, SumWithout
  <2>5. Img(s \ {t}) = Img(s) \ {to[t]}
    OBVIOUS
  <2>6. s \ {t} \in Bad
    BY <2>2, <2>4, <2>5
  <2>7. /\ Cardinality(s \ {t}) \in N /\ Cardinality(s \ {t}) = Cardinality(s) - 1
        /\ Cardinality(s) \in Nat \ {0}
    BY <1>7, <2>6, OneLess
  <2> HIDE DEF N, Bad
  <2>8. n <= Cardinality(s \ {t})
    BY <1>5, <2>7
  <2> QED
    BY <1>6, <2>7, <2>8
<1> QED
  BY <1>10, <1>11

(* A sum is no less than what its terms of m or more come to at m each.    *)
LEMMA SumOutweighs ==
  ASSUME NEW S, IsFiniteSet(S), NEW f, \A x \in S : f[x] \in Nat, NEW m \in Nat
  PROVE  m * Cardinality({x \in S : f[x] >= m}) <= SumFunctionOnSet(f, S)
<1> DEFINE Heavy(s) == {x \in s : f[x] >= m}
           Bad == {s \in SUBSET S :
                     ~ (m * Cardinality(Heavy(s)) <= SumFunctionOnSet(f, s))}
           N   == {Cardinality(s) : s \in Bad}
<1> SUFFICES ASSUME Bad # {} PROVE FALSE
  OBVIOUS
<1>1. \A s \in SUBSET S : /\ IsFiniteSet(s) /\ Cardinality(s) \in Nat
                          /\ IsFiniteSet(Heavy(s)) /\ Cardinality(Heavy(s)) \in Nat
  <2>1. \A s \in SUBSET S : IsFiniteSet(s) /\ Heavy(s) \in SUBSET S
    BY FS_Subset
  <2> HIDE DEF Heavy
  <2> QED
    BY <2>1, FS_CardinalityType
<1>2. N \in SUBSET Nat /\ N # {}
  <2>1. Bad \subseteq SUBSET S
    OBVIOUS
  <2> HIDE DEF Bad
  <2> QED
    BY <1>1, <2>1
<1>3. PICK n \in N : \A x \in N : n <= x
  <2> HIDE DEF N
  <2> QED
    BY <1>2, LeastExists
<1>4. PICK s \in Bad : n = Cardinality(s)
  OBVIOUS
<1>5. IsFiniteSet(s) /\ \A x \in s : f[x] \in Nat
  BY <1>1
<1>6. s # {}
  <2> SUFFICES ASSUME s = {} PROVE FALSE
    OBVIOUS
  <2>1. SumFunctionOnSet(f, s) = 0
    BY <1>5, SumFacts
  <2>2. Cardinality(Heavy(s)) = 0
    <3>1. Heavy(s) = {}
      OBVIOUS
    <3> QED
      BY <3>1, FS_EmptySet
  <2>3. ~ (m * Cardinality(Heavy(s)) <= SumFunctionOnSet(f, s))
    OBVIOUS
  <2> HIDE DEF Heavy, Bad
  <2> QED
    BY <2>1, <2>2, <2>3
<1>7. PICK t \in s : TRUE
  BY <1>6
<1>8. /\ SumFunctionOnSet(f, s) = f[t] + SumFunctionOnSet(f, s \ {t})
      /\ SumFunctionOnSet(f, s \ {t}) \in Nat
  <2>1. IsFiniteSet(s \ {t})
    BY <1>5, FS_RemoveElement
  <2>2. \A x \in s \ {t} : f[x] \in Nat
    BY <1>5
  <2>3. t \in s
    OBVIOUS
  <2> HIDE DEF Bad, N, Heavy
  <2>4. SumFunctionOnSet(f, s) = f[t] + SumFunctionOnSet(f, s \ {t})
    BY <1>5, <2>3, SumWithout
  <2>5. SumFunctionOnSet(f, s \ {t}) \in Nat
    BY <2>1, <2>2, SumFacts
  <2> QED
    BY <2>4, <2>5
<1>9. m * Cardinality(Heavy(s \ {t})) <= SumFunctionOnSet(f, s \ {t})
  <2> SUFFICES ASSUME s \ {t} \in Bad PROVE FALSE
    OBVIOUS
  <2>1. /\ Cardinality(s \ {t}) \in N /\ Cardinality(s \ {t}) = Cardinality(s) - 1
        /\ Cardinality(s) \in Nat \ {0}
    BY <1>5, OneLess
  <2> HIDE DEF N, Bad
  <2>2. n <= Cardinality(s \ {t})
    BY <1>3, <2>1
  <2> QED
    BY <1>4, <2>1, <2>2
<1>10. ~ (m * Cardinality(Heavy(s)) <= SumFunctionOnSet(f, s))
  OBVIOUS
<1>11. /\ f[t] \in Nat
       /\ IsFiniteSet(Heavy(s)) /\ Cardinality(Heavy(s)) \in Nat
       /\ Cardinality(Heavy(s \ {t})) \in Nat
  BY <1>1, <1>5
<1>12. CASE f[t] >= m
  <2>1. t \in Heavy(s) /\ Heavy(s \ {t}) = Heavy(s) \ {t}
    BY <1>12
  <2> HIDE DEF Heavy, Bad, N
  <2>2. Cardinality(Heavy(s)) = Cardinality(Heavy(s \ {t})) + 1
    <3> DEFINE h == Heavy(s)
    <3>1. /\ t \in h /\ IsFiniteSet(h)
          /\ Heavy(s) = h /\ Heavy(s \ {t}) = h \ {t}
      BY <1>11, <2>1
    <3> HIDE DEF h
    <3>2. Cardinality(h) \in Nat /\ Cardinality(h \ {t}) = Cardinality(h) - 1
      BY <3>1, OneLess
    <3>3. /\ Cardinality(Heavy(s)) = Cardinality(h)
          /\ Cardinality(Heavy(s \ {t})) = Cardinality(h \ {t})
      BY <3>1, Zenon
    <3> QED
      BY <3>2, <3>3
  <2>3. m * Cardinality(Heavy(s)) = m * Cardinality(Heavy(s \ {t})) + m
    BY <1>11, <2>2
  <2>4. m * Cardinality(Heavy(s \ {t})) \in Nat
    BY <1>11
  <2> QED
    BY <1>8, <1>9, <1>10, <1>11, <1>12, <2>3, <2>4
<1>13. CASE ~ (f[t] >= m)
  <2>1. Heavy(s \ {t}) = Heavy(s)
    BY <1>13
  <2> HIDE DEF Heavy, Bad, N
  <2>2. m * Cardinality(Heavy(s)) \in Nat
    BY <1>11
  <2> QED
    BY <1>8, <1>9, <1>10, <1>11, <2>1, <2>2
<1> QED
  BY <1>12, <1>13
=============================================================================
