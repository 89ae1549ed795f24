------------------------------ MODULE DataFacts -----------------------------
(***************************************************************************)
(* Lemmas about the data of the models, whatever the models are: induction *)
(* over numbers and finite sets, sums of a function over a finite set, the *)
(* largest of a set, and loops that push an entry for each row.            *)
(*                                                                         *)
(* What is said of every natural number or finite set is an induction, in  *)
(* the form of a set that is closed: the provers instantiate sets, and the *)
(* well-foundedness of < is a library theorem.                             *)
(***************************************************************************)
EXTENDS Integers, Sequences, FiniteSets, FiniteSetsExt, FiniteSetTheorems,
        WellFoundedInduction, TLAPS

-----------------------------------------------------------------------------
(* Induction *)

\* A set that holds 0 and the successor of what it holds has every natural number.
LEMMA NatClosure == \A G : 0 \in G /\ (\A n \in Nat : n \in G => n + 1 \in G) => Nat \subseteq G
<1> SUFFICES ASSUME NEW G, 0 \in G, \A n \in Nat : n \in G => n + 1 \in G, Nat \ G # {} PROVE FALSE
  OBVIOUS
<1> DEFINE R == {ss \in Nat \X Nat : ss[1] < ss[2]}
           T == Nat \ G
<1>1. IsWellFoundedOn(R, Nat)
  BY NatLessThanWellFounded DEF OpToRel
<1>2. \A x, y \in Nat : <<y, x>> \in R <=> y < x
  BY DEF R
<1>3. T \subseteq Nat /\ T # {}
  OBVIOUS
<1> HIDE DEF R, T
<1>4. PICK x \in T : \A y \in T : ~ (<<y, x>> \in R)
  BY <1>1, <1>3, WFMin
<1> USE DEF T
<1>5. x # 0 /\ x \in Nat
  OBVIOUS
<1>6. x - 1 \in Nat /\ x - 1 < x /\ (x - 1) + 1 = x
  BY <1>5
<1>7. x - 1 \in G
  BY <1>2, <1>4, <1>5, <1>6
<1> QED
  BY <1>5, <1>6, <1>7

\* The element the fold takes first, and what is left.
Taken(s) == CHOOSE x \in s : TRUE
Rest(s) == s \ {Taken(s)}

LEMMA RestSmaller ==
    ASSUME NEW s, IsFiniteSet(s), s # {}
    PROVE  /\ Taken(s) \in s /\ IsFiniteSet(Rest(s)) /\ Rest(s) \subseteq s
           /\ Cardinality(s) \in Nat /\ Cardinality(Rest(s)) = Cardinality(s) - 1
<1>1. Taken(s) \in s
  BY DEF Taken
<1> QED
  BY <1>1, FS_RemoveElement, FS_CardinalityType DEF Rest

\* A set of sets that holds {} and what is one element more than it holds has every subset.
LEMMA SubsetClosure ==
    ASSUME NEW S, IsFiniteSet(S), NEW H, {} \in H,
           \A s \in SUBSET S : s # {} /\ Rest(s) \in H => s \in H
    PROVE  SUBSET S \subseteq H
<1> DEFINE G == {n \in Nat : \A s \in SUBSET S : Cardinality(s) <= n => s \in H}
<1>0. \A s \in SUBSET S : IsFiniteSet(s) /\ Cardinality(s) \in Nat
  BY FS_Subset, FS_CardinalityType
<1>1. 0 \in G
  <2>1. \A s \in SUBSET S : Cardinality(s) <= 0 => s = {}
    BY <1>0, FS_EmptySet
  <2> QED
    BY <2>1
<1>2. ASSUME NEW n \in Nat, n \in G PROVE n + 1 \in G
  <2>1. ASSUME NEW s \in SUBSET S, Cardinality(s) <= n + 1, s # {} PROVE s \in H
    <3>1. Rest(s) \in SUBSET S /\ Cardinality(Rest(s)) = Cardinality(s) - 1
      BY <1>0, <2>1, RestSmaller
    <3>2. Cardinality(Rest(s)) <= n
      BY <1>0, <2>1, <3>1
    <3>3. Rest(s) \in H
      BY <1>2, <3>1, <3>2
    <3> QED
      BY <2>1, <3>3
  <2>2. \A s \in SUBSET S : Cardinality(s) <= n + 1 => s \in H
    BY <2>1
  <2>3. n + 1 \in Nat
    OBVIOUS
  <2> QED
    BY <2>2, <2>3
<1> HIDE DEF G
<1>3. Nat \subseteq G
  BY <1>1, <1>2, NatClosure
<1>4. ASSUME NEW s \in SUBSET S PROVE s \in H
  <2>1. Cardinality(s) \in G /\ Cardinality(s) <= Cardinality(s)
    BY <1>0, <1>3
  <2> QED
    BY <2>1 DEF G
<1> QED
  BY <1>4

-----------------------------------------------------------------------------
(* Sums *)

Sum(f, S) == FoldFunctionOnSet(+, 0, f, S)
IntOn(f, S) == \A x \in S : f[x] \in Int

\* Partial sums: what the fold computes for the subsets of S.
Adds(f, S, g) == g = [s \in SUBSET S |-> IF s = {} THEN 0 ELSE f[Taken(s)] + g[Rest(s)]]

LEMMA AddsExists ==
    ASSUME NEW f, NEW S, IsFiniteSet(S), IntOn(f, S)
    PROVE  \E g \in [SUBSET S -> Int] : Adds(f, S, g)
<1> DEFINE Step(g, s) == IF s = {} THEN 0 ELSE f[Taken(s)] + g[Rest(s)]
           G == {n \in Nat : \E g \in [SUBSET S -> Int] :
                                \A s \in SUBSET S : Cardinality(s) <= n => g[s] = Step(g, s)}
<1>0. \A s \in SUBSET S : IsFiniteSet(s) /\ Cardinality(s) \in Nat
  BY FS_Subset, FS_CardinalityType
<1>r. \A s \in SUBSET S : s # {} => /\ f[Taken(s)] \in Int /\ Rest(s) \in SUBSET S
                                    /\ Cardinality(Rest(s)) = Cardinality(s) - 1
  BY <1>0, RestSmaller DEF IntOn
<1>1. 0 \in G
  <2>1. \A s \in SUBSET S : Cardinality(s) <= 0 => s = {}
    BY <1>0, FS_EmptySet
  <2> DEFINE z == [s \in SUBSET S |-> 0]
  <2>2. z \in [SUBSET S -> Int] /\ \A s \in SUBSET S : Cardinality(s) <= 0 => z[s] = Step(z, s)
    BY <2>1
  <2> QED
    BY <2>2
<1>2. ASSUME NEW n \in Nat, n \in G PROVE n + 1 \in G
  <2>1. PICK g \in [SUBSET S -> Int] : \A s \in SUBSET S : Cardinality(s) <= n => g[s] = Step(g, s)
    BY <1>2
  <2> DEFINE h == [s \in SUBSET S |-> Step(g, s)]
  <2>2. h \in [SUBSET S -> Int]
    BY <1>r
  <2>3. ASSUME NEW s \in SUBSET S, Cardinality(s) <= n + 1 PROVE h[s] = Step(h, s)
    <3>1. CASE s = {}
      BY <3>1
    <3>2. CASE s # {}
      <4>1. Rest(s) \in SUBSET S /\ Cardinality(Rest(s)) <= n
        BY <1>0, <1>r, <2>3, <3>2
      <4>2. g[Rest(s)] = h[Rest(s)]
        BY <2>1, <4>1
      <4> QED
        BY <3>2, <4>1, <4>2
    <3> QED
      BY <3>1, <3>2
  <2> HIDE DEF h, Step
  <2>4. n + 1 \in Nat /\ \A s \in SUBSET S : Cardinality(s) <= n + 1 => h[s] = Step(h, s)
    BY <2>3
  <2> QED
    BY <2>2, <2>4
<1>3. Nat \subseteq G
  <2> HIDE DEF G
  <2> QED
    BY <1>1, <1>2, NatClosure
<1>4. PICK g \in [SUBSET S -> Int] :
         \A s \in SUBSET S : Cardinality(s) <= Cardinality(S) => g[s] = Step(g, s)
  <2>1. Cardinality(S) \in G
    BY <1>0, <1>3
  <2> QED
    BY <2>1
<1>5. \A s \in SUBSET S : Cardinality(s) <= Cardinality(S)
  BY FS_Subset
<1>6. g = [s \in SUBSET S |-> Step(g, s)]
  BY <1>4, <1>5
<1> QED
  BY <1>6 DEF Adds

LEMMA SumIsAdds ==
    ASSUME NEW f, NEW S, IsFiniteSet(S), IntOn(f, S)
    PROVE  \E g : /\ Adds(f, S, g) /\ Sum(f, S) = g[S]
                  /\ g[{}] = 0
                  /\ \A s \in SUBSET S : s # {} => g[s] = f[Taken(s)] + g[Rest(s)]
<1> DEFINE g == CHOOSE h : Adds(f, S, h)
<1>1. Adds(f, S, g)
  BY AddsExists
<1>2. Sum(f, S) = g[S]
  BY DEF Sum, FoldFunctionOnSet, MapThenFoldSet, Adds, Taken, Rest
<1> HIDE DEF g
<1>3. g[{}] = 0 /\ \A s \in SUBSET S : s # {} => g[s] = f[Taken(s)] + g[Rest(s)]
  BY <1>1 DEF Adds
<1> QED
  BY <1>1, <1>2, <1>3

\* The sum of integers, or of naturals, is one; zeros add up to zero.
LEMMA SumInt == ASSUME NEW f, NEW S, IsFiniteSet(S), IntOn(f, S) PROVE Sum(f, S) \in Int
<1>1. PICK g : /\ Adds(f, S, g) /\ Sum(f, S) = g[S] /\ g[{}] = 0
               /\ \A s \in SUBSET S : s # {} => g[s] = f[Taken(s)] + g[Rest(s)]
  BY SumIsAdds
<1> DEFINE H == {s \in SUBSET S : g[s] \in Int}
<1>2. {} \in H
  BY <1>1
<1>3. ASSUME NEW s \in SUBSET S, s # {}, Rest(s) \in H PROVE s \in H
  <2>1. f[Taken(s)] \in Int
    BY <1>3 DEF Taken, IntOn
  <2> QED
    BY <1>1, <1>3, <2>1
<1> HIDE DEF H
<1>4. SUBSET S \subseteq H
  BY <1>2, <1>3, SubsetClosure
<1> QED
  BY <1>1, <1>4 DEF H

LEMMA SumNat ==
    ASSUME NEW f, NEW S, IsFiniteSet(S), \A x \in S : f[x] \in Nat
    PROVE  Sum(f, S) \in Nat
<1>0. IntOn(f, S)
  BY DEF IntOn
<1>1. PICK g : /\ Adds(f, S, g) /\ Sum(f, S) = g[S] /\ g[{}] = 0
               /\ \A s \in SUBSET S : s # {} => g[s] = f[Taken(s)] + g[Rest(s)]
  BY <1>0, SumIsAdds
<1> DEFINE H == {s \in SUBSET S : g[s] \in Nat}
<1>2. {} \in H
  BY <1>1
<1>3. ASSUME NEW s \in SUBSET S, s # {}, Rest(s) \in H PROVE s \in H
  <2>1. f[Taken(s)] \in Nat
    BY <1>3 DEF Taken
  <2> QED
    BY <1>1, <1>3, <2>1
<1> HIDE DEF H
<1>4. SUBSET S \subseteq H
  BY <1>2, <1>3, SubsetClosure
<1> QED
  BY <1>1, <1>4 DEF H

LEMMA SumZeros ==
    ASSUME NEW f, NEW S, IsFiniteSet(S), \A x \in S : f[x] = 0
    PROVE  Sum(f, S) = 0
<1>0. IntOn(f, S)
  BY DEF IntOn
<1>1. PICK g : /\ Adds(f, S, g) /\ Sum(f, S) = g[S] /\ g[{}] = 0
               /\ \A s \in SUBSET S : s # {} => g[s] = f[Taken(s)] + g[Rest(s)]
  BY <1>0, SumIsAdds
<1> DEFINE H == {s \in SUBSET S : g[s] = 0}
<1>2. {} \in H
  BY <1>1
<1>3. ASSUME NEW s \in SUBSET S, s # {}, Rest(s) \in H PROVE s \in H
  <2>1. f[Taken(s)] = 0
    BY <1>3 DEF Taken
  <2> QED
    BY <1>1, <1>3, <2>1
<1> HIDE DEF H
<1>4. SUBSET S \subseteq H
  BY <1>2, <1>3, SubsetClosure
<1> QED
  BY <1>1, <1>4 DEF H

\* What is changed at one element changes the sum by as much.
LEMMA SumChange ==
    ASSUME NEW f, NEW h, NEW S, IsFiniteSet(S), IntOn(f, S), IntOn(h, S),
           NEW t, \A x \in S \ {t} : h[x] = f[x]
    PROVE  Sum(h, S) = Sum(f, S) + IF t \in S THEN h[t] - f[t] ELSE 0
<1>1. PICK g : /\ Adds(f, S, g) /\ Sum(f, S) = g[S] /\ g[{}] = 0
               /\ \A s \in SUBSET S : s # {} => g[s] = f[Taken(s)] + g[Rest(s)]
  BY SumIsAdds
<1>2. PICK k : /\ Adds(h, S, k) /\ Sum(h, S) = k[S] /\ k[{}] = 0
               /\ \A s \in SUBSET S : s # {} => k[s] = h[Taken(s)] + k[Rest(s)]
  BY SumIsAdds
<1> DEFINE H == {s \in SUBSET S : /\ g[s] \in Int
                                  /\ k[s] = g[s] + IF t \in s THEN h[t] - f[t] ELSE 0}
<1>3. {} \in H
  BY <1>1, <1>2
<1>4. ASSUME NEW s \in SUBSET S, s # {}, Rest(s) \in H PROVE s \in H
  <2>1. /\ f[Taken(s)] \in Int /\ h[Taken(s)] \in Int
        /\ t \in s => f[t] \in Int /\ h[t] \in Int
    BY <1>4 DEF Taken, IntOn
  <2>2. /\ g[s] = f[Taken(s)] + g[Rest(s)] /\ k[s] = h[Taken(s)] + k[Rest(s)]
        /\ g[Rest(s)] \in Int
        /\ k[Rest(s)] = g[Rest(s)] + IF t \in Rest(s) THEN h[t] - f[t] ELSE 0
    BY <1>1, <1>2, <1>4
  <2>3. CASE Taken(s) = t
    <3>1. t \in s /\ t \notin Rest(s)
      BY <1>4, <2>3 DEF Taken, Rest
    <3> QED
      BY <2>1, <2>2, <2>3, <3>1
  <2>4. CASE Taken(s) # t
    <3>1. /\ t \in s <=> t \in Rest(s)
          /\ h[Taken(s)] = f[Taken(s)]
      BY <1>4, <2>4 DEF Taken, Rest
    <3> QED
      BY <2>1, <2>2, <3>1
  <2> QED
    BY <2>3, <2>4
<1> HIDE DEF H
<1>5. SUBSET S \subseteq H
  BY <1>3, <1>4, SubsetClosure
<1> QED
  BY <1>1, <1>2, <1>5 DEF H

\* A sum, one element apart; of two functions that agree; of a difference; of disjoint sets.
LEMMA SumOut ==
    ASSUME NEW f, NEW S, IsFiniteSet(S), IntOn(f, S), NEW t \in S
    PROVE  Sum(f, S) = f[t] + Sum(f, S \ {t}) /\ Sum(f, S) \in Int
<1>1. PICK g : /\ Adds(f, S, g) /\ Sum(f, S) = g[S] /\ g[{}] = 0
               /\ \A s \in SUBSET S : s # {} => g[s] = f[Taken(s)] + g[Rest(s)]
  BY SumIsAdds
<1>i. \A s \in SUBSET S : g[s] \in Int
  <2> DEFINE H == {s \in SUBSET S : g[s] \in Int}
  <2>1. {} \in H
    BY <1>1
  <2>2. ASSUME NEW s \in SUBSET S, s # {}, Rest(s) \in H PROVE s \in H
    <3>1. f[Taken(s)] \in Int
      BY <2>2 DEF Taken, IntOn
    <3> QED
      BY <1>1, <2>2, <3>1
  <2> HIDE DEF H
  <2>3. SUBSET S \subseteq H
    BY <2>1, <2>2, SubsetClosure
  <2> QED
    BY <2>3 DEF H
<1> DEFINE G == {n \in Nat : \A s \in SUBSET S : Cardinality(s) <= n =>
                                \A u \in s : g[s] = f[u] + g[s \ {u}]}
<1>0. \A s \in SUBSET S : IsFiniteSet(s) /\ Cardinality(s) \in Nat
  BY FS_Subset, FS_CardinalityType
<1>2. 0 \in G
  <2>1. \A s \in SUBSET S : Cardinality(s) <= 0 => s = {}
    BY <1>0, FS_EmptySet
  <2> QED
    BY <2>1
<1>3. ASSUME NEW n \in Nat, n \in G PROVE n + 1 \in G
  <2>1. ASSUME NEW s \in SUBSET S, Cardinality(s) <= n + 1, NEW u \in s
        PROVE  g[s] = f[u] + g[s \ {u}]
    <3> DEFINE x == Taken(s)
    <3>1. x \in s /\ Rest(s) = s \ {x} /\ g[s] = f[x] + g[s \ {x}]
      BY <1>1 DEF Taken, Rest
    <3>2. f[x] \in Int /\ f[u] \in Int
      BY <3>1 DEF IntOn
    <3> HIDE DEF x
    <3>3. CASE x = u
      BY <3>1, <3>3
    <3>4. CASE x # u
      <4>1. \A y \in s : Cardinality(s \ {y}) <= n
        BY <1>0, <2>1, FS_RemoveElement
      <4>2. g[s \ {x}] = f[u] + g[(s \ {u}) \ {x}]
        <5>1. (s \ {x}) \ {u} = (s \ {u}) \ {x} /\ s \ {x} \in SUBSET S /\ u \in s \ {x}
          BY <3>1, <3>4
        <5>2. g[s \ {x}] = f[u] + g[(s \ {x}) \ {u}]
          BY <1>3, <3>1, <4>1, <5>1
        <5> QED
          BY <5>1, <5>2
      <4>3. g[s \ {u}] = f[x] + g[(s \ {u}) \ {x}]
        BY <1>3, <3>1, <3>4, <4>1
      <4>4. g[(s \ {u}) \ {x}] \in Int
        BY <1>i
      <4> QED
        BY <3>1, <3>2, <4>2, <4>3, <4>4
    <3> QED
      BY <3>3, <3>4
  <2> QED
    BY <2>1
<1> HIDE DEF G
<1>4. Nat \subseteq G
  BY <1>2, <1>3, NatClosure
<1>5. g[S] = f[t] + g[S \ {t}]
  <2>1. Cardinality(S) \in G /\ Cardinality(S) <= Cardinality(S)
    BY <1>0, <1>4
  <2> QED
    BY <2>1 DEF G
<1> DEFINE R == S \ {t}
<1>6. IsFiniteSet(R) /\ IntOn(f, R) /\ R \subseteq S
  BY FS_Subset DEF IntOn
<1> HIDE DEF R
<1>7. PICK k : /\ Adds(f, R, k) /\ Sum(f, R) = k[R] /\ k[{}] = 0
               /\ \A s \in SUBSET R : s # {} => k[s] = f[Taken(s)] + k[Rest(s)]
  BY <1>6, SumIsAdds
<1>8. k[R] = g[R]
  <2> DEFINE H == {s \in SUBSET R : k[s] = g[s]}
  <2>1. {} \in H
    BY <1>1, <1>7
  <2>2. ASSUME NEW s \in SUBSET R, s # {}, Rest(s) \in H PROVE s \in H
    BY <1>1, <1>6, <1>7, <2>2
  <2> HIDE DEF H
  <2>3. SUBSET R \subseteq H
    BY <1>6, <2>1, <2>2, SubsetClosure
  <2> QED
    BY <2>3 DEF H
<1> QED
  BY <1>1, <1>5, <1>7, <1>8, <1>i DEF R

LEMMA SumEmpty == \A f : Sum(f, {}) = 0
<1> TAKE f
<1>1. IsFiniteSet({}) /\ IntOn(f, {})
  BY FS_EmptySet DEF IntOn
<1> QED
  BY <1>1, SumIsAdds

LEMMA SumAgree ==
    ASSUME NEW f, NEW h, NEW S, IsFiniteSet(S), IntOn(f, S), \A x \in S : h[x] = f[x]
    PROVE  Sum(h, S) = Sum(f, S)
<1>1. IntOn(h, S)
  BY DEF IntOn
<1>2. Sum(h, S) = Sum(f, S) + IF S \in S THEN h[S] - f[S] ELSE 0
  BY <1>1, SumChange
<1>3. S \in S => h[S] - f[S] = 0
  BY DEF IntOn
<1> QED
  BY <1>2, <1>3, SumInt

LEMMA SumMinus ==
    ASSUME NEW f, NEW h, NEW k, NEW S, IsFiniteSet(S), IntOn(f, S), IntOn(h, S),
           \A x \in S : k[x] = f[x] - h[x]
    PROVE  Sum(k, S) = Sum(f, S) - Sum(h, S)
<1>0. IntOn(k, S)
  BY DEF IntOn
<1> DEFINE H == {s \in SUBSET S : Sum(k, s) = Sum(f, s) - Sum(h, s)}
<1>1. {} \in H
  BY SumEmpty
<1>2. ASSUME NEW s \in SUBSET S, s # {}, Rest(s) \in H PROVE s \in H
  <2> DEFINE t == Taken(s)
  <2>1. t \in s /\ Rest(s) = s \ {t} /\ IsFiniteSet(s) /\ IsFiniteSet(Rest(s))
    BY <1>2, FS_Subset, FS_RemoveElement DEF Taken, Rest
  <2>2. IntOn(f, s) /\ IntOn(h, s) /\ IntOn(k, s) /\ IntOn(f, Rest(s)) /\ IntOn(h, Rest(s))
    BY <1>0, <2>1 DEF IntOn
  <2> HIDE DEF t
  <2>3. /\ Sum(f, s) = f[t] + Sum(f, Rest(s)) /\ Sum(h, s) = h[t] + Sum(h, Rest(s))
        /\ Sum(k, s) = k[t] + Sum(k, Rest(s))
    BY <2>1, <2>2, SumOut
  <2>4. f[t] \in Int /\ h[t] \in Int /\ k[t] = f[t] - h[t]
    BY <2>1, <2>2 DEF IntOn
  <2>5. Sum(f, Rest(s)) \in Int /\ Sum(h, Rest(s)) \in Int
    BY <2>1, <2>2, SumInt
  <2>6. Sum(k, Rest(s)) = Sum(f, Rest(s)) - Sum(h, Rest(s))
    BY <1>2
  <2> QED
    BY <2>3, <2>4, <2>5, <2>6
<1> HIDE DEF H
<1>3. SUBSET S \subseteq H
  BY <1>1, <1>2, SubsetClosure
<1> QED
  BY <1>3 DEF H

LEMMA SumSplit ==
    ASSUME NEW f, NEW S, IsFiniteSet(S), IntOn(f, S), NEW T \in SUBSET S
    PROVE  Sum(f, S) = Sum(f, T) + Sum(f, S \ T)
<1> DEFINE R == S \ T
           H == {s \in SUBSET R : Sum(f, T \cup s) = Sum(f, T) + Sum(f, s)}
<1>0. \A s \in SUBSET S : IsFiniteSet(s) /\ IntOn(f, s) /\ Sum(f, s) \in Int
  BY FS_Subset, SumInt DEF IntOn
<1>1. {} \in H
  <2>1. T \cup {} = T /\ Sum(f, T) \in Int
    BY <1>0
  <2> QED
    BY <2>1, SumEmpty
<1>2. ASSUME NEW s \in SUBSET R, s # {}, Rest(s) \in H PROVE s \in H
  <2> DEFINE t == Taken(s)
             U == T \cup s
             V == T \cup Rest(s)
  <2>1. t \in s /\ Rest(s) = s \ {t} /\ t \in U /\ V = U \ {t}
    BY <1>2 DEF Taken, Rest
  <2>2. U \in SUBSET S /\ V \in SUBSET S /\ s \in SUBSET S /\ Rest(s) \in SUBSET S
    BY <2>1
  <2>3. Sum(f, V) = Sum(f, T) + Sum(f, Rest(s))
    BY <1>2
  <2>s. f[t] \in Int
    BY <2>1, <2>2 DEF IntOn
  <2> HIDE DEF t, U, V
  <2>4. Sum(f, U) = f[t] + Sum(f, V)
    BY <1>0, <2>1, <2>2, SumOut
  <2>5. Sum(f, s) = f[t] + Sum(f, Rest(s))
    BY <1>0, <2>1, <2>2, SumOut
  <2>6. Sum(f, U) = Sum(f, T) + Sum(f, s)
    BY <1>0, <2>2, <2>3, <2>4, <2>5, <2>s
  <2> QED
    BY <2>6 DEF U
<1> HIDE DEF H
<1>3. SUBSET R \subseteq H
  <2>1. IsFiniteSet(R)
    BY <1>0
  <2> QED
    BY <1>1, <1>2, <2>1, SubsetClosure
<1>4. T \cup R = S
  OBVIOUS
<1>5. R \in H
  BY <1>3
<1> QED
  BY <1>4, <1>5 DEF H

-----------------------------------------------------------------------------
(* The largest and the smallest *)

LEMMA MaxOf ==
    ASSUME NEW S \in SUBSET Int, IsFiniteSet(S), S # {}
    PROVE  Max(S) \in S /\ \A x \in S : x <= Max(S)
<1> DEFINE H == {s \in SUBSET S : s # {} => \E m \in s : \A x \in s : m >= x}
<1>1. {} \in H
  OBVIOUS
<1>2. ASSUME NEW s \in SUBSET S, s # {}, Rest(s) \in H PROVE s \in H
  <2>1. Taken(s) \in s /\ s = Rest(s) \cup {Taken(s)} /\ Rest(s) \subseteq S /\ Taken(s) \in Int
    BY <1>2 DEF Taken, Rest
  <2>2. CASE Rest(s) = {}
    BY <2>1, <2>2
  <2>3. CASE Rest(s) # {}
    <3>1. PICK m \in Rest(s) : \A x \in Rest(s) : m >= x
      BY <1>2, <2>3
    <3>2. m >= Taken(s) \/ Taken(s) >= m
      <4>1. m \in Int
        BY <2>1, <3>1
      <4> QED
        BY <2>1, <4>1
    <3>3. \E k \in s : \A x \in s : k >= x
      <4>1. CASE m >= Taken(s)
        BY <2>1, <3>1, <4>1
      <4>2. CASE Taken(s) >= m
        <5>1. \A x \in s : x \in Int /\ m \in Int
          BY <2>1, <3>1
        <5> QED
          BY <2>1, <3>1, <4>2, <5>1
      <4> QED
        BY <3>2, <4>1, <4>2
    <3> QED
      BY <3>3
  <2> QED
    BY <2>2, <2>3
<1> HIDE DEF H
<1>3. S \in H
  BY <1>1, <1>2, SubsetClosure
<1>4. \E m \in S : \A x \in S : m >= x
  BY <1>3 DEF H
<1>5. Max(S) \in S /\ \A x \in S : Max(S) >= x
  BY <1>4 DEF Max
<1> QED
  BY <1>5

LEMMA MinOf ==
    ASSUME NEW S \in SUBSET Int, IsFiniteSet(S), S # {}
    PROVE  Min(S) \in S /\ \A x \in S : Min(S) <= x
<1> DEFINE H == {s \in SUBSET S : s # {} => \E m \in s : \A x \in s : m <= x}
<1>1. {} \in H
  OBVIOUS
<1>2. ASSUME NEW s \in SUBSET S, s # {}, Rest(s) \in H PROVE s \in H
  <2>1. Taken(s) \in s /\ s = Rest(s) \cup {Taken(s)} /\ Rest(s) \subseteq S /\ Taken(s) \in Int
    BY <1>2 DEF Taken, Rest
  <2>2. CASE Rest(s) = {}
    BY <2>1, <2>2
  <2>3. CASE Rest(s) # {}
    <3>1. PICK m \in Rest(s) : \A x \in Rest(s) : m <= x
      BY <1>2, <2>3
    <3>2. m <= Taken(s) \/ Taken(s) <= m
      <4>1. m \in Int
        BY <2>1, <3>1
      <4> QED
        BY <2>1, <4>1
    <3>3. \E k \in s : \A x \in s : k <= x
      <4>1. CASE m <= Taken(s)
        BY <2>1, <3>1, <4>1
      <4>2. CASE Taken(s) <= m
        <5>1. \A x \in s : x \in Int /\ m \in Int
          BY <2>1, <3>1
        <5> QED
          BY <2>1, <3>1, <4>2, <5>1
      <4> QED
        BY <3>2, <4>1, <4>2
    <3> QED
      BY <3>3
  <2> QED
    BY <2>2, <2>3
<1> HIDE DEF H
<1>3. S \in H
  BY <1>1, <1>2, SubsetClosure
<1>4. \E m \in S : \A x \in S : m <= x
  BY <1>3 DEF H
<1> QED
  BY <1>4 DEF Min

LEMMA MinTwo == \A x, y \in Nat : Min({x, y}) = IF x <= y THEN x ELSE y
<1> TAKE x, y \in Nat
<1>1. IsFiniteSet({x, y})
  <2>1. {x, y} = {x} \cup {y}
    OBVIOUS
  <2>2. IsFiniteSet({x})
    BY FS_Singleton
  <2> QED
    BY <2>1, <2>2, FS_AddElement
<1>2. Min({x, y}) \in {x, y} /\ \A z \in {x, y} : Min({x, y}) <= z
  BY <1>1, MinOf
<1> QED
  BY <1>2

\* The values of a function on 1..n are a finite set.
LEMMA ValuesFinite ==
    ASSUME NEW n \in Nat, NEW v, DOMAIN v = 1..n
    PROVE  IsFiniteSet({v[i] : i \in 1..n})
<1> DEFINE G == {m \in Nat : IsFiniteSet({v[i] : i \in 1..m})}
<1>1. 0 \in G
  <2>1. {v[i] : i \in 1..0} = {}
    OBVIOUS
  <2> QED
    BY <2>1, FS_EmptySet
<1>2. ASSUME NEW m \in Nat, m \in G PROVE m + 1 \in G
  <2>1. {v[i] : i \in 1..(m + 1)} = {v[i] : i \in 1..m} \cup {v[m + 1]}
    <3>1. 1..(m + 1) = 1..m \cup {m + 1}
      OBVIOUS
    <3> QED
      BY <3>1
  <2>2. IsFiniteSet({v[i] : i \in 1..m})
    BY <1>2
  <2> QED
    BY <2>1, <2>2, FS_AddElement
<1> HIDE DEF G
<1>3. n \in G
  BY <1>1, <1>2, NatClosure
<1> QED
  BY <1>3 DEF G

-----------------------------------------------------------------------------
(* Ranks: the i-th smallest of a finite set *)

Rank(S, x) == Cardinality({y \in S : y <= x})

LEMMA RankRange ==
    ASSUME NEW S \in SUBSET Int, IsFiniteSet(S), NEW x \in S
    PROVE  Rank(S, x) \in 1..Cardinality(S)
<1> DEFINE T == {y \in S : y <= x}
<1>1. T \in SUBSET S /\ x \in T /\ IsFiniteSet(T)
  BY FS_Subset
<1>2. Cardinality(T) <= Cardinality(S) /\ Cardinality(T) \in Nat /\ Cardinality(S) \in Nat
  BY <1>1, FS_Subset, FS_CardinalityType
<1>3. Cardinality(T) # 0
  BY <1>1, FS_EmptySet
<1> HIDE DEF T
<1>4. Cardinality(T) \in 1..Cardinality(S)
  BY <1>2, <1>3
<1> QED
  BY <1>4 DEF T, Rank

LEMMA RankUp ==
    ASSUME NEW S \in SUBSET Int, IsFiniteSet(S), NEW x \in S, NEW y \in S, x < y
    PROVE  Rank(S, x) < Rank(S, y)
<1> DEFINE T == {z \in S : z <= x}
           U == {z \in S : z <= y}
<1>1. T \in SUBSET U /\ y \in U /\ y \notin T /\ IsFiniteSet(U) /\ IsFiniteSet(T)
  <2>1. \A z \in S : z <= x => z <= y
    OBVIOUS
  <2>2. ~ (y <= x) /\ y <= y
    OBVIOUS
  <2>3. T \in SUBSET S /\ U \in SUBSET S /\ T \in SUBSET U /\ y \in U /\ y \notin T
    BY <2>1, <2>2
  <2> QED
    BY <2>3, FS_Subset
<1>2. Cardinality(T) <= Cardinality(U) /\ Cardinality(T) # Cardinality(U)
  BY <1>1, FS_Subset
<1>3. Cardinality(T) \in Nat /\ Cardinality(U) \in Nat
  BY <1>1, FS_CardinalityType
<1> HIDE DEF T, U
<1>4. Cardinality(T) < Cardinality(U)
  BY <1>2, <1>3
<1> QED
  BY <1>4 DEF T, U, Rank

LEMMA RankOnto ==
    ASSUME NEW S \in SUBSET Int, IsFiniteSet(S)
    PROVE  \A i \in 1..Cardinality(S) : \E x \in S : Rank(S, x) = i
<1> DEFINE G == {n \in Nat : \A s \in SUBSET S : Cardinality(s) = n =>
                                \A i \in 1..n : \E x \in s : Rank(s, x) = i}
<1>0. \A s \in SUBSET S : IsFiniteSet(s) /\ Cardinality(s) \in Nat /\ s \in SUBSET Int
  BY FS_Subset, FS_CardinalityType
<1>1. 0 \in G
  OBVIOUS
<1>2. ASSUME NEW n \in Nat, n \in G PROVE n + 1 \in G
  <2>1. ASSUME NEW s \in SUBSET S, Cardinality(s) = n + 1, NEW i \in 1..(n + 1)
        PROVE  \E x \in s : Rank(s, x) = i
    <3> DEFINE m == Max(s)
               r == s \ {m}
    <3>1. s # {}
      BY <2>1, FS_EmptySet
    <3>2. m \in s /\ \A x \in s : x <= m
      BY <1>0, <3>1, MaxOf
    <3> HIDE DEF m
    <3>3. r \in SUBSET S /\ Cardinality(r) = n
      <4>1. IsFiniteSet(s) /\ r \in SUBSET S
        BY <1>0
      <4>2. Cardinality(r) = Cardinality(s) - 1
        BY <3>2, <4>1, FS_RemoveElement
      <4> QED
        BY <2>1, <4>1, <4>2
    <3>4. CASE i = n + 1
      <4>1. {y \in s : y <= m} = s
        BY <3>2
      <4>2. Rank(s, m) = i
        BY <2>1, <3>4, <4>1 DEF Rank
      <4> QED
        BY <3>2, <4>2
    <3>5. CASE i # n + 1
      <4>1. i \in 1..n
        BY <3>5
      <4>2. PICK x \in r : Rank(r, x) = i
        BY <1>2, <3>3, <4>1
      <4>3. x \in Int /\ m \in Int /\ x <= m /\ x # m
        BY <1>0, <3>2, <4>2
      <4>4. {y \in s : y <= x} = {y \in r : y <= x}
        BY <4>3
      <4>5. Rank(s, x) = i
        BY <4>2, <4>4 DEF Rank
      <4> QED
        BY <4>2, <4>5
    <3> QED
      BY <3>4, <3>5
  <2> QED
    BY <2>1
<1> HIDE DEF G
<1>3. Cardinality(S) \in G
  BY <1>0, <1>1, <1>2, NatClosure
<1> QED
  BY <1>3 DEF G

-----------------------------------------------------------------------------
(* Loops that push an entry for each of n rows: entry i is what step i     *)
(* makes of the entries before it.  FoldLeft takes the last index of a set *)
(* of indices and goes on with the others, so that its results are there   *)
(* for every set of indices.                                               *)

Steps(E, n) == [1..n -> [Seq(E) -> E]]
Prefix(out, i) == [j \in 1..i |-> out[j]]
Unrolled(out, E, n, step) ==
    out \in Seq(E) /\ Len(out) = n /\ \A i \in 1..n : out[i] = step[i][Prefix(out, i - 1)]

\* the last index of s, and the others
Earlier(s) == s \ {Max(s)}
Folded(g, E, n, step) ==
    /\ g[{}] = << >>
    /\ \A s \in SUBSET (1..n) : s # {} /\ g[Earlier(s)] \in Seq(E)
                                 => g[s] = Append(g[Earlier(s)], step[Max(s)][g[Earlier(s)]])

LEMMA Indices ==
    ASSUME NEW n \in Nat
    PROVE  /\ IsFiniteSet(1..n) /\ Cardinality(1..n) = n
           /\ \A s \in SUBSET (1..n) : /\ IsFiniteSet(s) /\ Cardinality(s) \in Nat
                                      /\ Cardinality(s) <= n /\ s \in SUBSET Int
<1>1. IsFiniteSet(1..n) /\ Cardinality(1..n) = n
  BY FS_Interval
<1>2. ASSUME NEW s \in SUBSET (1..n)
      PROVE  IsFiniteSet(s) /\ Cardinality(s) \in Nat /\ Cardinality(s) <= n /\ s \in SUBSET Int
  <2>1. IsFiniteSet(s) /\ Cardinality(s) <= Cardinality(1..n)
    BY <1>1, FS_Subset
  <2> QED
    BY <1>1, <2>1, FS_CardinalityType
<1> QED
  BY <1>1, <1>2

LEMMA LastIndex ==
    ASSUME NEW n \in Nat, NEW s \in SUBSET (1..n), s # {}
    PROVE  /\ Max(s) \in s /\ Earlier(s) \in SUBSET (1..n) /\ IsFiniteSet(s)
           /\ Cardinality(s) \in Nat /\ Cardinality(Earlier(s)) = Cardinality(s) - 1
<1>1. IsFiniteSet(s) /\ s \in SUBSET Int
  BY Indices
<1>2. Max(s) \in s
  BY <1>1, MaxOf
<1> QED
  BY <1>1, <1>2, FS_RemoveElement, FS_CardinalityType DEF Earlier

Computes(g, n, step) ==
    \A s \in SUBSET (1..n) :
       g[s] = IF s = {} THEN << >> ELSE Append(g[Earlier(s)], step[Max(s)][g[Earlier(s)]])

LEMMA LoopExists ==
    ASSUME NEW n \in Nat, NEW E, NEW step \in Steps(E, n)
    PROVE  \E g \in [SUBSET (1..n) -> Seq(E)] : Computes(g, n, step)
<1> DEFINE D == SUBSET (1..n)
           Next(g, s) == IF s = {} THEN << >> ELSE Append(g[Earlier(s)], step[Max(s)][g[Earlier(s)]])
           G == {m \in Nat : \E g \in [D -> Seq(E)] :
                                \A s \in D : Cardinality(s) <= m => g[s] = Next(g, s)}
<1>0. \A s \in D : IsFiniteSet(s) /\ Cardinality(s) \in Nat
  BY Indices
<1>r. \A s \in D : s # {} => /\ Max(s) \in 1..n /\ Earlier(s) \in D
                            /\ Cardinality(Earlier(s)) = Cardinality(s) - 1
  BY LastIndex
<1>s. \A i \in 1..n : \A x \in Seq(E) : step[i][x] \in E
  BY DEF Steps
<1>a. \A x \in Seq(E), e \in E : Append(x, e) \in Seq(E)
  OBVIOUS
<1>1. 0 \in G
  <2>1. \A s \in D : Cardinality(s) <= 0 => s = {}
    BY <1>0, FS_EmptySet
  <2> DEFINE z == [s \in D |-> << >>]
  <2>2. z \in [D -> Seq(E)] /\ \A s \in D : Cardinality(s) <= 0 => z[s] = Next(z, s)
    BY <2>1
  <2> QED
    BY <2>2
<1>2. ASSUME NEW m \in Nat, m \in G PROVE m + 1 \in G
  <2>1. PICK g \in [D -> Seq(E)] : \A s \in D : Cardinality(s) <= m => g[s] = Next(g, s)
    BY <1>2
  <2> DEFINE h == [s \in D |-> Next(g, s)]
  <2>2. h \in [D -> Seq(E)]
    <3>1. ASSUME NEW s \in D PROVE Next(g, s) \in Seq(E)
      <4>1. CASE s = {}
        BY <4>1
      <4>2. CASE s # {}
        <5>1. g[Earlier(s)] \in Seq(E) /\ step[Max(s)][g[Earlier(s)]] \in E
          BY <1>r, <1>s, <2>1, <4>2
        <5> QED
          BY <1>a, <4>2, <5>1
      <4> QED
        BY <4>1, <4>2
    <3> HIDE DEF Next
    <3> QED
      BY <3>1
  <2>3. ASSUME NEW s \in D, Cardinality(s) <= m + 1 PROVE h[s] = Next(h, s)
    <3>1. CASE s = {}
      BY <3>1
    <3>2. CASE s # {}
      <4>1. Earlier(s) \in D /\ Cardinality(Earlier(s)) <= m
        BY <1>0, <1>r, <2>3, <3>2
      <4>2. g[Earlier(s)] = h[Earlier(s)]
        BY <2>1, <4>1
      <4> QED
        BY <3>2, <4>1, <4>2
    <3> QED
      BY <3>1, <3>2
  <2> HIDE DEF h, Next
  <2>4. m + 1 \in Nat /\ \A s \in D : Cardinality(s) <= m + 1 => h[s] = Next(h, s)
    BY <2>3
  <2> QED
    BY <2>2, <2>4
<1>3. Nat \subseteq G
  <2> HIDE DEF G
  <2> QED
    BY <1>1, <1>2, NatClosure
<1>4. PICK g \in [D -> Seq(E)] : \A s \in D : Cardinality(s) <= n => g[s] = Next(g, s)
  BY <1>3
<1>5. \A s \in D : Cardinality(s) <= n
  BY Indices
<1> QED
  BY <1>4, <1>5 DEF Computes

\* What a fold over the indices computes, whatever it computes for other entries than those in E.
LEMMA LoopUnrolled ==
    ASSUME NEW n \in Nat, NEW E, NEW step \in Steps(E, n), NEW g, Folded(g, E, n, step)
    PROVE  Unrolled(g[1..n], E, n, step)
<1> DEFINE G == {m \in Nat : m <= n => Unrolled(g[1..m], E, m, step)}
<1>1. 0 \in G
  <2>1. 1..0 = {}
    OBVIOUS
  <2>2. g[1..0] = << >>
    BY <2>1 DEF Folded
  <2>3. << >> \in Seq(E) /\ Len(<< >>) = 0
    OBVIOUS
  <2> QED
    BY <2>1, <2>2, <2>3 DEF Unrolled
<1>i. ASSUME NEW m \in Nat, m + 1 <= n
      PROVE  Max(1..(m + 1)) = m + 1 /\ 1..(m + 1) \in SUBSET (1..n) /\ 1..(m + 1) # {}
  <2>1. 1..(m + 1) \in SUBSET (1..n) /\ m + 1 \in 1..(m + 1)
    BY <1>i
  <2>2. IsFiniteSet(1..(m + 1)) /\ 1..(m + 1) \in SUBSET Int
    BY <1>i, FS_Interval
  <2>3. Max(1..(m + 1)) \in 1..(m + 1) /\ \A k \in 1..(m + 1) : k <= Max(1..(m + 1))
    BY <2>1, <2>2, MaxOf
  <2> QED
    BY <2>1, <2>3
<1>2. ASSUME NEW m \in Nat, m \in G PROVE m + 1 \in G
  <2> SUFFICES ASSUME m + 1 <= n PROVE Unrolled(g[1..(m + 1)], E, m + 1, step)
    OBVIOUS
  <2> DEFINE s == 1..(m + 1)
             x == g[1..m]
             e == step[m + 1][x]
             y == g[s]
  <2>1. x \in Seq(E) /\ Len(x) = m /\ \A i \in 1..m : x[i] = step[i][Prefix(x, i - 1)]
    BY <1>2 DEF Unrolled
  <2>2. Max(s) = m + 1 /\ s \in SUBSET (1..n) /\ s # {}
    BY <1>i
  <2>3. Earlier(s) = 1..m
    BY <2>2 DEF Earlier
  <2>4. y = Append(x, e)
    BY <2>1, <2>2, <2>3 DEF Folded
  <2>5. e \in E
    <3>1. m + 1 \in 1..n
      OBVIOUS
    <3> QED
      BY <2>1, <3>1 DEF Steps
  <2> HIDE DEF e, x, y
  <2>6. y \in Seq(E) /\ Len(y) = m + 1 /\ y[m + 1] = e /\ \A i \in 1..m : y[i] = x[i]
    BY <2>1, <2>4, <2>5
  <2>7. Prefix(y, m) = x
    <3>1. DOMAIN x = 1..m /\ x = [j \in 1..m |-> x[j]]
      BY <2>1
    <3> QED
      BY <2>6, <3>1 DEF Prefix
  <2>8. \A i \in 1..m : Prefix(y, i - 1) = Prefix(x, i - 1)
    <3>1. ASSUME NEW i \in 1..m PROVE \A j \in 1..(i - 1) : y[j] = x[j]
      BY <2>6
    <3> QED
      BY <3>1 DEF Prefix
  <2>9. ASSUME NEW i \in 1..(m + 1) PROVE y[i] = step[i][Prefix(y, i - 1)]
    <3>1. CASE i = m + 1
      <4>1. i - 1 = m
        BY <3>1
      <4> QED
        BY <2>6, <2>7, <3>1, <4>1 DEF e
    <3>2. CASE i # m + 1
      <4>1. i \in 1..m
        BY <3>2
      <4> QED
        BY <2>1, <2>6, <2>8, <4>1
    <3> QED
      BY <3>1, <3>2
  <2>10. Unrolled(y, E, m + 1, step)
    BY <2>6, <2>9 DEF Unrolled
  <2> QED
    BY <2>10 DEF y
<1> HIDE DEF G
<1>3. n \in G
  BY <1>1, <1>2, NatClosure
<1> QED
  BY <1>3 DEF G

\* Loops that make the same steps at first have the same entries at first.
LEMMA LoopsAgree ==
    ASSUME NEW n \in Nat, NEW m \in Nat, m <= n, NEW E, NEW step, NEW other, NEW out, NEW less,
           Unrolled(out, E, n, step), Unrolled(less, E, m, other),
           \A i \in 1..m : other[i] = step[i]
    PROVE  less = Prefix(out, m)
<1> DEFINE G == {k \in Nat : k <= m => \A i \in 1..k : less[i] = out[i]}
<1>1. 0 \in G
  OBVIOUS
<1>2. ASSUME NEW k \in Nat, k \in G PROVE k + 1 \in G
  <2> SUFFICES ASSUME k + 1 <= m PROVE less[k + 1] = out[k + 1]
    BY <1>2
  <2>1. Prefix(less, k) = Prefix(out, k)
    BY <1>2 DEF Prefix
  <2>2. k + 1 \in 1..m /\ k + 1 \in 1..n /\ (k + 1) - 1 = k
    OBVIOUS
  <2> QED
    BY <2>1, <2>2 DEF Unrolled
<1> HIDE DEF G
<1>3. m \in G
  BY <1>1, <1>2, NatClosure
<1>4. \A i \in 1..m : less[i] = out[i]
  BY <1>3 DEF G
<1>5. less = [j \in 1..m |-> less[j]]
  BY DEF Unrolled
<1> QED
  BY <1>4, <1>5 DEF Prefix

LEMMA ElementOf ==
    ASSUME NEW E, NEW x \in Seq(E)
    PROVE  DOMAIN x = 1..Len(x) /\ \A i \in 1..Len(x) : x[i] \in E
  OBVIOUS

-----------------------------------------------------------------------------
(* Rising sequences *)

\* The elements of P from the smallest to the largest.
Rising(a, P, m) ==
    /\ m \in Nat /\ a \in [1..m -> P]
    /\ \A i, j \in 1..m : i < j => a[i] < a[j]
    /\ \A d \in P : \E i \in 1..m : a[i] = d

\* A rising sequence is the only one of its set, and that of the smallest elements its beginning.
LEMMA RisingPrefix ==
    ASSUME NEW P \in SUBSET Int, NEW Q \in SUBSET P, \A x \in P, y \in Q : x <= y => x \in Q,
           NEW a, NEW m, Rising(a, P, m), NEW b, NEW k, Rising(b, Q, k)
    PROVE  /\ k <= m /\ \A i \in 1..k : b[i] = a[i]
           /\ \A i \in 1..m : a[i] \in Q => i <= k
<1>1. m \in Nat /\ k \in Nat /\ (\A i \in 1..m : a[i] \in P) /\ (\A i \in 1..k : b[i] \in Q)
  BY DEF Rising
<1> DEFINE G == {n \in Nat : n <= k => n <= m /\ \A i \in 1..n : b[i] = a[i]}
<1>2. 0 \in G
  BY <1>1
<1>3. ASSUME NEW n \in Nat, n \in G PROVE n + 1 \in G
  <2> SUFFICES ASSUME n + 1 <= k PROVE n + 1 <= m /\ \A i \in 1..(n + 1) : b[i] = a[i]
    OBVIOUS
  <2>1. n <= m /\ \A i \in 1..n : b[i] = a[i]
    BY <1>1, <1>3
  <2>2. n + 1 \in 1..k /\ b[n + 1] \in Q
    BY <1>1
  <2>3. PICK j \in 1..m : a[j] = b[n + 1]
    BY <2>2 DEF Rising
  <2>4. j > n
    <3>1. ASSUME j <= n PROVE FALSE
      <4>1. j \in 1..n /\ j \in 1..k /\ b[j] = a[j] /\ j < n + 1
        BY <1>1, <2>1, <2>2, <3>1
      <4>2. b[j] < b[n + 1]
        BY <2>2, <4>1 DEF Rising
      <4>3. b[n + 1] \in Int
        BY <2>2
      <4> QED
        BY <2>3, <4>1, <4>2, <4>3
    <3> QED
      BY <3>1
  <2>5. n + 1 \in 1..m
    BY <1>1, <2>3, <2>4
  <2>6. a[n + 1] \in Int /\ b[n + 1] \in Int /\ a[n + 1] <= b[n + 1]
    <3>1. a[n + 1] \in Int /\ b[n + 1] \in Int
      BY <1>1, <2>2, <2>5
    <3>2. CASE j = n + 1
      BY <3>1, <3>2, <2>3
    <3>3. CASE n + 1 < j
      BY <3>1, <3>3, <2>3, <2>5 DEF Rising
    <3> QED
      BY <3>1, <3>2, <3>3, <2>4
  <2>7. a[n + 1] \in Q
    BY <1>1, <2>2, <2>5, <2>6
  <2>8. PICK l \in 1..k : b[l] = a[n + 1]
    BY <2>7 DEF Rising
  <2>9. ~ (l <= n)
    <3>1. ASSUME l <= n PROVE FALSE
      <4>1. l \in 1..n /\ l \in 1..m /\ l < n + 1
        BY <1>1, <2>5, <2>8, <3>1
      <4>2. b[l] = a[l] /\ a[l] < a[n + 1]
        BY <2>1, <2>5, <4>1 DEF Rising
      <4> QED
        BY <2>6, <2>8, <4>2
    <3> QED
      BY <3>1
  <2>10. ~ (n + 1 < l)
    <3>1. ASSUME n + 1 < l PROVE FALSE
      <4>1. b[n + 1] < b[l]
        BY <2>2, <2>8, <3>1 DEF Rising
      <4> QED
        BY <2>6, <2>8, <4>1
    <3> QED
      BY <3>1
  <2>11. l = n + 1
    BY <2>8, <2>9, <2>10, <1>1
  <2> QED
    BY <2>1, <2>5, <2>8, <2>11
<1>4. Nat \subseteq G
  <2> HIDE DEF G
  <2> QED
    BY <1>2, <1>3, NatClosure
<1>5. k <= m /\ \A i \in 1..k : b[i] = a[i]
  BY <1>1, <1>4
<1>6. ASSUME NEW i \in 1..m, a[i] \in Q PROVE i <= k
  <2>1. PICK l \in 1..k : b[l] = a[i]
    BY <1>6 DEF Rising
  <2>2. l \in 1..m /\ a[l] = a[i]
    BY <1>1, <1>5, <2>1
  <2>3. ~ (l < i) /\ ~ (i < l)
    <3>1. a[i] \in Int
      BY <1>1
    <3>2. (l < i => a[l] < a[i]) /\ (i < l => a[i] < a[l])
      BY <2>2 DEF Rising
    <3> QED
      BY <2>2, <3>1, <3>2
  <2> QED
    BY <1>1, <2>1, <2>3
<1> QED
  BY <1>5, <1>6

AtMost(P, x) == {e \in P : e <= x}

\* The elements up to the i-th are the i-th and those up to the one before.
LEMMA RisingStep ==
    ASSUME NEW P \in SUBSET Int, NEW a, NEW m, Rising(a, P, m), NEW i \in 1..m
    PROVE  /\ a[i] \in P /\ a[i] \in AtMost(P, a[i]) /\ m \in Nat
           /\ i = 1 => AtMost(P, a[i]) \ {a[i]} = {}
           /\ i # 1 => i - 1 \in 1..m /\ AtMost(P, a[i]) \ {a[i]} = AtMost(P, a[i - 1])
<1>1. m \in Nat /\ (\A j \in 1..m : a[j] \in P /\ a[j] \in Int)
  BY DEF Rising
<1>2. ASSUME NEW e \in AtMost(P, a[i]) \ {a[i]} PROVE i # 1 /\ e <= a[i - 1]
  <2>1. e \in P /\ e < a[i] /\ e \in Int
    BY <1>1 DEF AtMost
  <2>2. PICK j \in 1..m : a[j] = e
    BY <2>1 DEF Rising
  <2>3. j < i
    <3>1. ~ (i < j) /\ i # j
      BY <1>1, <2>1, <2>2 DEF Rising
    <3> QED
      BY <1>1, <3>1
  <2>4. i # 1 /\ i - 1 \in 1..m /\ (j = i - 1 \/ j < i - 1)
    BY <1>1, <2>3
  <2>5. j < i - 1 => a[j] < a[i - 1]
    BY <2>4 DEF Rising
  <2>6. a[i - 1] \in Int
    BY <1>1, <2>4
  <2> QED
    BY <2>1, <2>2, <2>4, <2>5, <2>6
<1>3. ASSUME i # 1 PROVE i - 1 \in 1..m /\ AtMost(P, a[i]) \ {a[i]} = AtMost(P, a[i - 1])
  <2>1. i - 1 \in 1..m /\ i - 1 < i
    BY <1>1, <1>3
  <2>2. a[i - 1] < a[i]
    BY <2>1 DEF Rising
  <2>3. a[i - 1] \in Int /\ a[i] \in Int
    BY <1>1, <2>1
  <2>4. \A e \in P : e \in Int
    OBVIOUS
  <2>5. ASSUME NEW e \in AtMost(P, a[i - 1]) PROVE e \in AtMost(P, a[i]) \ {a[i]}
    BY <2>2, <2>3, <2>4 DEF AtMost
  <2>6. ASSUME NEW e \in AtMost(P, a[i]) \ {a[i]} PROVE e \in AtMost(P, a[i - 1])
    BY <1>2 DEF AtMost
  <2> QED
    BY <2>1, <2>5, <2>6
<1>4. a[i] \in AtMost(P, a[i])
  <2>1. a[i] \in P /\ a[i] <= a[i]
    BY <1>1
  <2> QED
    BY <2>1 DEF AtMost
<1>5. i = 1 => AtMost(P, a[i]) \ {a[i]} = {}
  BY <1>2
<1> QED
  BY <1>1, <1>3, <1>4, <1>5

\* A running total.
Accumulates(w, f, a, m) == \A i \in 1..m : w[i] = (IF i = 1 THEN 0 ELSE w[i - 1]) + f[a[i]]

LEMMA RunningTotal ==
    ASSUME NEW P \in SUBSET Int, IsFiniteSet(P), NEW a, NEW m, Rising(a, P, m),
           NEW f, IntOn(f, P), NEW w, Accumulates(w, f, a, m)
    PROVE  \A i \in 1..m : w[i] = Sum(f, AtMost(P, a[i])) /\ w[i] \in Int
<1> DEFINE G == {i \in Nat : i \in 1..m => w[i] = Sum(f, AtMost(P, a[i])) /\ w[i] \in Int}
<1>1. 0 \in G
  OBVIOUS
<1>2. ASSUME NEW n \in Nat, n \in G PROVE n + 1 \in G
  <2> SUFFICES ASSUME n + 1 \in 1..m
               PROVE  w[n + 1] = Sum(f, AtMost(P, a[n + 1])) /\ w[n + 1] \in Int
    OBVIOUS
  <2> DEFINE U == AtMost(P, a[n + 1])
             x == a[n + 1]
  <2>1. x \in P /\ x \in U /\ m \in Nat
    BY RisingStep
  <2>2. IsFiniteSet(U) /\ IntOn(f, U) /\ f[x] \in Int
    <3>1. U \in SUBSET P
      BY DEF AtMost
    <3> QED
      BY <2>1, <3>1, FS_Subset DEF IntOn
  <2> HIDE DEF U
  <2>3. Sum(f, U) = f[x] + Sum(f, U \ {x}) /\ Sum(f, U) \in Int
    BY <2>1, <2>2, SumOut
  <2>4. w[n + 1] = (IF n + 1 = 1 THEN 0 ELSE w[n]) + f[x]
    BY <2>1 DEF Accumulates
  <2>5. CASE n = 0
    <3>1. U \ {x} = {}
      BY <2>5, RisingStep DEF U
    <3> QED
      BY <2>2, <2>3, <2>4, <2>5, <3>1, SumEmpty DEF U
  <2>6. CASE n # 0
    <3>1. n \in 1..m /\ n + 1 # 1 /\ n + 1 - 1 = n
      BY <2>1, <2>6
    <3>2. U \ {x} = AtMost(P, a[n])
      BY <3>1, RisingStep DEF U
    <3>3. w[n] = Sum(f, AtMost(P, a[n])) /\ w[n] \in Int
      BY <1>2, <3>1
    <3>4. w[n + 1] = w[n] + f[x]
      BY <2>4, <3>1
    <3>5. Sum(f, U) = f[x] + w[n]
      BY <2>3, <3>2, <3>3
    <3>6. w[n] + f[x] = f[x] + w[n]
      BY <2>2, <3>3
    <3> QED
      BY <2>3, <3>4, <3>5, <3>6 DEF U
  <2> QED
    BY <2>5, <2>6
<1>3. Nat \subseteq G
  <2> HIDE DEF G
  <2> QED
    BY <1>1, <1>2, NatClosure
<1> QED
  BY <1>3

\* A value that is repeated while there is no other.
Latest(f, S) == IF S = {} THEN 0 ELSE f[Max(S)]
NonZero(f, S) == {e \in S : f[e] # 0}

Repeats(w, f, a, m) ==
    \A i \in 1..m : w[i] = IF f[a[i]] = 0 THEN (IF i = 1 THEN 0 ELSE w[i - 1]) ELSE f[a[i]]

LEMMA RunningLatest ==
    ASSUME NEW P \in SUBSET Int, IsFiniteSet(P), NEW a, NEW m, Rising(a, P, m),
           NEW f, NEW w, Repeats(w, f, a, m)
    PROVE  \A i \in 1..m : w[i] = Latest(f, NonZero(f, AtMost(P, a[i])))
<1> DEFINE G == {i \in Nat : i \in 1..m => w[i] = Latest(f, NonZero(f, AtMost(P, a[i])))}
<1>1. 0 \in G
  OBVIOUS
<1>2. ASSUME NEW n \in Nat, n \in G PROVE n + 1 \in G
  <2> SUFFICES ASSUME n + 1 \in 1..m
               PROVE  w[n + 1] = Latest(f, NonZero(f, AtMost(P, a[n + 1])))
    OBVIOUS
  <2> DEFINE U == AtMost(P, a[n + 1])
             x == a[n + 1]
  <2>1. x \in P /\ x \in U /\ m \in Nat /\ x \in Int
    <3>1. a[n + 1] \in P /\ a[n + 1] \in AtMost(P, a[n + 1]) /\ m \in Nat
      BY RisingStep
    <3> QED
      BY <3>1
  <2>2. w[n + 1] = IF f[x] = 0 THEN (IF n + 1 = 1 THEN 0 ELSE w[n]) ELSE f[x]
    BY <2>1 DEF Repeats
  <2>3. CASE f[x] # 0
    <3> DEFINE S == NonZero(f, U)
    <3>1. S \in SUBSET Int /\ IsFiniteSet(S) /\ x \in S /\ \A e \in S : e <= x
      <4>1. S \in SUBSET P
        BY DEF NonZero, AtMost
      <4>2. IsFiniteSet(S)
        BY <4>1, FS_Subset
      <4> QED
        BY <2>1, <2>3, <4>1, <4>2 DEF NonZero, AtMost
    <3> HIDE DEF S
    <3>2. Max(S) \in S /\ x <= Max(S)
      BY <3>1, MaxOf
    <3>3. Max(S) = x
      <4>1. Max(S) <= x /\ Max(S) \in Int
        BY <3>1, <3>2
      <4> QED
        BY <2>1, <3>2, <4>1
    <3>4. Latest(f, S) = f[x]
      BY <3>1, <3>3 DEF Latest
    <3> QED
      BY <2>2, <2>3, <3>4 DEF S
  <2>4. CASE f[x] = 0
    <3>1. NonZero(f, U) = NonZero(f, U \ {x})
      BY <2>4 DEF NonZero
    <3>2. CASE n = 0
      <4>1. U \ {x} = {}
        BY <3>2, RisingStep
      <4>2. NonZero(f, U) = {}
        BY <3>1, <4>1 DEF NonZero
      <4> HIDE DEF U
      <4>3. Latest(f, NonZero(f, U)) = 0
        BY <4>2 DEF Latest
      <4>4. w[n + 1] = 0
        BY <2>2, <2>4, <3>2
      <4> QED
        BY <4>3, <4>4 DEF U
    <3>3. CASE n # 0
      <4>1. n \in 1..m /\ n + 1 # 1 /\ n + 1 - 1 = n
        BY <2>1, <3>3
      <4>2. U \ {x} = AtMost(P, a[n])
        BY <4>1, RisingStep
      <4>3. w[n] = Latest(f, NonZero(f, AtMost(P, a[n])))
        BY <1>2, <4>1
      <4>4. w[n + 1] = w[n]
        BY <2>2, <2>4, <4>1
      <4> QED
        BY <3>1, <4>2, <4>3, <4>4
    <3> QED
      BY <3>2, <3>3
  <2> QED
    BY <2>3, <2>4
<1>3. Nat \subseteq G
  <2> HIDE DEF G
  <2> QED
    BY <1>1, <1>2, NatClosure
<1> QED
  BY <1>3

-----------------------------------------------------------------------------
(* Division *)

\* What Math.floor(a / n) is: the one multiple of n that a has not passed.
LEMMA DivBounds ==
    \A a \in Int, n \in Nat \ {0} :
       a \div n \in Int /\ (a \div n) * n <= a /\ a < (a \div n) * n + n
  OBVIOUS

LEMMA DivUnique ==
    \A a, q \in Int, n \in Nat \ {0} : q * n <= a /\ a < q * n + n => a \div n = q
  OBVIOUS

LEMMA ModIs ==
    \A a \in Int, n \in Nat \ {0} : a % n = a - (a \div n) * n /\ a % n \in 0..(n - 1)
  OBVIOUS

LEMMA DivParts ==
    \A a \in Nat, n \in Nat \ {0} :
       a \div n \in Nat /\ a = (a \div n) * n + (a % n) /\ a % n \in 0..(n - 1)
<1> TAKE a \in Nat, n \in Nat \ {0}
<1>1. a \div n \in Nat
  OBVIOUS
<1>0. a \in Int
  OBVIOUS
<1>2. a % n = a - (a \div n) * n /\ a % n \in 0..(n - 1)
  BY <1>0, ModIs
<1> DEFINE q == a \div n
           r == a % n
<1> HIDE DEF q, r
<1>3. q \in Nat /\ r \in 0..(n - 1) /\ r = a - q * n
  BY <1>1, <1>2 DEF q, r
<1>4. a = q * n + r
  BY <1>3
<1> QED
  BY <1>3, <1>4 DEF q, r

\* The quotient of a difference.
LEMMA DivMinus ==
    \A a, b \in Int, n \in Nat \ {0} :
       (a - b) \div n \in {a \div n - b \div n, a \div n - b \div n - 1}
<1> TAKE a, b \in Int, n \in Nat \ {0}
<1> DEFINE p == a \div n
           q == b \div n
<1>1. p \in Int /\ p * n <= a /\ a < p * n + n
  BY DivBounds
<1>2. q \in Int /\ q * n <= b /\ b < q * n + n
  BY DivBounds
<1>3. (p - q) * n = p * n - q * n /\ (p - q - 1) * n = p * n - q * n - n
  BY <1>1, <1>2
<1> HIDE DEF p, q
<1>4. (a - b) \div n \in {p - q, p - q - 1}
  <2>1. CASE a - b >= (p - q) * n
    BY <2>1, <1>1, <1>2, <1>3, DivUnique
  <2>2. CASE a - b < (p - q) * n
    BY <2>2, <1>1, <1>2, <1>3, DivUnique
  <2> QED
    BY <2>1, <2>2, <1>1, <1>2
<1> QED
  BY <1>4 DEF p, q

LEMMA DivMono ==
    \A a, b \in Nat, n, y \in Nat \ {0} : b <= a /\ n <= y => b \div y <= a \div n
<1> TAKE a, b \in Nat, n, y \in Nat \ {0}
<1> HAVE b <= a /\ n <= y
<1> DEFINE p == a \div n
           q == b \div y
<1>1. p \in Int /\ a < p * n + n
  BY DivBounds
<1>2. q \in Nat /\ q * y <= b
  BY DivBounds
<1> HIDE DEF p, q
<1>3. q * n <= q * y
  BY <1>2
<1>4. q <= p
  <2>1. ASSUME q >= p + 1 PROVE FALSE
    <3>1. (p + 1) * n <= q * n
      BY <2>1, <1>1, <1>2
    <3>2. (p + 1) * n = p * n + n
      BY <1>1
    <3> QED
      BY <3>1, <3>2, <1>1, <1>2, <1>3
  <2> QED
    BY <2>1, <1>1, <1>2
<1> QED
  BY <1>4 DEF p, q

\* Of a number of days counted in units, with the day and the week counted in units.
LEMMA DivOfMultiple == \A d \in Int, n \in Nat \ {0} : (d * n) \div n = d
  BY DivUnique

LEMMA DivOfProduct ==
    \A d, x, y \in Int, m, n \in Nat \ {0} :
       x = d * n /\ y = m * n
       => x \div y = d \div m /\ (d % m # 0 => (x - 1) \div y = d \div m)
<1> TAKE d, x, y \in Int, m, n \in Nat \ {0}
<1> HAVE x = d * n /\ y = m * n
<1> DEFINE q == d \div m
<1>1. q \in Int /\ q * m <= d /\ d <= q * m + m - 1
  BY DivBounds
<1>2. y \in Nat \ {0}
  OBVIOUS
<1>3. d % m = d - q * m
  OBVIOUS
<1> HIDE DEF q
<1>4. q * m * n <= x /\ x <= (q * m + m - 1) * n
  BY <1>1
<1>5. q * y = q * m * n /\ (q * m + m - 1) * n = q * m * n + y - n
  BY <1>1
<1>6. x \div y = q
  BY <1>1, <1>2, <1>4, <1>5, DivUnique
<1>7. ASSUME d % m # 0 PROVE (x - 1) \div y = q
  <2>1. q * m + 1 <= d
    BY <1>1, <1>3, <1>7
  <2>2. (q * m + 1) * n <= x
    BY <2>1, <1>1
  <2>3. (q * m + 1) * n = q * m * n + n
    BY <1>1
  <2> QED
    BY <2>2, <2>3, <1>1, <1>2, <1>4, <1>5, DivUnique
<1> QED
  BY <1>6, <1>7 DEF q

\* The next multiple.
LEMMA NextMultiple ==
    \A c \in Int, m \in Nat \ {0} : c % m \in 0..(m - 1) /\ (c - (c % m) + m) % m = 0
<1> TAKE c \in Int, m \in Nat \ {0}
<1> DEFINE q == c \div m
           b == (q + 1) * m
<1>1. q \in Int /\ c % m = c - q * m /\ c % m \in 0..(m - 1)
  BY DivBounds, ModIs
<1>2. b = c - (c % m) + m /\ b \in Int
  BY <1>1
<1>3. b \div m = q + 1
  <2> HIDE DEF q
  <2> QED
    BY <1>1, DivOfMultiple
<1> HIDE DEF b
<1>4. b % m = b - (q + 1) * m
  BY <1>2, <1>3, ModIs
<1> QED
  BY <1>1, <1>2, <1>4 DEF b
=============================================================================
