-------------------------- MODULE StatisticsProofs --------------------------
(***************************************************************************)
(* What the reading side answers at any time, whatever the rows, the       *)
(* limits of the queries, the lengths of the day and the week and the      *)
(* starts of the tournaments.                                              *)
(*                                                                         *)
(* The argument goes from the inside out: which rows a query answers and   *)
(* in which order sortBy puts them; what each loop over them pushes; the   *)
(* sum, the last value or the average that an entry has come to; which     *)
(* entry a date shows; and then the invariants, which follow from IInv.    *)
(* The six loops have a lemma of each kind, all alike: the provers do not  *)
(* instantiate a lemma about any operator Entry.                           *)
(***************************************************************************)
EXTENDS Statistics, DataFacts

-----------------------------------------------------------------------------
(* Sorting and filtering by ranks *)

\* The i-th is the element of rank i, and the later is the larger.
LEMMA IthRank ==
    ASSUME NEW S \in SUBSET Int, IsFiniteSet(S)
    PROVE  /\ \A i \in 1..Cardinality(S) : Ith(S, i) \in S /\ Rank(S, Ith(S, i)) = i
           /\ \A x \in S : Ith(S, Rank(S, x)) = x
           /\ \A i, j \in 1..Cardinality(S) : i < j => Ith(S, i) < Ith(S, j)
<1>1. \A i \in 1..Cardinality(S) : Ith(S, i) \in S /\ Rank(S, Ith(S, i)) = i
  <2>1. \A i \in 1..Cardinality(S) : \E x \in S : Cardinality({y \in S : y <= x}) = i
    BY RankOnto DEF Rank
  <2> QED
    BY <2>1 DEF Ith, Rank
<1>2. \A x, y \in S : x < y => Rank(S, x) < Rank(S, y)
  BY RankUp
<1>3. \A x \in S : Rank(S, x) \in 1..Cardinality(S)
  BY RankRange
<1>n. Cardinality(S) \in Nat
  BY FS_CardinalityType
<1>4. ASSUME NEW x \in S PROVE Ith(S, Rank(S, x)) = x
  <2> DEFINE y == Ith(S, Rank(S, x))
  <2>1. y \in S /\ Rank(S, y) = Rank(S, x) /\ Rank(S, x) \in Int
    BY <1>1, <1>3, <1>n
  <2> HIDE DEF y
  <2>2. ~ (x < y) /\ ~ (y < x)
    BY <1>2, <2>1
  <2>3. x \in Int /\ y \in Int
    BY <2>1
  <2>4. y = x
    BY <2>2, <2>3
  <2> QED
    BY <2>4 DEF y
<1>5. ASSUME NEW i \in 1..Cardinality(S), NEW j \in 1..Cardinality(S), i < j
      PROVE  Ith(S, i) < Ith(S, j)
  <2> DEFINE x == Ith(S, i)
             y == Ith(S, j)
  <2>1. x \in S /\ y \in S /\ Rank(S, x) = i /\ Rank(S, y) = j /\ i \in Int /\ j \in Int
    BY <1>1, <1>n
  <2> HIDE DEF x, y
  <2>2. ~ (y < x) /\ y # x
    BY <1>2, <1>5, <2>1
  <2>3. x \in Int /\ y \in Int
    BY <2>1
  <2>4. x < y
    BY <2>2, <2>3
  <2> QED
    BY <2>4 DEF x, y
<1> QED
  BY <1>1, <1>4, <1>5

\* Of the numbers up to n it is i.
LEMMA IthOfIndices ==
    ASSUME NEW n \in Nat
    PROVE  Cardinality(1..n) = n /\ \A i \in 1..n : Ith(1..n, i) = i
<1>1. 1..n \in SUBSET Int /\ IsFiniteSet(1..n) /\ Cardinality(1..n) = n
  BY Indices
<1>2. ASSUME NEW i \in 1..n PROVE Rank(1..n, i) = i
  <2>1. {y \in 1..n : y <= i} = 1..i
    OBVIOUS
  <2>2. Cardinality(1..i) = i
    BY Indices
  <2> QED
    BY <2>1, <2>2 DEF Rank
<1> QED
  BY <1>1, <1>2, IthRank

\* A filter that keeps all, one or none.
Chosen(s, J) == [i \in 1..Cardinality(J) |-> s[Ith(J, i)]]

LEMMA ChosenAll ==
    ASSUME NEW n \in Nat, NEW E, NEW s \in [1..n -> E]
    PROVE  Chosen(s, 1..n) = s
<1>1. Chosen(s, 1..n) = [i \in 1..n |-> s[i]]
  BY IthOfIndices DEF Chosen
<1> QED
  BY <1>1

LEMMA ChosenOne ==
    ASSUME NEW s, NEW j \in Int
    PROVE  Chosen(s, {j}) = [i \in {1} |-> s[j]]
<1>1. IsFiniteSet({j}) /\ Cardinality({j}) = 1 /\ {j} \in SUBSET Int
  BY FS_Singleton
<1>2. Ith({j}, 1) = j
  BY <1>1, IthRank
<1>3. 1..1 = {1}
  OBVIOUS
<1> QED
  BY <1>1, <1>2, <1>3 DEF Chosen

LEMMA ChosenNone == \A s : Chosen(s, {}) = [i \in {} |-> 0]
<1>1. Cardinality({}) = 0 /\ 1..0 = {}
  BY FS_EmptySet
<1> QED
  BY <1>1 DEF Chosen

\* Rows whose timestamps fall are sorted by turning them round.
LEMMA SortReverses ==
    ASSUME NEW n \in Nat, NEW s, DOMAIN s = 1..n, \A i \in 1..n : s[i].timestamp \in Int,
           \A i, j \in 1..n : i < j => s[j].timestamp < s[i].timestamp
    PROVE  SortBy(s) = [i \in 1..n |-> s[n + 1 - i]]
<1> DEFINE Up(j) == {k \in 1..n : \/ s[k].timestamp < s[j].timestamp
                                  \/ (s[k].timestamp = s[j].timestamp /\ k <= j)}
<1>1. ASSUME NEW j \in 1..n PROVE Cardinality(Up(j)) = n + 1 - j
  <2>1. ASSUME NEW k \in 1..n PROVE k \in Up(j) <=> k \in j..n
    <3>1. s[k].timestamp \in Int /\ s[j].timestamp \in Int
      OBVIOUS
    <3>2. CASE k < j
      <4>1. s[j].timestamp < s[k].timestamp
        BY <3>2
      <4> QED
        BY <3>1, <3>2, <4>1
    <3>3. CASE k = j
      BY <3>1, <3>3
    <3>4. CASE j < k
      <4>1. s[k].timestamp < s[j].timestamp
        BY <3>4
      <4> QED
        BY <3>4, <4>1
    <3> QED
      BY <3>2, <3>3, <3>4
  <2>2. Up(j) = j..n
    <3>1. Up(j) \subseteq 1..n /\ j..n \subseteq 1..n
      OBVIOUS
    <3> HIDE DEF Up
    <3> QED
      BY <2>1, <3>1
  <2>3. j \in Int /\ n \in Int /\ ~ (j > n)
    OBVIOUS
  <2>4. Cardinality(j..n) = n - j + 1
    BY <2>3, FS_Interval
  <2> HIDE DEF Up
  <2> QED
    BY <2>2, <2>3, <2>4
<1> HIDE DEF Up
<1>2. ASSUME NEW i \in 1..n PROVE (CHOOSE j \in 1..n : Cardinality(Up(j)) = i) = n + 1 - i
  <2>1. n + 1 - i \in 1..n /\ \A j \in 1..n : Cardinality(Up(j)) = i <=> j = n + 1 - i
    BY <1>1
  <2> QED
    BY <2>1
<1>3. SortBy(s) = [i \in 1..n |-> s[CHOOSE j \in 1..n : Cardinality(Up(j)) = i]]
  BY DEF SortBy, Up
<1> QED
  BY <1>2, <1>3

-----------------------------------------------------------------------------
(* What the queries answer *)

\* A table of the subgraph.
TableOK(table) ==
    /\ DOMAIN table \in SUBSET Nat /\ IsFiniteSet(DOMAIN table)
    /\ \A d \in DOMAIN table : table[d] \in Nat

\* The newest of the days; and their rows from the oldest to the newest.
Top(days, first) == {d \in days : Cardinality({e \in days : e >= d}) <= first}

\* Rows in the order of a.
RowsOf(table, a, m) == [i \in 1..m |-> RowOf(table, a[i])]

\* Counted from the largest the rank is what is left of the number.
LEMMA RankFromTop ==
    ASSUME NEW S \in SUBSET Int, IsFiniteSet(S), NEW x \in S
    PROVE  Cardinality({y \in S : y >= x}) = Cardinality(S) + 1 - Rank(S, x)
<1> DEFINE B == {y \in S : y <= x}
           A == {y \in S : y >= x}
<1>1. /\ A \in SUBSET S /\ B \in SUBSET S /\ A \cup B = S /\ A \cap B = {x}
  <2>1. \A y \in S : (y <= x \/ y >= x) /\ (y <= x /\ y >= x <=> y = x)
    OBVIOUS
  <2>2. A \cup B = S
    BY <2>1
  <2>3. A \cap B = {x}
    BY <2>1
  <2> QED
    BY <2>2, <2>3
<1> HIDE DEF A, B
<1>2. IsFiniteSet(A) /\ IsFiniteSet(B) /\ Cardinality(A) \in Nat /\ Cardinality(B) \in Nat
  BY <1>1, FS_Subset, FS_CardinalityType
<1>3. Cardinality(S) = Cardinality(A) + Cardinality(B) - Cardinality({x})
  BY <1>1, <1>2, FS_Union
<1>4. Cardinality({x}) = 1
  BY FS_Singleton
<1>5. Cardinality(A) = Cardinality(S) + 1 - Cardinality(B)
  BY <1>2, <1>3, <1>4
<1> QED
  BY <1>5 DEF A, B, Rank

\* What Newest answers, turned round: the newest of the days from the oldest on.
LEMMA TopRising ==
    ASSUME NEW days \in SUBSET Int, IsFiniteSet(days), NEW first \in Nat
    PROVE  \E a, m : /\ m = Min({Cardinality(days), first})
                     /\ Rising(a, Top(days, first), m)
                     /\ \A i \in 1..m : /\ a[m + 1 - i] = Ith(days, Cardinality(days) + 1 - i)
                                        /\ a[i] \in days
<1> DEFINE n == Cardinality(days)
           m == Min({n, first})
           a == [i \in 1..m |-> Ith(days, n - m + i)]
<1>1. n \in Nat
  BY FS_CardinalityType
<1>2. m \in Nat /\ m <= n /\ m <= first /\ (m = n \/ m = first)
  BY <1>1, MinTwo
<1> HIDE DEF n, m
<1>3. \A i \in 1..m : n - m + i \in 1..n
  BY <1>1, <1>2
<1>4. \A i \in 1..m : a[i] \in days /\ Rank(days, a[i]) = n - m + i
  BY <1>3, IthRank DEF n
<1>5. \A i \in 1..m : a[i] \in Top(days, first)
  <2> TAKE i \in 1..m
  <2>1. Cardinality({e \in days : e >= a[i]}) = n + 1 - (n - m + i)
    BY <1>4, RankFromTop DEF n
  <2>2. n + 1 - (n - m + i) <= first
    BY <1>1, <1>2
  <2> QED
    BY <1>4, <2>1, <2>2 DEF Top
<1>6. \A i, j \in 1..m : i < j => a[i] < a[j]
  <2> TAKE i, j \in 1..m
  <2> HAVE i < j
  <2>1. n - m + i \in 1..n /\ n - m + j \in 1..n /\ n - m + i < n - m + j
    BY <1>1, <1>2, <1>3
  <2> QED
    BY <2>1, IthRank DEF n
<1>7. ASSUME NEW d \in Top(days, first) PROVE \E i \in 1..m : a[i] = d
  <2>1. d \in days /\ Cardinality({e \in days : e >= d}) <= first
    BY DEF Top
  <2>2. Rank(days, d) \in 1..n
    BY <2>1, RankRange DEF n
  <2>3. n + 1 - Rank(days, d) <= first
    BY <2>1, RankFromTop DEF n
  <2> DEFINE i == Rank(days, d) - (n - m)
  <2>4. i \in 1..m /\ n - m + i = Rank(days, d)
    BY <1>1, <1>2, <2>2, <2>3
  <2>5. a[i] = d
    BY <2>1, <2>4, IthRank
  <2> QED
    BY <2>4, <2>5
<1>8. ASSUME NEW i \in 1..m PROVE a[m + 1 - i] = Ith(days, n + 1 - i)
  <2>1. m + 1 - i \in 1..m /\ n - m + (m + 1 - i) = n + 1 - i
    BY <1>1, <1>2
  <2> QED
    BY <2>1
<1>9. Rising(a, Top(days, first), m)
  BY <1>2, <1>5, <1>6, <1>7 DEF Rising
<1> QED
  BY <1>4, <1>8, <1>9 DEF n, m

\* The rows of the subgraph.
Rows == [timestamp : Nat, amount : Nat, profitCumulative : Int, lossCumulative : Int]

\* A field of the last entry.
LEMMA BeforeIs ==
    ASSUME NEW E, NEW x \in Seq(E), NEW k
    PROVE  \/ x = << >> /\ Before(x, k) = 0
           \/ x # << >> /\ x[Len(x)] \in E /\ Before(x, k) = x[Len(x)][k]
<1>1. CASE x = << >>
  BY <1>1 DEF Before
<1>2. CASE x # << >>
  <2>1. Len(x) \in 1..Len(x)
    BY <1>2
  <2> QED
    BY <1>2, <2>1 DEF Before, Last
<1> QED
  BY <1>1, <1>2

\* It is of the type of the field, if 0 is.
LEMMA BeforeIn ==
    ASSUME NEW E, NEW x \in Seq(E), NEW k, NEW T, 0 \in T, \A e \in E : e[k] \in T
    PROVE  Before(x, k) \in T
<1>1. \/ x = << >> /\ Before(x, k) = 0
      \/ x # << >> /\ x[Len(x)] \in E /\ Before(x, k) = x[Len(x)][k]
  BY BeforeIs
<1> QED
  BY <1>1

\* The entries that the loops push.
FeeEntries == [timestamp : Nat, amount : Nat, cumulative : Nat, average : SUBSET Int]
BurnedEntries == [timestamp : Nat, amount : Nat, cumulative : Nat]
TraderEntries ==
    [timestamp : Nat, profit : Nat, loss : Int, pnl : Int, profitCumulative : Int,
     lossCumulative : Int, pnlCumulative : Int, currentProfitCumulative : Int,
     currentLossCumulative : Int, currentPnlCumulative : Int]
PoolEntries ==
    [timestamp : Nat, supply : Nat, prevGlpSupply : Nat, cumulative : Nat, change : Int]

\* Each loop pushes entries of its type.
LEMMA EntryTyped ==
    ASSUME NEW x \in Seq(FeeEntries), NEW r \in Rows, NEW kept \in SUBSET Int
    PROVE  Entry(x, r, kept) \in FeeEntries
<1>0. \A e \in FeeEntries : e["cumulative"] \in Nat
  BY DEF FeeEntries
<1>1. Before(x, "cumulative") \in Nat
  BY <1>0, BeforeIn
<1>2. r.timestamp \in Nat /\ r.amount \in Nat
  BY DEF Rows
<1> DEFINE c == Before(x, "cumulative") + r.amount
<1>3. c \in Nat
  BY <1>1, <1>2
<1> HIDE DEF c
<1>4. {c - y : y \in kept} \in SUBSET Int
  BY <1>3
<1> QED
  BY <1>2, <1>3, <1>4 DEF Entry, FeeEntries, c

LEMMA FeeTyped ==
    ASSUME NEW x \in Seq(FeeEntries), NEW r \in Rows
    PROVE  FeeEntry(x, r) \in FeeEntries
<1>1. \A t : Kept(x, t) \in SUBSET Int
  <2>0. \A j \in DOMAIN x : x[j] \in FeeEntries
    OBVIOUS
  <2>1. \A j \in DOMAIN x : x[j].cumulative \in Int
    BY <2>0 DEF FeeEntries
  <2> QED
    BY <2>1 DEF Kept
<1> QED
  BY <1>1, EntryTyped DEF FeeEntry

LEMMA VolumeTyped ==
    ASSUME NEW x \in Seq(FeeEntries), NEW r \in Rows
    PROVE  VolumeEntry(x, r) \in FeeEntries
  BY EntryTyped DEF VolumeEntry

LEMMA BurnedTyped ==
    ASSUME NEW x \in Seq(BurnedEntries), NEW r \in Rows
    PROVE  BurnedEntry(x, r) \in BurnedEntries
<1>0. \A e \in BurnedEntries : e["cumulative"] \in Nat
  BY DEF BurnedEntries
<1>1. Before(x, "cumulative") \in Nat
  BY <1>0, BeforeIn
<1> QED
  BY <1>1 DEF Rows, BurnedEntry, BurnedEntries

LEMMA TraderTyped ==
    ASSUME NEW x \in Seq(TraderEntries), NEW r \in Rows
    PROVE  TraderEntry(x, r) \in TraderEntries
<1>0. \A e \in TraderEntries : /\ e["currentProfitCumulative"] \in Int
                                /\ e["currentLossCumulative"] \in Int
                                /\ e["currentPnlCumulative"] \in Int
  BY DEF TraderEntries
<1>1. /\ Before(x, "currentProfitCumulative") \in Int
      /\ Before(x, "currentLossCumulative") \in Int
      /\ Before(x, "currentPnlCumulative") \in Int
  BY <1>0, BeforeIn
<1>2. /\ r.timestamp \in Nat /\ r.amount \in Nat
      /\ r.profitCumulative \in Int /\ r.lossCumulative \in Int
  BY DEF Rows
<1>3. Profit(r.amount) \in Nat /\ Loss(r.amount) \in Nat
  BY <1>2 DEF Profit, Loss
<1> DEFINE p == Profit(r.amount)
           l == Loss(r.amount)
           cp == Before(x, "currentProfitCumulative")
           cl == Before(x, "currentLossCumulative")
           cn == Before(x, "currentPnlCumulative")
<1>4. /\ -l \in Int /\ p - l \in Int /\ cp + p \in Int /\ cl - l \in Int /\ cn + (p - l) \in Int
      /\ -r.lossCumulative \in Int /\ r.profitCumulative - r.lossCumulative \in Int
  <2>1. p \in Nat /\ l \in Nat /\ cp \in Int /\ cl \in Int /\ cn \in Int
    BY <1>1, <1>3
  <2> HIDE DEF p, l, cp, cl, cn
  <2> QED
    BY <2>1, <1>2
<1> QED
  BY <1>2, <1>3, <1>4 DEF TraderEntry, TraderEntries

\* A change is an integer.
LEMMA ChangeTyped ==
    ASSUME NEW supply \in Nat, NEW last \in Nat
    PROVE  Change(supply, last) \in Int
  BY DEF Change

LEMMA PoolTyped ==
    ASSUME NEW x \in Seq(PoolEntries), NEW r \in Rows
    PROVE  PoolEntry(x, r) \in PoolEntries
<1>0. \A e \in PoolEntries : e["prevGlpSupply"] \in Nat /\ e["cumulative"] \in Nat
  BY DEF PoolEntries
<1>1. Before(x, "prevGlpSupply") \in Nat /\ Before(x, "cumulative") \in Nat
  BY <1>0, BeforeIn
<1>2. r.timestamp \in Nat /\ r.amount \in Nat
  BY DEF Rows
<1> DEFINE last == Before(x, "prevGlpSupply")
           supply == IF r.amount = 0 THEN last ELSE r.amount
           c == Before(x, "cumulative") + r.amount
<1>3. supply \in Nat /\ c \in Nat
  BY <1>1, <1>2
<1>4. Change(supply, last) \in Int
  BY <1>1, <1>3, ChangeTyped
<1>5. PoolEntry(x, r) = [timestamp |-> r.timestamp, supply |-> r.amount, prevGlpSupply |-> supply,
                         cumulative |-> c, change |-> Change(supply, last)]
  BY DEF PoolEntry
<1> HIDE DEF supply, c
<1> QED
  BY <1>2, <1>3, <1>4, <1>5 DEF PoolEntries

\* fillNa, a field at a time.
LEMMA FillIs ==
    ASSUME NEW x, NEW r \in PoolEntries
    PROVE  LET Of(k) == IF r[k] = 0 THEN Before(x, k) ELSE r[k]
           IN  Fill(x, r) = [timestamp |-> Of("timestamp"), supply |-> Of("supply"),
                             prevGlpSupply |-> Of("prevGlpSupply"),
                             cumulative |-> Of("cumulative"), change |-> Of("change")]
<1>1. DOMAIN r = {"timestamp", "supply", "prevGlpSupply", "cumulative", "change"}
  BY DEF PoolEntries
<1> QED
  BY <1>1 DEF Fill

LEMMA FillTyped ==
    ASSUME NEW x \in Seq(PoolEntries), NEW r \in PoolEntries
    PROVE  Fill(x, r) \in PoolEntries
<1>0. \A e \in PoolEntries : /\ e["timestamp"] \in Nat /\ e["supply"] \in Nat
                              /\ e["prevGlpSupply"] \in Nat /\ e["cumulative"] \in Nat
                              /\ e["change"] \in Int
  BY DEF PoolEntries
<1>1. /\ Before(x, "timestamp") \in Nat /\ Before(x, "supply") \in Nat
      /\ Before(x, "prevGlpSupply") \in Nat /\ Before(x, "cumulative") \in Nat
      /\ Before(x, "change") \in Int
  <2>1. Before(x, "timestamp") \in Nat
    BY <1>0, BeforeIn
  <2>2. Before(x, "supply") \in Nat
    BY <1>0, BeforeIn
  <2>3. Before(x, "prevGlpSupply") \in Nat
    BY <1>0, BeforeIn
  <2>4. Before(x, "cumulative") \in Nat
    BY <1>0, BeforeIn
  <2>5. Before(x, "change") \in Int
    BY <1>0, BeforeIn
  <2> QED
    BY <2>1, <2>2, <2>3, <2>4, <2>5
<1> QED
  BY <1>1, FillIs DEF PoolEntries

\* Each loop is a fold, which computes one entry after the other.
FeeSteps(data, n) == [i \in 1..n |-> [x \in Seq(FeeEntries) |-> FeeEntry(x, data[i])]]

LEMMA FeeLoop ==
    ASSUME NEW n \in Nat, NEW data \in [1..n -> Rows]
    PROVE  Unrolled(Loop(FeeEntry, data), FeeEntries, n, FeeSteps(data, n))
<1> DEFINE step == FeeSteps(data, n)
           Unfold(g, s) == IF s = {} THEN << >>
                         ELSE Append(g[s \ {Max(s)}], FeeEntry(g[s \ {Max(s)}], data[Max(s)]))
           g == CHOOSE k : k = [s \in SUBSET (1..n) |-> Unfold(k, s)]
<1>1. \A i \in 1..n : \A x \in Seq(FeeEntries) : FeeEntry(x, data[i]) \in FeeEntries
  BY FeeTyped
<1>2. step \in Steps(FeeEntries, n) /\ \A i \in 1..n : \A x \in Seq(FeeEntries) : step[i][x] = FeeEntry(x, data[i])
  BY <1>1 DEF Steps, FeeSteps
<1> HIDE DEF step
<1>a. step \in Steps(FeeEntries, n)
  BY <1>2
<1>3. PICK h \in [SUBSET (1..n) -> Seq(FeeEntries)] : Computes(h, n, step)
  BY <1>a, LoopExists
<1>4. \A s \in SUBSET (1..n) : s # {} => Max(s) \in 1..n /\ Earlier(s) \in SUBSET (1..n)
  BY LastIndex
<1>5. h = [s \in SUBSET (1..n) |-> Unfold(h, s)]
  <2>1. ASSUME NEW s \in SUBSET (1..n) PROVE h[s] = Unfold(h, s)
    <3>1. CASE s = {}
      BY <1>3, <3>1 DEF Computes
    <3>2. CASE s # {}
      <4>1. h[Earlier(s)] \in Seq(FeeEntries) /\ Max(s) \in 1..n
        BY <1>4, <3>2
      <4>2. step[Max(s)][h[Earlier(s)]] = FeeEntry(h[Earlier(s)], data[Max(s)])
        BY <1>2, <4>1
      <4>3. h[s] = Append(h[Earlier(s)], FeeEntry(h[Earlier(s)], data[Max(s)]))
        BY <1>3, <3>2, <4>2 DEF Computes
      <4> QED
        BY <3>2, <4>3 DEF Earlier
    <3> QED
      BY <3>1, <3>2
  <2> HIDE DEF Unfold
  <2> QED
    BY <2>1
<1>6. g = [s \in SUBSET (1..n) |-> Unfold(g, s)]
  <2> HIDE DEF Unfold
  <2> QED
    BY <1>5
<1>7. Loop(FeeEntry, data) = g[1..n]
  <2>1. DOMAIN data = 1..n
    OBVIOUS
  <2> QED
    BY <2>1 DEF FoldLeft, MapThenFoldSet, Loop
<1> HIDE DEF g
<1>8. Folded(g, FeeEntries, n, step)
  <2>1. g[{}] = << >>
    BY <1>6
  <2>2. ASSUME NEW s \in SUBSET (1..n), s # {}, g[Earlier(s)] \in Seq(FeeEntries)
        PROVE  g[s] = Append(g[Earlier(s)], step[Max(s)][g[Earlier(s)]])
    <3>1. g[s] = Append(g[Earlier(s)], FeeEntry(g[Earlier(s)], data[Max(s)]))
      BY <1>6, <2>2 DEF Earlier
    <3>2. Max(s) \in 1..n
      BY <1>4, <2>2
    <3> QED
      BY <1>2, <2>2, <3>1, <3>2
  <2> QED
    BY <2>1, <2>2 DEF Folded
<1> QED
  BY <1>2, <1>7, <1>8, LoopUnrolled DEF step

VolumeSteps(data, n) == [i \in 1..n |-> [x \in Seq(FeeEntries) |-> VolumeEntry(x, data[i])]]

LEMMA VolumeLoop ==
    ASSUME NEW n \in Nat, NEW data \in [1..n -> Rows]
    PROVE  Unrolled(Loop(VolumeEntry, data), FeeEntries, n, VolumeSteps(data, n))
<1> DEFINE step == VolumeSteps(data, n)
           Unfold(g, s) == IF s = {} THEN << >>
                         ELSE Append(g[s \ {Max(s)}], VolumeEntry(g[s \ {Max(s)}], data[Max(s)]))
           g == CHOOSE k : k = [s \in SUBSET (1..n) |-> Unfold(k, s)]
<1>1. \A i \in 1..n : \A x \in Seq(FeeEntries) : VolumeEntry(x, data[i]) \in FeeEntries
  BY VolumeTyped
<1>2. step \in Steps(FeeEntries, n) /\ \A i \in 1..n : \A x \in Seq(FeeEntries) : step[i][x] = VolumeEntry(x, data[i])
  BY <1>1 DEF Steps, VolumeSteps
<1> HIDE DEF step
<1>a. step \in Steps(FeeEntries, n)
  BY <1>2
<1>3. PICK h \in [SUBSET (1..n) -> Seq(FeeEntries)] : Computes(h, n, step)
  BY <1>a, LoopExists
<1>4. \A s \in SUBSET (1..n) : s # {} => Max(s) \in 1..n /\ Earlier(s) \in SUBSET (1..n)
  BY LastIndex
<1>5. h = [s \in SUBSET (1..n) |-> Unfold(h, s)]
  <2>1. ASSUME NEW s \in SUBSET (1..n) PROVE h[s] = Unfold(h, s)
    <3>1. CASE s = {}
      BY <1>3, <3>1 DEF Computes
    <3>2. CASE s # {}
      <4>1. h[Earlier(s)] \in Seq(FeeEntries) /\ Max(s) \in 1..n
        BY <1>4, <3>2
      <4>2. step[Max(s)][h[Earlier(s)]] = VolumeEntry(h[Earlier(s)], data[Max(s)])
        BY <1>2, <4>1
      <4>3. h[s] = Append(h[Earlier(s)], VolumeEntry(h[Earlier(s)], data[Max(s)]))
        BY <1>3, <3>2, <4>2 DEF Computes
      <4> QED
        BY <3>2, <4>3 DEF Earlier
    <3> QED
      BY <3>1, <3>2
  <2> HIDE DEF Unfold
  <2> QED
    BY <2>1
<1>6. g = [s \in SUBSET (1..n) |-> Unfold(g, s)]
  <2> HIDE DEF Unfold
  <2> QED
    BY <1>5
<1>7. Loop(VolumeEntry, data) = g[1..n]
  <2>1. DOMAIN data = 1..n
    OBVIOUS
  <2> QED
    BY <2>1 DEF FoldLeft, MapThenFoldSet, Loop
<1> HIDE DEF g
<1>8. Folded(g, FeeEntries, n, step)
  <2>1. g[{}] = << >>
    BY <1>6
  <2>2. ASSUME NEW s \in SUBSET (1..n), s # {}, g[Earlier(s)] \in Seq(FeeEntries)
        PROVE  g[s] = Append(g[Earlier(s)], step[Max(s)][g[Earlier(s)]])
    <3>1. g[s] = Append(g[Earlier(s)], VolumeEntry(g[Earlier(s)], data[Max(s)]))
      BY <1>6, <2>2 DEF Earlier
    <3>2. Max(s) \in 1..n
      BY <1>4, <2>2
    <3> QED
      BY <1>2, <2>2, <3>1, <3>2
  <2> QED
    BY <2>1, <2>2 DEF Folded
<1> QED
  BY <1>2, <1>7, <1>8, LoopUnrolled DEF step

BurnedSteps(data, n) == [i \in 1..n |-> [x \in Seq(BurnedEntries) |-> BurnedEntry(x, data[i])]]

LEMMA BurnedLoop ==
    ASSUME NEW n \in Nat, NEW data \in [1..n -> Rows]
    PROVE  Unrolled(Loop(BurnedEntry, data), BurnedEntries, n, BurnedSteps(data, n))
<1> DEFINE step == BurnedSteps(data, n)
           Unfold(g, s) == IF s = {} THEN << >>
                         ELSE Append(g[s \ {Max(s)}], BurnedEntry(g[s \ {Max(s)}], data[Max(s)]))
           g == CHOOSE k : k = [s \in SUBSET (1..n) |-> Unfold(k, s)]
<1>1. \A i \in 1..n : \A x \in Seq(BurnedEntries) : BurnedEntry(x, data[i]) \in BurnedEntries
  BY BurnedTyped
<1>2. step \in Steps(BurnedEntries, n) /\ \A i \in 1..n : \A x \in Seq(BurnedEntries) : step[i][x] = BurnedEntry(x, data[i])
  BY <1>1 DEF Steps, BurnedSteps
<1> HIDE DEF step
<1>a. step \in Steps(BurnedEntries, n)
  BY <1>2
<1>3. PICK h \in [SUBSET (1..n) -> Seq(BurnedEntries)] : Computes(h, n, step)
  BY <1>a, LoopExists
<1>4. \A s \in SUBSET (1..n) : s # {} => Max(s) \in 1..n /\ Earlier(s) \in SUBSET (1..n)
  BY LastIndex
<1>5. h = [s \in SUBSET (1..n) |-> Unfold(h, s)]
  <2>1. ASSUME NEW s \in SUBSET (1..n) PROVE h[s] = Unfold(h, s)
    <3>1. CASE s = {}
      BY <1>3, <3>1 DEF Computes
    <3>2. CASE s # {}
      <4>1. h[Earlier(s)] \in Seq(BurnedEntries) /\ Max(s) \in 1..n
        BY <1>4, <3>2
      <4>2. step[Max(s)][h[Earlier(s)]] = BurnedEntry(h[Earlier(s)], data[Max(s)])
        BY <1>2, <4>1
      <4>3. h[s] = Append(h[Earlier(s)], BurnedEntry(h[Earlier(s)], data[Max(s)]))
        BY <1>3, <3>2, <4>2 DEF Computes
      <4> QED
        BY <3>2, <4>3 DEF Earlier
    <3> QED
      BY <3>1, <3>2
  <2> HIDE DEF Unfold
  <2> QED
    BY <2>1
<1>6. g = [s \in SUBSET (1..n) |-> Unfold(g, s)]
  <2> HIDE DEF Unfold
  <2> QED
    BY <1>5
<1>7. Loop(BurnedEntry, data) = g[1..n]
  <2>1. DOMAIN data = 1..n
    OBVIOUS
  <2> QED
    BY <2>1 DEF FoldLeft, MapThenFoldSet, Loop
<1> HIDE DEF g
<1>8. Folded(g, BurnedEntries, n, step)
  <2>1. g[{}] = << >>
    BY <1>6
  <2>2. ASSUME NEW s \in SUBSET (1..n), s # {}, g[Earlier(s)] \in Seq(BurnedEntries)
        PROVE  g[s] = Append(g[Earlier(s)], step[Max(s)][g[Earlier(s)]])
    <3>1. g[s] = Append(g[Earlier(s)], BurnedEntry(g[Earlier(s)], data[Max(s)]))
      BY <1>6, <2>2 DEF Earlier
    <3>2. Max(s) \in 1..n
      BY <1>4, <2>2
    <3> QED
      BY <1>2, <2>2, <3>1, <3>2
  <2> QED
    BY <2>1, <2>2 DEF Folded
<1> QED
  BY <1>2, <1>7, <1>8, LoopUnrolled DEF step

TraderSteps(data, n) == [i \in 1..n |-> [x \in Seq(TraderEntries) |-> TraderEntry(x, data[i])]]

LEMMA TraderLoop ==
    ASSUME NEW n \in Nat, NEW data \in [1..n -> Rows]
    PROVE  Unrolled(Loop(TraderEntry, data), TraderEntries, n, TraderSteps(data, n))
<1> DEFINE step == TraderSteps(data, n)
           Unfold(g, s) == IF s = {} THEN << >>
                         ELSE Append(g[s \ {Max(s)}], TraderEntry(g[s \ {Max(s)}], data[Max(s)]))
           g == CHOOSE k : k = [s \in SUBSET (1..n) |-> Unfold(k, s)]
<1>1. \A i \in 1..n : \A x \in Seq(TraderEntries) : TraderEntry(x, data[i]) \in TraderEntries
  BY TraderTyped
<1>2. step \in Steps(TraderEntries, n) /\ \A i \in 1..n : \A x \in Seq(TraderEntries) : step[i][x] = TraderEntry(x, data[i])
  BY <1>1 DEF Steps, TraderSteps
<1> HIDE DEF step
<1>a. step \in Steps(TraderEntries, n)
  BY <1>2
<1>3. PICK h \in [SUBSET (1..n) -> Seq(TraderEntries)] : Computes(h, n, step)
  BY <1>a, LoopExists
<1>4. \A s \in SUBSET (1..n) : s # {} => Max(s) \in 1..n /\ Earlier(s) \in SUBSET (1..n)
  BY LastIndex
<1>5. h = [s \in SUBSET (1..n) |-> Unfold(h, s)]
  <2>1. ASSUME NEW s \in SUBSET (1..n) PROVE h[s] = Unfold(h, s)
    <3>1. CASE s = {}
      BY <1>3, <3>1 DEF Computes
    <3>2. CASE s # {}
      <4>1. h[Earlier(s)] \in Seq(TraderEntries) /\ Max(s) \in 1..n
        BY <1>4, <3>2
      <4>2. step[Max(s)][h[Earlier(s)]] = TraderEntry(h[Earlier(s)], data[Max(s)])
        BY <1>2, <4>1
      <4>3. h[s] = Append(h[Earlier(s)], TraderEntry(h[Earlier(s)], data[Max(s)]))
        BY <1>3, <3>2, <4>2 DEF Computes
      <4> QED
        BY <3>2, <4>3 DEF Earlier
    <3> QED
      BY <3>1, <3>2
  <2> HIDE DEF Unfold
  <2> QED
    BY <2>1
<1>6. g = [s \in SUBSET (1..n) |-> Unfold(g, s)]
  <2> HIDE DEF Unfold
  <2> QED
    BY <1>5
<1>7. Loop(TraderEntry, data) = g[1..n]
  <2>1. DOMAIN data = 1..n
    OBVIOUS
  <2> QED
    BY <2>1 DEF FoldLeft, MapThenFoldSet, Loop
<1> HIDE DEF g
<1>8. Folded(g, TraderEntries, n, step)
  <2>1. g[{}] = << >>
    BY <1>6
  <2>2. ASSUME NEW s \in SUBSET (1..n), s # {}, g[Earlier(s)] \in Seq(TraderEntries)
        PROVE  g[s] = Append(g[Earlier(s)], step[Max(s)][g[Earlier(s)]])
    <3>1. g[s] = Append(g[Earlier(s)], TraderEntry(g[Earlier(s)], data[Max(s)]))
      BY <1>6, <2>2 DEF Earlier
    <3>2. Max(s) \in 1..n
      BY <1>4, <2>2
    <3> QED
      BY <1>2, <2>2, <3>1, <3>2
  <2> QED
    BY <2>1, <2>2 DEF Folded
<1> QED
  BY <1>2, <1>7, <1>8, LoopUnrolled DEF step

PoolSteps(data, n) == [i \in 1..n |-> [x \in Seq(PoolEntries) |-> PoolEntry(x, data[i])]]

LEMMA PoolLoop ==
    ASSUME NEW n \in Nat, NEW data \in [1..n -> Rows]
    PROVE  Unrolled(Loop(PoolEntry, data), PoolEntries, n, PoolSteps(data, n))
<1> DEFINE step == PoolSteps(data, n)
           Unfold(g, s) == IF s = {} THEN << >>
                         ELSE Append(g[s \ {Max(s)}], PoolEntry(g[s \ {Max(s)}], data[Max(s)]))
           g == CHOOSE k : k = [s \in SUBSET (1..n) |-> Unfold(k, s)]
<1>1. \A i \in 1..n : \A x \in Seq(PoolEntries) : PoolEntry(x, data[i]) \in PoolEntries
  BY PoolTyped
<1>2. step \in Steps(PoolEntries, n) /\ \A i \in 1..n : \A x \in Seq(PoolEntries) : step[i][x] = PoolEntry(x, data[i])
  BY <1>1 DEF Steps, PoolSteps
<1> HIDE DEF step
<1>a. step \in Steps(PoolEntries, n)
  BY <1>2
<1>3. PICK h \in [SUBSET (1..n) -> Seq(PoolEntries)] : Computes(h, n, step)
  BY <1>a, LoopExists
<1>4. \A s \in SUBSET (1..n) : s # {} => Max(s) \in 1..n /\ Earlier(s) \in SUBSET (1..n)
  BY LastIndex
<1>5. h = [s \in SUBSET (1..n) |-> Unfold(h, s)]
  <2>1. ASSUME NEW s \in SUBSET (1..n) PROVE h[s] = Unfold(h, s)
    <3>1. CASE s = {}
      BY <1>3, <3>1 DEF Computes
    <3>2. CASE s # {}
      <4>1. h[Earlier(s)] \in Seq(PoolEntries) /\ Max(s) \in 1..n
        BY <1>4, <3>2
      <4>2. step[Max(s)][h[Earlier(s)]] = PoolEntry(h[Earlier(s)], data[Max(s)])
        BY <1>2, <4>1
      <4>3. h[s] = Append(h[Earlier(s)], PoolEntry(h[Earlier(s)], data[Max(s)]))
        BY <1>3, <3>2, <4>2 DEF Computes
      <4> QED
        BY <3>2, <4>3 DEF Earlier
    <3> QED
      BY <3>1, <3>2
  <2> HIDE DEF Unfold
  <2> QED
    BY <2>1
<1>6. g = [s \in SUBSET (1..n) |-> Unfold(g, s)]
  <2> HIDE DEF Unfold
  <2> QED
    BY <1>5
<1>7. Loop(PoolEntry, data) = g[1..n]
  <2>1. DOMAIN data = 1..n
    OBVIOUS
  <2> QED
    BY <2>1 DEF FoldLeft, MapThenFoldSet, Loop
<1> HIDE DEF g
<1>8. Folded(g, PoolEntries, n, step)
  <2>1. g[{}] = << >>
    BY <1>6
  <2>2. ASSUME NEW s \in SUBSET (1..n), s # {}, g[Earlier(s)] \in Seq(PoolEntries)
        PROVE  g[s] = Append(g[Earlier(s)], step[Max(s)][g[Earlier(s)]])
    <3>1. g[s] = Append(g[Earlier(s)], PoolEntry(g[Earlier(s)], data[Max(s)]))
      BY <1>6, <2>2 DEF Earlier
    <3>2. Max(s) \in 1..n
      BY <1>4, <2>2
    <3> QED
      BY <1>2, <2>2, <3>1, <3>2
  <2> QED
    BY <2>1, <2>2 DEF Folded
<1> QED
  BY <1>2, <1>7, <1>8, LoopUnrolled DEF step

FillSteps(data, n) == [i \in 1..n |-> [x \in Seq(PoolEntries) |-> Fill(x, data[i])]]

LEMMA FillLoop ==
    ASSUME NEW n \in Nat, NEW data \in [1..n -> PoolEntries]
    PROVE  Unrolled(Loop(Fill, data), PoolEntries, n, FillSteps(data, n))
<1> DEFINE step == FillSteps(data, n)
           Unfold(g, s) == IF s = {} THEN << >>
                         ELSE Append(g[s \ {Max(s)}], Fill(g[s \ {Max(s)}], data[Max(s)]))
           g == CHOOSE k : k = [s \in SUBSET (1..n) |-> Unfold(k, s)]
<1>1. \A i \in 1..n : \A x \in Seq(PoolEntries) : Fill(x, data[i]) \in PoolEntries
  BY FillTyped
<1>2. step \in Steps(PoolEntries, n) /\ \A i \in 1..n : \A x \in Seq(PoolEntries) : step[i][x] = Fill(x, data[i])
  BY <1>1 DEF Steps, FillSteps
<1> HIDE DEF step
<1>a. step \in Steps(PoolEntries, n)
  BY <1>2
<1>3. PICK h \in [SUBSET (1..n) -> Seq(PoolEntries)] : Computes(h, n, step)
  BY <1>a, LoopExists
<1>4. \A s \in SUBSET (1..n) : s # {} => Max(s) \in 1..n /\ Earlier(s) \in SUBSET (1..n)
  BY LastIndex
<1>5. h = [s \in SUBSET (1..n) |-> Unfold(h, s)]
  <2>1. ASSUME NEW s \in SUBSET (1..n) PROVE h[s] = Unfold(h, s)
    <3>1. CASE s = {}
      BY <1>3, <3>1 DEF Computes
    <3>2. CASE s # {}
      <4>1. h[Earlier(s)] \in Seq(PoolEntries) /\ Max(s) \in 1..n
        BY <1>4, <3>2
      <4>2. step[Max(s)][h[Earlier(s)]] = Fill(h[Earlier(s)], data[Max(s)])
        BY <1>2, <4>1
      <4>3. h[s] = Append(h[Earlier(s)], Fill(h[Earlier(s)], data[Max(s)]))
        BY <1>3, <3>2, <4>2 DEF Computes
      <4> QED
        BY <3>2, <4>3 DEF Earlier
    <3> QED
      BY <3>1, <3>2
  <2> HIDE DEF Unfold
  <2> QED
    BY <2>1
<1>6. g = [s \in SUBSET (1..n) |-> Unfold(g, s)]
  <2> HIDE DEF Unfold
  <2> QED
    BY <1>5
<1>7. Loop(Fill, data) = g[1..n]
  <2>1. DOMAIN data = 1..n
    OBVIOUS
  <2> QED
    BY <2>1 DEF FoldLeft, MapThenFoldSet, Loop
<1> HIDE DEF g
<1>8. Folded(g, PoolEntries, n, step)
  <2>1. g[{}] = << >>
    BY <1>6
  <2>2. ASSUME NEW s \in SUBSET (1..n), s # {}, g[Earlier(s)] \in Seq(PoolEntries)
        PROVE  g[s] = Append(g[Earlier(s)], step[Max(s)][g[Earlier(s)]])
    <3>1. g[s] = Append(g[Earlier(s)], Fill(g[Earlier(s)], data[Max(s)]))
      BY <1>6, <2>2 DEF Earlier
    <3>2. Max(s) \in 1..n
      BY <1>4, <2>2
    <3> QED
      BY <1>2, <2>2, <3>1, <3>2
  <2> QED
    BY <2>1, <2>2 DEF Folded
<1> QED
  BY <1>2, <1>7, <1>8, LoopUnrolled DEF step

-----------------------------------------------------------------------------
(* The rows and their order *)

\* The sum of the models is that of DataFacts.
LEMMA SumIs == \A f, S : SumFunctionOnSet(f, S) = Sum(f, S)
  BY DEF SumFunctionOnSet, Sum

\* A row is one, and names its day.
LEMMA RowTyped ==
    ASSUME NEW table, TableOK(table), NEW d \in DOMAIN table
    PROVE  /\ RowOf(table, d) \in Rows
           /\ RowOf(table, d).timestamp = d * DayLength /\ RowOf(table, d).amount = table[d]
           /\ d \in Nat /\ d * DayLength \in Nat /\ DayOf(d * DayLength) = d
<1>1. d \in Nat /\ DayLength \in Nat \ {0} /\ table[d] \in Nat
  BY CalendarAssumption DEF TableOK
<1>2. d * DayLength \in Nat /\ DayOf(d * DayLength) = d
  <2>1. d * DayLength \in Nat
    BY <1>1
  <2>2. (d * DayLength) \div DayLength = d
    BY <1>1, DivOfMultiple
  <2> QED
    BY <2>1, <2>2 DEF DayOf
<1>3. UpTo(table, d) \in SUBSET DOMAIN table /\ IsFiniteSet(UpTo(table, d))
  BY FS_Subset DEF TableOK, UpTo
<1>4. IntOn(Profits(table), UpTo(table, d)) /\ IntOn(Losses(table), UpTo(table, d))
  <2>1. \A e \in DOMAIN table : Profits(table)[e] \in Int /\ Losses(table)[e] \in Int
    BY DEF TableOK, Profits, Losses, Profit, Loss
  <2> QED
    BY <1>3, <2>1 DEF IntOn
<1>5. /\ SumFunctionOnSet(Profits(table), UpTo(table, d)) \in Int
      /\ SumFunctionOnSet(Losses(table), UpTo(table, d)) \in Int
  BY <1>3, <1>4, SumIs, SumInt
<1> QED
  BY <1>1, <1>2, <1>5 DEF RowOf, Rows

\* The rows of a query, sorted, are those of its newest days.
Sorted(s, table, P, a, m) ==
    /\ Rising(a, P, m) /\ Len(s) = m
    /\ s = [i \in 1..m |-> RowOf(table, a[m + 1 - i])] /\ SortBy(s) = RowsOf(table, a, m)

\* It is so of every query.
LEMMA NewestSorted ==
    ASSUME NEW table, TableOK(table), NEW days \in SUBSET DOMAIN table, NEW first \in Nat
    PROVE  \E a, m : Sorted(Newest(table, days, first), table, Top(days, first), a, m)
<1>1. days \in SUBSET Int /\ IsFiniteSet(days) /\ Cardinality(days) \in Nat
  BY FS_Subset, FS_CardinalityType DEF TableOK
<1> DEFINE n == Cardinality(days)
<1>2. PICK a, m : /\ m = Min({n, first}) /\ Rising(a, Top(days, first), m)
                  /\ \A i \in 1..m : a[m + 1 - i] = Ith(days, n + 1 - i) /\ a[i] \in days
  BY <1>1, TopRising
<1>3. m \in Nat /\ m <= n
  BY <1>1, <1>2, MinTwo
<1> DEFINE all == [i \in 1..n |-> RowOf(table, Ith(days, n + 1 - i))]
           s == [i \in 1..m |-> RowOf(table, a[m + 1 - i])]
<1>4. Newest(table, days, first) = s
  <2>1. Newest(table, days, first) = SubSeq(all, 1, m)
    BY <1>2 DEF Newest
  <2>2. SubSeq(all, 1, m) = [i \in 1..m |-> all[i]]
    <3> DEFINE T == {all[i] : i \in 1..n}
    <3>1. all \in [1..n -> T] /\ n \in Nat
      BY <1>1
    <3> HIDE DEF all, n, T
    <3>2. all \in Seq(T) /\ Len(all) = n
      BY <3>1
    <3> QED
      BY <3>2, <1>3
  <2>3. ASSUME NEW i \in 1..m PROVE all[i] = RowOf(table, a[m + 1 - i])
    <3>1. i \in 1..n
      BY <1>1, <1>3
    <3>2. all[i] = RowOf(table, Ith(days, n + 1 - i))
      BY <3>1
    <3> QED
      BY <1>2, <3>2
  <2> HIDE DEF all
  <2> QED
    BY <2>1, <2>2, <2>3
<1>5. \A i \in 1..m : m + 1 - i \in 1..m
  BY <1>3
<1>6. \A i \in 1..m : s[i].timestamp = a[m + 1 - i] * DayLength
  <2> TAKE i \in 1..m
  <2>1. s[i] = RowOf(table, a[m + 1 - i])
    OBVIOUS
  <2> QED
    BY <2>1 DEF RowOf
<1>7. \A i \in 1..m : a[i] \in Int
  BY <1>1, <1>2
<1>8. SortBy(s) = [i \in 1..m |-> s[m + 1 - i]]
  <2>1. \A i \in 1..m : s[i].timestamp \in Int
    BY <1>5, <1>6, <1>7, CalendarAssumption
  <2>2. ASSUME NEW i \in 1..m, NEW j \in 1..m, i < j PROVE s[j].timestamp < s[i].timestamp
    <3>1. a[m + 1 - j] < a[m + 1 - i]
      <4>1. m + 1 - j \in 1..m /\ m + 1 - i \in 1..m /\ m + 1 - j < m + 1 - i
        BY <1>3, <1>5, <2>2
      <4>2. \A x, y \in 1..m : x < y => a[x] < a[y]
        BY <1>2 DEF Rising
      <4> QED
        BY <4>1, <4>2
    <3>2. a[m + 1 - j] \in Int /\ a[m + 1 - i] \in Int /\ DayLength \in Nat \ {0}
      BY <1>5, <1>7, CalendarAssumption
    <3>3. a[m + 1 - j] * DayLength < a[m + 1 - i] * DayLength
      <4> DEFINE x == a[m + 1 - j]
                 y == a[m + 1 - i]
      <4>1. x \in Int /\ y \in Int /\ x < y
        BY <3>1, <3>2
      <4> HIDE DEF x, y
      <4>2. x * DayLength < y * DayLength
        BY <3>2, <4>1
      <4> QED
        BY <4>2 DEF x, y
    <3> QED
      BY <1>6, <3>3
  <2>3. DOMAIN s = 1..m
    OBVIOUS
  <2> HIDE DEF s
  <2> QED
    BY <1>3, <2>1, <2>2, <2>3, SortReverses
<1>9. \A i \in 1..m : s[m + 1 - i] = RowOf(table, a[i])
  BY <1>3, <1>5
<1>10. SortBy(s) = RowsOf(table, a, m)
  <2> HIDE DEF s
  <2> QED
    BY <1>8, <1>9 DEF RowsOf
<1>11. Len(s) = m
  BY <1>3
<1> HIDE DEF s
<1>12. Sorted(s, table, Top(days, first), a, m)
  <2>1. s = [i \in 1..m |-> RowOf(table, a[m + 1 - i])]
    BY DEF s
  <2> QED
    BY <1>2, <1>10, <1>11, <2>1 DEF Sorted
<1> QED
  BY <1>4, <1>12

-----------------------------------------------------------------------------
(* The entries of a report *)

\* A fold over no element, and over one.
LEMMA FoldNone == \A zero : FoldLeft(Plus, zero, [i \in {} |-> 0]) = zero
<1> TAKE zero
<1> DEFINE s == [i \in {} |-> 0]
           Unfold(g, t) == IF t = {} THEN zero ELSE Plus(g[t \ {Max(t)}], s[Max(t)])
           g == CHOOSE k : k = [t \in SUBSET {} |-> Unfold(k, t)]
           h == [t \in SUBSET {} |-> zero]
<1>1. h = [t \in SUBSET {} |-> Unfold(h, t)]
  OBVIOUS
<1>2. g = [t \in SUBSET {} |-> Unfold(g, t)]
  <2> HIDE DEF Unfold, h
  <2> QED
    BY <1>1
<1>3. g[{}] = zero
  BY <1>2
<1>4. FoldLeft(Plus, zero, s) = g[DOMAIN s]
  BY DEF FoldLeft, MapThenFoldSet
<1> HIDE DEF g
<1> QED
  BY <1>3, <1>4

LEMMA FoldOne == \A zero, x : FoldLeft(Plus, zero, [i \in {1} |-> x]) = Plus(zero, x)
<1> TAKE zero, x
<1> DEFINE s == [i \in {1} |-> x]
           Unfold(g, t) == IF t = {} THEN zero ELSE Plus(g[t \ {Max(t)}], s[Max(t)])
           g == CHOOSE k : k = [t \in SUBSET {1} |-> Unfold(k, t)]
           h == [t \in SUBSET {1} |-> IF t = {} THEN zero ELSE Plus(zero, x)]
<1>1. Max({1}) = 1
  <2>1. IsFiniteSet({1}) /\ {1} \in SUBSET Int /\ {1} # {}
    BY FS_Singleton
  <2> QED
    BY <2>1, MaxOf
<1>2. h = [t \in SUBSET {1} |-> Unfold(h, t)]
  <2>1. ASSUME NEW t \in SUBSET {1} PROVE h[t] = Unfold(h, t)
    <3>1. CASE t = {}
      BY <3>1
    <3>2. CASE t # {}
      <4>1. t = {1}
        BY <3>2
      <4>2. {1} \ {1} = {} /\ {} \in SUBSET {1}
        OBVIOUS
      <4>3. h[{1} \ {1}] = zero
        BY <4>2
      <4>4. s[1] = x
        OBVIOUS
      <4> HIDE DEF s
      <4>5. Unfold(h, t) = Plus(h[t \ {Max(t)}], s[Max(t)])
        BY <3>2
      <4>6. Unfold(h, t) = Plus(zero, x)
        <5> HIDE DEF h, Unfold
        <5> QED
          BY <4>1, <4>3, <4>4, <4>5, <1>1
      <4>7. h[t] = Plus(zero, x)
        BY <3>2
      <4> QED
        BY <4>6, <4>7
    <3> QED
      BY <3>1, <3>2
  <2> HIDE DEF Unfold
  <2> QED
    BY <2>1
<1>3. g = [t \in SUBSET {1} |-> Unfold(g, t)]
  <2> HIDE DEF Unfold, h
  <2> QED
    BY <1>2
<1>4. g[{1}] = Plus(zero, x)
  <2> HIDE DEF g
  <2>1. {1} \ {1} = {} /\ {} \in SUBSET {1} /\ {1} \in SUBSET {1} /\ {1} # {}
    OBVIOUS
  <2>2. g[{}] = zero
    BY <1>3, <2>1
  <2>3. g[{1}] = Unfold(g, {1})
    <3> HIDE DEF Unfold
    <3> QED
      BY <1>3, <2>1
  <2>4. Unfold(g, {1}) = Plus(g[{1} \ {Max({1})}], s[Max({1})])
    BY <2>1
  <2>5. s[1] = x
    OBVIOUS
  <2> HIDE DEF s, Unfold
  <2> QED
    BY <2>1, <2>2, <2>3, <2>4, <2>5, <1>1
<1>5. FoldLeft(Plus, zero, s) = g[DOMAIN s]
  BY DEF FoldLeft, MapThenFoldSet
<1>6. DOMAIN s = {1}
  OBVIOUS
<1> HIDE DEF g, s
<1>7. FoldLeft(Plus, zero, s) = Plus(zero, x)
  BY <1>4, <1>5, <1>6
<1> QED
  BY <1>7 DEF s

\* Data with at most one entry for a day; the entry of an index is that of day b[i].
Dated(data, b, m) ==
    /\ m \in Nat /\ DOMAIN data = 1..m
    /\ \A i \in 1..m : b[i] \in Int /\ data[i].timestamp = b[i] * DayLength
    /\ \A i, j \in 1..m : b[i] = b[j] => i = j

\* Then a date shows the entry of its day, or zeros.
Shows(entry, data, b, m, date, zero) ==
    /\ \A j \in 1..m : b[j] = DayOf(date) =>
          entry = [Plus(zero, data[j]) EXCEPT !.timestamp = date]
    /\ (\A j \in 1..m : b[j] # DayOf(date)) => entry = [zero EXCEPT !.timestamp = date]

\* mappingDateArray makes it so.
LEMMA EntryShown ==
    ASSUME NEW data, NEW b, NEW m, Dated(data, b, m),
           NEW dates, NEW zero, NEW i \in DOMAIN dates
    PROVE  Shows(MappingDateArray(data, dates, zero)[i], data, b, m, dates[i], zero)
<1> DEFINE J == {j \in DOMAIN data : DayOf(data[j].timestamp) = DayOf(dates[i])}
           OfDay == Those(data, LAMBDA r : DayOf(r.timestamp) = DayOf(dates[i]))
<1>1. OfDay = Chosen(data, J)
  BY DEF Those, Chosen
<1>2. ASSUME NEW j \in 1..m PROVE DayOf(data[j].timestamp) = b[j]
  <2>1. b[j] \in Int /\ data[j].timestamp = b[j] * DayLength /\ DayLength \in Nat \ {0}
    BY CalendarAssumption DEF Dated
  <2>2. (b[j] * DayLength) \div DayLength = b[j]
    BY <2>1, DivOfMultiple
  <2> QED
    BY <2>1, <2>2 DEF DayOf
<1>3. J = {j \in 1..m : b[j] = DayOf(dates[i])}
  BY <1>2 DEF Dated
<1>4. MappingDateArray(data, dates, zero)[i]
         = [FoldLeft(Plus, zero, OfDay) EXCEPT !.timestamp = dates[i]]
  BY DEF MappingDateArray
<1> HIDE DEF J, OfDay
<1>6. ASSUME NEW j \in 1..m, b[j] = DayOf(dates[i]) PROVE FoldLeft(Plus, zero, OfDay) = Plus(zero, data[j])
  <2>1. J = {j}
    BY <1>3, <1>6 DEF Dated
  <2>0. j \in Int
    BY DEF Dated
  <2>2. OfDay = [k \in {1} |-> data[j]]
    BY <1>1, <2>0, <2>1, ChosenOne
  <2> QED
    BY <2>2, FoldOne
<1>7. ASSUME \A j \in 1..m : b[j] # DayOf(dates[i]) PROVE FoldLeft(Plus, zero, OfDay) = zero
  <2>1. J = {}
    BY <1>3, <1>7
  <2>2. OfDay = [k \in {} |-> 0]
    BY <1>1, <2>1, ChosenNone
  <2> QED
    BY <2>2, FoldNone
<1> QED
  BY <1>4, <1>6, <1>7 DEF Shows

\* Two data with the same entries of the days before t make the same report of those days.
LEMMA EntriesAgree ==
    ASSUME NEW data, NEW b, NEW m, Dated(data, b, m), NEW less, NEW c, NEW k, Dated(less, c, k),
           NEW t \in Int, NEW dates, NEW zero,
           \A i \in 1..m : b[i] < t => \E j \in 1..k : c[j] = b[i] /\ less[j] = data[i],
           \A j \in 1..k : c[j] < t => \E i \in 1..m : c[j] = b[i]
    PROVE  \A i \in DOMAIN dates : DayOf(dates[i]) < t =>
              MappingDateArray(data, dates, zero)[i] = MappingDateArray(less, dates, zero)[i]
<1> TAKE i \in DOMAIN dates
<1> HAVE DayOf(dates[i]) < t
<1>a. Shows(MappingDateArray(data, dates, zero)[i], data, b, m, dates[i], zero)
  BY EntryShown
<1>b. Shows(MappingDateArray(less, dates, zero)[i], less, c, k, dates[i], zero)
  BY EntryShown
<1>1. CASE \E j \in 1..m : b[j] = DayOf(dates[i])
  <2>1. PICK j \in 1..m : b[j] = DayOf(dates[i])
    BY <1>1
  <2>2. PICK l \in 1..k : c[l] = b[j] /\ less[l] = data[j]
    BY <2>1
  <2>3. MappingDateArray(data, dates, zero)[i] = [Plus(zero, data[j]) EXCEPT !.timestamp = dates[i]]
    BY <2>1, <1>a DEF Shows
  <2>4. MappingDateArray(less, dates, zero)[i] = [Plus(zero, less[l]) EXCEPT !.timestamp = dates[i]]
    BY <2>1, <2>2, <1>b DEF Shows
  <2> QED
    BY <2>2, <2>3, <2>4
<1>2. CASE \A j \in 1..m : b[j] # DayOf(dates[i])
  <2>1. \A l \in 1..k : c[l] # DayOf(dates[i])
    BY <1>2
  <2>2. MappingDateArray(data, dates, zero)[i] = [zero EXCEPT !.timestamp = dates[i]]
    BY <1>2, <1>a DEF Shows
  <2>3. MappingDateArray(less, dates, zero)[i] = [zero EXCEPT !.timestamp = dates[i]]
    BY <2>1, <1>b DEF Shows
  <2> QED
    BY <2>2, <2>3
<1> QED
  BY <1>1, <1>2

\* The dates of a range: of the days in a row from that of its start.
LEMMA DatesAre ==
    ASSUME NEW from \in Nat, NEW to \in Nat, from <= to
    PROVE  /\ DOMAIN Dates(from, to) = 1..((to - from) \div DayLength + 1)
           /\ (to - from) \div DayLength \in Nat
           /\ \A i \in DOMAIN Dates(from, to) :
                 Dates(from, to)[i] \in Nat /\ DayOf(Dates(from, to)[i]) = DayOf(from) + i - 1
           /\ DayOf(from) \in Nat
<1>1. DayLength \in Nat \ {0}
  BY CalendarAssumption
<1> DEFINE q == (to - from) \div DayLength
           p == from \div DayLength
<1>e. \A x \in Nat, n \in Nat \ {0} :
         x \div n \in Nat /\ (x \div n) * n <= x /\ x < (x \div n) * n + n
  OBVIOUS
<1>2. to - from \in Nat
  OBVIOUS
<1>3. q \in Nat
  BY <1>1, <1>2, <1>e
<1>4. p \in Nat /\ p * DayLength <= from /\ from < p * DayLength + DayLength
  BY <1>1, <1>e
<1>5. Dates(from, to) = [i \in 1..(q + 1) |-> from + (i - 1) * DayLength]
  BY DEF Dates
<1> HIDE DEF q, p
<1>6. ASSUME NEW i \in 1..(q + 1)
      PROVE  Dates(from, to)[i] \in Nat /\ DayOf(Dates(from, to)[i]) = p + i - 1
  <2> DEFINE x == from + (i - 1) * DayLength
             y == p + i - 1
  <2>1. i - 1 \in Nat /\ (i - 1) * DayLength \in Nat
    BY <1>1, <1>3
  <2>2. x \in Nat /\ y \in Nat
    BY <2>1, <1>4
  <2>3. y * DayLength = p * DayLength + (i - 1) * DayLength
    BY <2>1, <1>1, <1>4
  <2>4. y * DayLength <= x /\ x < y * DayLength + DayLength
    BY <2>1, <2>3, <1>1, <1>4
  <2> HIDE DEF x, y
  <2>5. x \div DayLength = y
    BY <2>2, <2>4, <1>1, DivUnique
  <2>6. Dates(from, to)[i] = x
    BY <1>5 DEF x
  <2> QED
    BY <2>2, <2>5, <2>6 DEF DayOf, y
<1> QED
  BY <1>3, <1>4, <1>5, <1>6 DEF DayOf, p, q

-----------------------------------------------------------------------------
(* What the loops compute *)

\* The field of the entry before the i-th.
LEMMA BeforePrefix ==
    ASSUME NEW E, NEW out \in Seq(E), NEW i \in 1..Len(out), NEW k
    PROVE  /\ Prefix(out, i - 1) \in Seq(E) /\ Len(Prefix(out, i - 1)) = i - 1
           /\ Before(Prefix(out, i - 1), k) = IF i = 1 THEN 0 ELSE out[i - 1][k]
<1>1. Prefix(out, i - 1) \in Seq(E) /\ Len(Prefix(out, i - 1)) = i - 1
  BY DEF Prefix
<1>2. CASE i = 1
  <2>1. Prefix(out, i - 1) = << >>
    BY <1>1, <1>2
  <2> QED
    BY <1>1, <1>2, <2>1 DEF Before
<1>3. CASE i # 1
  <2>1. Prefix(out, i - 1) # << >> /\ i - 1 \in 1..(i - 1)
    BY <1>1, <1>3
  <2>2. Last(Prefix(out, i - 1)) = out[i - 1]
    BY <1>1, <2>1 DEF Last, Prefix
  <2> QED
    BY <1>1, <1>3, <2>1, <2>2 DEF Before
<1> QED
  BY <1>2, <1>3

\* Each entry of a loop is made of its row and of the entries before it.
LEMMA FeeUnfolds ==
    ASSUME NEW n \in Nat, NEW data \in [1..n -> Rows], NEW out, out = Loop(FeeEntry, data)
    PROVE  /\ out \in Seq(FeeEntries) /\ Len(out) = n /\ DOMAIN out = 1..n
           /\ \A i \in 1..n : out[i] \in FeeEntries /\ out[i] = FeeEntry(Prefix(out, i - 1), data[i])
<1>1. Unrolled(out, FeeEntries, n, FeeSteps(data, n))
  BY FeeLoop
<1>2. out \in Seq(FeeEntries) /\ Len(out) = n
  BY <1>1 DEF Unrolled
<1>3. ASSUME NEW i \in 1..n PROVE out[i] \in FeeEntries /\ out[i] = FeeEntry(Prefix(out, i - 1), data[i])
  <2>1. Prefix(out, i - 1) \in Seq(FeeEntries)
    BY <1>2, BeforePrefix
  <2>2. out[i] = FeeSteps(data, n)[i][Prefix(out, i - 1)]
    BY <1>1 DEF Unrolled
  <2>3. FeeSteps(data, n)[i][Prefix(out, i - 1)] = FeeEntry(Prefix(out, i - 1), data[i])
    BY <2>1 DEF FeeSteps
  <2>4. out[i] \in FeeEntries
    <3>1. i \in 1..Len(out)
      BY <1>2
    <3> QED
      BY <1>2, <3>1, ElementOf
  <2> QED
    BY <2>2, <2>3, <2>4
<1>4. DOMAIN out = 1..n
  BY <1>2, ElementOf
<1> QED
  BY <1>2, <1>3, <1>4

LEMMA VolumeUnfolds ==
    ASSUME NEW n \in Nat, NEW data \in [1..n -> Rows], NEW out, out = Loop(VolumeEntry, data)
    PROVE  /\ out \in Seq(FeeEntries) /\ Len(out) = n /\ DOMAIN out = 1..n
           /\ \A i \in 1..n : out[i] \in FeeEntries /\ out[i] = VolumeEntry(Prefix(out, i - 1), data[i])
<1>1. Unrolled(out, FeeEntries, n, VolumeSteps(data, n))
  BY VolumeLoop
<1>2. out \in Seq(FeeEntries) /\ Len(out) = n
  BY <1>1 DEF Unrolled
<1>3. ASSUME NEW i \in 1..n PROVE out[i] \in FeeEntries /\ out[i] = VolumeEntry(Prefix(out, i - 1), data[i])
  <2>1. Prefix(out, i - 1) \in Seq(FeeEntries)
    BY <1>2, BeforePrefix
  <2>2. out[i] = VolumeSteps(data, n)[i][Prefix(out, i - 1)]
    BY <1>1 DEF Unrolled
  <2>3. VolumeSteps(data, n)[i][Prefix(out, i - 1)] = VolumeEntry(Prefix(out, i - 1), data[i])
    BY <2>1 DEF VolumeSteps
  <2>4. out[i] \in FeeEntries
    <3>1. i \in 1..Len(out)
      BY <1>2
    <3> QED
      BY <1>2, <3>1, ElementOf
  <2> QED
    BY <2>2, <2>3, <2>4
<1>4. DOMAIN out = 1..n
  BY <1>2, ElementOf
<1> QED
  BY <1>2, <1>3, <1>4

LEMMA BurnedUnfolds ==
    ASSUME NEW n \in Nat, NEW data \in [1..n -> Rows], NEW out, out = Loop(BurnedEntry, data)
    PROVE  /\ out \in Seq(BurnedEntries) /\ Len(out) = n /\ DOMAIN out = 1..n
           /\ \A i \in 1..n : out[i] \in BurnedEntries /\ out[i] = BurnedEntry(Prefix(out, i - 1), data[i])
<1>1. Unrolled(out, BurnedEntries, n, BurnedSteps(data, n))
  BY BurnedLoop
<1>2. out \in Seq(BurnedEntries) /\ Len(out) = n
  BY <1>1 DEF Unrolled
<1>3. ASSUME NEW i \in 1..n PROVE out[i] \in BurnedEntries /\ out[i] = BurnedEntry(Prefix(out, i - 1), data[i])
  <2>1. Prefix(out, i - 1) \in Seq(BurnedEntries)
    BY <1>2, BeforePrefix
  <2>2. out[i] = BurnedSteps(data, n)[i][Prefix(out, i - 1)]
    BY <1>1 DEF Unrolled
  <2>3. BurnedSteps(data, n)[i][Prefix(out, i - 1)] = BurnedEntry(Prefix(out, i - 1), data[i])
    BY <2>1 DEF BurnedSteps
  <2>4. out[i] \in BurnedEntries
    <3>1. i \in 1..Len(out)
      BY <1>2
    <3> QED
      BY <1>2, <3>1, ElementOf
  <2> QED
    BY <2>2, <2>3, <2>4
<1>4. DOMAIN out = 1..n
  BY <1>2, ElementOf
<1> QED
  BY <1>2, <1>3, <1>4

LEMMA TraderUnfolds ==
    ASSUME NEW n \in Nat, NEW data \in [1..n -> Rows], NEW out, out = Loop(TraderEntry, data)
    PROVE  /\ out \in Seq(TraderEntries) /\ Len(out) = n /\ DOMAIN out = 1..n
           /\ \A i \in 1..n : out[i] \in TraderEntries /\ out[i] = TraderEntry(Prefix(out, i - 1), data[i])
<1>1. Unrolled(out, TraderEntries, n, TraderSteps(data, n))
  BY TraderLoop
<1>2. out \in Seq(TraderEntries) /\ Len(out) = n
  BY <1>1 DEF Unrolled
<1>3. ASSUME NEW i \in 1..n PROVE out[i] \in TraderEntries /\ out[i] = TraderEntry(Prefix(out, i - 1), data[i])
  <2>1. Prefix(out, i - 1) \in Seq(TraderEntries)
    BY <1>2, BeforePrefix
  <2>2. out[i] = TraderSteps(data, n)[i][Prefix(out, i - 1)]
    BY <1>1 DEF Unrolled
  <2>3. TraderSteps(data, n)[i][Prefix(out, i - 1)] = TraderEntry(Prefix(out, i - 1), data[i])
    BY <2>1 DEF TraderSteps
  <2>4. out[i] \in TraderEntries
    <3>1. i \in 1..Len(out)
      BY <1>2
    <3> QED
      BY <1>2, <3>1, ElementOf
  <2> QED
    BY <2>2, <2>3, <2>4
<1>4. DOMAIN out = 1..n
  BY <1>2, ElementOf
<1> QED
  BY <1>2, <1>3, <1>4

LEMMA PoolUnfolds ==
    ASSUME NEW n \in Nat, NEW data \in [1..n -> Rows], NEW out, out = Loop(PoolEntry, data)
    PROVE  /\ out \in Seq(PoolEntries) /\ Len(out) = n /\ DOMAIN out = 1..n
           /\ \A i \in 1..n : out[i] \in PoolEntries /\ out[i] = PoolEntry(Prefix(out, i - 1), data[i])
<1>1. Unrolled(out, PoolEntries, n, PoolSteps(data, n))
  BY PoolLoop
<1>2. out \in Seq(PoolEntries) /\ Len(out) = n
  BY <1>1 DEF Unrolled
<1>3. ASSUME NEW i \in 1..n PROVE out[i] \in PoolEntries /\ out[i] = PoolEntry(Prefix(out, i - 1), data[i])
  <2>1. Prefix(out, i - 1) \in Seq(PoolEntries)
    BY <1>2, BeforePrefix
  <2>2. out[i] = PoolSteps(data, n)[i][Prefix(out, i - 1)]
    BY <1>1 DEF Unrolled
  <2>3. PoolSteps(data, n)[i][Prefix(out, i - 1)] = PoolEntry(Prefix(out, i - 1), data[i])
    BY <2>1 DEF PoolSteps
  <2>4. out[i] \in PoolEntries
    <3>1. i \in 1..Len(out)
      BY <1>2
    <3> QED
      BY <1>2, <3>1, ElementOf
  <2> QED
    BY <2>2, <2>3, <2>4
<1>4. DOMAIN out = 1..n
  BY <1>2, ElementOf
<1> QED
  BY <1>2, <1>3, <1>4

LEMMA FillUnfolds ==
    ASSUME NEW n \in Nat, NEW data \in [1..n -> PoolEntries], NEW out, out = Loop(Fill, data)
    PROVE  /\ out \in Seq(PoolEntries) /\ Len(out) = n /\ DOMAIN out = 1..n
           /\ \A i \in 1..n : out[i] \in PoolEntries /\ out[i] = Fill(Prefix(out, i - 1), data[i])
<1>1. Unrolled(out, PoolEntries, n, FillSteps(data, n))
  BY FillLoop
<1>2. out \in Seq(PoolEntries) /\ Len(out) = n
  BY <1>1 DEF Unrolled
<1>3. ASSUME NEW i \in 1..n PROVE out[i] \in PoolEntries /\ out[i] = Fill(Prefix(out, i - 1), data[i])
  <2>1. Prefix(out, i - 1) \in Seq(PoolEntries)
    BY <1>2, BeforePrefix
  <2>2. out[i] = FillSteps(data, n)[i][Prefix(out, i - 1)]
    BY <1>1 DEF Unrolled
  <2>3. FillSteps(data, n)[i][Prefix(out, i - 1)] = Fill(Prefix(out, i - 1), data[i])
    BY <2>1 DEF FillSteps
  <2>4. out[i] \in PoolEntries
    <3>1. i \in 1..Len(out)
      BY <1>2
    <3> QED
      BY <1>2, <3>1, ElementOf
  <2> QED
    BY <2>2, <2>3, <2>4
<1>4. DOMAIN out = 1..n
  BY <1>2, ElementOf
<1> QED
  BY <1>2, <1>3, <1>4

-----------------------------------------------------------------------------
(* What the reports calculate of the rows of the days P, in their order a *)

\* The rows of the days P of a table, in their order.
RowsRead(table, P, a, m) == TableOK(table) /\ P \in SUBSET DOMAIN table /\ Rising(a, P, m)

\* What they look like.
LEMMA RowsFacts ==
    ASSUME NEW table, NEW P, NEW a, NEW m, RowsRead(table, P, a, m)
    PROVE  /\ P \in SUBSET Int /\ IsFiniteSet(P) /\ IntOn(table, P) /\ m \in Nat
           /\ RowsOf(table, a, m) \in [1..m -> Rows]
           /\ \A i \in 1..m : /\ RowsOf(table, a, m)[i] = RowOf(table, a[i])
                              /\ RowsOf(table, a, m)[i].timestamp = a[i] * DayLength
                              /\ RowsOf(table, a, m)[i].amount = table[a[i]]
                              /\ a[i] \in P /\ a[i] \in DOMAIN table /\ a[i] \in Nat
                              /\ table[a[i]] \in Nat
           /\ \A i, j \in 1..m : a[i] = a[j] => i = j
<1>1. P \in SUBSET DOMAIN table /\ DOMAIN table \in SUBSET Nat /\ IsFiniteSet(DOMAIN table)
  BY DEF RowsRead, TableOK
<1>2. P \in SUBSET Int /\ IsFiniteSet(P)
  BY <1>1, FS_Subset
<1>3. IntOn(table, P)
  BY <1>1 DEF RowsRead, TableOK, IntOn
<1>4. m \in Nat /\ \A i \in 1..m : a[i] \in P /\ a[i] \in DOMAIN table
  BY <1>1 DEF RowsRead, Rising
<1>5. \A i \in 1..m : /\ RowOf(table, a[i]) \in Rows
                      /\ RowOf(table, a[i]).timestamp = a[i] * DayLength
                      /\ RowOf(table, a[i]).amount = table[a[i]]
  BY <1>4, RowTyped DEF RowsRead
<1>6. RowsOf(table, a, m) \in [1..m -> Rows]
  BY <1>5 DEF RowsOf
<1>7. \A i \in 1..m : RowsOf(table, a, m)[i] = RowOf(table, a[i])
  BY DEF RowsOf
<1>8. \A i \in 1..m : a[i] \in Nat /\ table[a[i]] \in Nat
  BY <1>1, <1>4 DEF RowsRead, TableOK
<1>9. \A i, j \in 1..m : a[i] = a[j] => i = j
  <2> TAKE i, j \in 1..m
  <2>1. (i < j => a[i] < a[j]) /\ (j < i => a[j] < a[i])
    BY DEF RowsRead, Rising
  <2>2. a[i] \in Nat /\ i \in Nat /\ j \in Nat
    BY <1>4, <1>8
  <2> QED
    BY <2>1, <2>2
<1> QED
  BY <1>2, <1>3, <1>4, <1>5, <1>6, <1>7, <1>8, <1>9

\* The totals of the rows from the first that is read.
Totals(out, table, P, a, m) ==
    /\ DOMAIN out = 1..m
    /\ \A i \in 1..m : /\ out[i].timestamp = a[i] * DayLength
                       /\ out[i].amount = table[a[i]]
                       /\ out[i].cumulative = Sum(table, AtMost(P, a[i]))
                       /\ out[i].cumulative \in Int

\* A loop that adds the amount to the total before it computes these.
LEMMA TotalsAre ==
    ASSUME NEW table, NEW P, NEW a, NEW m, RowsRead(table, P, a, m), NEW E, NEW out \in Seq(E),
           Len(out) = m,
           \A i \in 1..m :
              /\ out[i].timestamp = RowsOf(table, a, m)[i].timestamp
              /\ out[i].amount = RowsOf(table, a, m)[i].amount
              /\ out[i].cumulative = Before(Prefix(out, i - 1), "cumulative")
                                        + RowsOf(table, a, m)[i].amount
    PROVE  Totals(out, table, P, a, m)
<1> DEFINE w == [i \in 1..m |-> out[i].cumulative]
<1>1. /\ P \in SUBSET Int /\ IsFiniteSet(P) /\ IntOn(table, P) /\ m \in Nat
      /\ \A i \in 1..m : /\ RowsOf(table, a, m)[i].timestamp = a[i] * DayLength
                         /\ RowsOf(table, a, m)[i].amount = table[a[i]]
  BY RowsFacts
<1>2. ASSUME NEW i \in 1..m PROVE w[i] = (IF i = 1 THEN 0 ELSE w[i - 1]) + table[a[i]]
  <2>1. Before(Prefix(out, i - 1), "cumulative") = IF i = 1 THEN 0 ELSE out[i - 1]["cumulative"]
    BY BeforePrefix
  <2>2. w[i] = out[i].cumulative /\ (i # 1 => w[i - 1] = out[i - 1].cumulative)
    BY <1>1
  <2>3. w[i] = Before(Prefix(out, i - 1), "cumulative") + table[a[i]]
    BY <1>1, <2>2
  <2> HIDE DEF w
  <2> QED
    BY <2>1, <2>2, <2>3
<1>3. Rising(a, P, m)
  BY DEF RowsRead
<1>4. \A i \in 1..m : w[i] = Sum(table, AtMost(P, a[i])) /\ w[i] \in Int
  <2>1. Accumulates(w, table, a, m)
    BY <1>2 DEF Accumulates
  <2> HIDE DEF w
  <2> QED
    BY <1>1, <1>3, <2>1, RunningTotal
<1>5. DOMAIN out = 1..m
  BY ElementOf
<1>6. \A i \in 1..m : w[i] = out[i].cumulative
  OBVIOUS
<1> HIDE DEF w
<1> QED
  BY <1>1, <1>4, <1>5, <1>6 DEF Totals

\* There is one entry a day.
LEMMA TotalsDated ==
    ASSUME NEW table, NEW P, NEW a, NEW m, RowsRead(table, P, a, m), NEW out,
           DOMAIN out = 1..m, \A i \in 1..m : out[i].timestamp = a[i] * DayLength
    PROVE  Dated(out, a, m)
<1>1. /\ m \in Nat /\ (\A i \in 1..m : a[i] \in Nat)
      /\ \A i, j \in 1..m : a[i] = a[j] => i = j
  BY RowsFacts
<1> QED
  BY <1>1 DEF Dated

\* An average is the total of the rows after the one AverageDays earlier.
AverageOf(table, P, d) ==
    {Sum(table, {f \in AtMost(P, d) : f > e}) : e \in P \cap {d - AverageDays}}

\* The fees: with the total that was kept for the day AverageDays earlier.
LEMMA FeesAre ==
    ASSUME NEW table, NEW P, NEW a, NEW m, RowsRead(table, P, a, m),
           NEW out, out = Loop(FeeEntry, RowsOf(table, a, m))
    PROVE  /\ Totals(out, table, P, a, m)
           /\ \A i \in 1..m : out[i] \in FeeEntries /\ out[i].average = AverageOf(table, P, a[i])
<1>1. /\ P \in SUBSET Int /\ IsFiniteSet(P) /\ IntOn(table, P) /\ m \in Nat
      /\ RowsOf(table, a, m) \in [1..m -> Rows]
      /\ \A i \in 1..m : RowsOf(table, a, m)[i].timestamp = a[i] * DayLength /\ a[i] \in P
  BY RowsFacts
<1> DEFINE data == RowsOf(table, a, m)
<1> HIDE DEF data
<1>2. /\ out \in Seq(FeeEntries) /\ Len(out) = m /\ DOMAIN out = 1..m
      /\ \A i \in 1..m : /\ out[i] \in FeeEntries
                         /\ out[i] = FeeEntry(Prefix(out, i - 1), data[i])
  <2>1. data \in [1..m -> Rows] /\ out = Loop(FeeEntry, data) /\ m \in Nat
    BY <1>1 DEF data
  <2> QED
    BY <2>1, FeeUnfolds
<1>3. \A i \in 1..m : /\ out[i].timestamp = data[i].timestamp
                      /\ out[i].amount = data[i].amount
                      /\ out[i].cumulative = Before(Prefix(out, i - 1), "cumulative") + data[i].amount
                      /\ out[i].average = {out[i].cumulative - c :
                            c \in Kept(Prefix(out, i - 1), data[i].timestamp - AverageDays * DayLength)}
  <2>1. \A x, r : /\ FeeEntry(x, r).timestamp = r.timestamp /\ FeeEntry(x, r).amount = r.amount
                  /\ FeeEntry(x, r).cumulative = Before(x, "cumulative") + r.amount
                  /\ FeeEntry(x, r).average = {FeeEntry(x, r).cumulative - c :
                        c \in Kept(x, r.timestamp - AverageDays * DayLength)}
    <3> TAKE x, r
    <3> DEFINE e == FeeEntry(x, r)
    <3>1. e = Entry(x, r, Kept(x, r.timestamp - AverageDays * DayLength))
      BY DEF FeeEntry
    <3>2. \A kept : /\ Entry(x, r, kept).timestamp = r.timestamp /\ Entry(x, r, kept).amount = r.amount
                    /\ Entry(x, r, kept).cumulative = Before(x, "cumulative") + r.amount
                    /\ Entry(x, r, kept).average = {Entry(x, r, kept).cumulative - c : c \in kept}
      BY DEF Entry
    <3> QED
      BY <3>1, <3>2
  <2> TAKE i \in 1..m
  <2> DEFINE x == Prefix(out, i - 1)
             r == data[i]
  <2>2. out[i] = FeeEntry(x, r)
    BY <1>2
  <2> HIDE DEF x, r
  <2>3. /\ out[i].timestamp = r.timestamp /\ out[i].amount = r.amount
        /\ out[i].cumulative = Before(x, "cumulative") + r.amount
        /\ out[i].average = {out[i].cumulative - c : c \in Kept(x, r.timestamp - AverageDays * DayLength)}
    BY <2>1, <2>2
  <2> QED
    BY <2>3 DEF x, r
<1>4. Totals(out, table, P, a, m)
  <2>1. \A i \in 1..m :
              /\ out[i].timestamp = RowsOf(table, a, m)[i].timestamp
              /\ out[i].amount = RowsOf(table, a, m)[i].amount
              /\ out[i].cumulative = Before(Prefix(out, i - 1), "cumulative")
                                        + RowsOf(table, a, m)[i].amount
    BY <1>3 DEF data
  <2> QED
    BY <1>2, <2>1, TotalsAre
<1>5. ASSUME NEW i \in 1..m PROVE out[i].average = AverageOf(table, P, a[i])
  <2> DEFINE K == Kept(Prefix(out, i - 1), data[i].timestamp - AverageDays * DayLength)
             D == P \cap {a[i] - AverageDays}
             U == AtMost(P, a[i])
  <2>1. AverageDays \in Nat \ {0} /\ DayLength \in Nat \ {0}
    BY ReportsAssumption, CalendarAssumption
  <2>2. \A j \in 1..m : a[j] \in Int
    BY <1>1
  <2>3. DOMAIN Prefix(out, i - 1) = 1..(i - 1) /\ \A j \in 1..(i - 1) : Prefix(out, i - 1)[j] = out[j]
    BY DEF Prefix
  <2>4. \A j \in 1..(i - 1) : j \in 1..m /\ j < i
    BY <1>1
  <2>5. ASSUME NEW j \in 1..m
        PROVE  (a[j] * DayLength = a[i] * DayLength - AverageDays * DayLength)
                  <=> a[j] = a[i] - AverageDays
    <3> DEFINE x == a[j]
               y == a[i]
    <3>1. x \in Int /\ y \in Int
      BY <2>2
    <3> HIDE DEF x, y
    <3>2. y * DayLength - AverageDays * DayLength = (y - AverageDays) * DayLength
      BY <3>1, <2>1
    <3>3. x * DayLength = (y - AverageDays) * DayLength <=> x = y - AverageDays
      <4> DEFINE z == y - AverageDays
      <4>1. z \in Int
        BY <3>1, <2>1
      <4> HIDE DEF z
      <4>2. (x * DayLength) \div DayLength = x /\ (z * DayLength) \div DayLength = z
        BY <3>1, <4>1, <2>1, DivOfMultiple
      <4>3. x * DayLength = z * DayLength <=> x = z
        BY <4>2
      <4> QED
        BY <4>3 DEF z
    <3> QED
      BY <3>2, <3>3 DEF x, y
  <2>6. data[i].timestamp = a[i] * DayLength
    BY <1>1 DEF data
  <2>7. K = {out[j].cumulative : j \in {k \in 1..(i - 1) : a[k] = a[i] - AverageDays}}
    <3>1. \A k \in 1..(i - 1) :
             Prefix(out, i - 1)[k].timestamp = data[i].timestamp - AverageDays * DayLength
                <=> a[k] = a[i] - AverageDays
      <4> TAKE k \in 1..(i - 1)
      <4>1. k \in 1..m
        BY <2>4
      <4>2. Prefix(out, i - 1)[k].timestamp = a[k] * DayLength
        BY <2>3, <4>1, <1>4 DEF Totals
      <4> QED
        BY <2>5, <2>6, <4>1, <4>2
    <3> QED
      BY <2>3, <3>1 DEF Kept
  <2>8. ASSUME NEW e \in D
        PROVE  \E j \in 1..(i - 1) : a[j] = e
    <3>1. e = a[i] - AverageDays /\ e \in P /\ e \in Int
      BY <1>1
    <3>2. PICK j \in 1..m : a[j] = e
      BY <3>1 DEF RowsRead, Rising
    <3>3. ~ (i < j) /\ i # j
      <4>1. i < j => a[i] < a[j]
        BY DEF RowsRead, Rising
      <4>2. a[i] \in Int
        BY <2>2
      <4> QED
        BY <2>1, <3>1, <3>2, <4>1, <4>2
    <3>4. j \in 1..(i - 1)
      BY <1>1, <3>3
    <3> QED
      BY <3>2, <3>4
  <2>9. ASSUME NEW e \in D, NEW j \in 1..(i - 1), a[j] = e
        PROVE  out[i].cumulative - out[j].cumulative = Sum(table, {f \in U : f > e})
    <3>1. /\ out[i].cumulative = Sum(table, U)
          /\ out[j].cumulative = Sum(table, AtMost(P, a[j]))
      BY <1>4, <2>4 DEF Totals
    <3>2. U \in SUBSET P /\ IsFiniteSet(U) /\ IntOn(table, U)
      <4>1. U \in SUBSET P
        BY DEF AtMost
      <4> QED
        BY <4>1, <1>1, FS_Subset DEF IntOn
    <3>3. AtMost(P, a[j]) \in SUBSET U /\ U \ AtMost(P, a[j]) = {f \in U : f > e}
      <4>1. a[j] \in Int /\ a[i] \in Int /\ a[j] < a[i] /\ \A f \in P : f \in Int
        BY <1>1, <2>1, <2>2, <2>9
      <4>2. \A f \in P : (f <= a[j] => f <= a[i]) /\ (~ (f <= a[j]) <=> f > e)
        BY <4>1, <2>9
      <4> QED
        BY <4>2 DEF AtMost
    <3> DEFINE V == {f \in U : f > e}
    <3>4. Sum(table, U) = Sum(table, AtMost(P, a[j])) + Sum(table, V)
      <4> HIDE DEF U, V
      <4>1. Sum(table, U) = Sum(table, AtMost(P, a[j])) + Sum(table, U \ AtMost(P, a[j]))
        BY <3>2, <3>3, SumSplit
      <4>2. U \ AtMost(P, a[j]) = V
        BY <3>3 DEF V
      <4> QED
        BY <4>1, <4>2
    <3>5. Sum(table, V) \in Int /\ Sum(table, AtMost(P, a[j])) \in Int
      <4>1. \A S \in SUBSET U : IsFiniteSet(S) /\ IntOn(table, S)
        <5> HIDE DEF U
        <5> QED
          BY <3>2, FS_Subset DEF IntOn
      <4>2. V \in SUBSET U
        OBVIOUS
      <4> QED
        BY <3>3, <4>1, <4>2, SumInt
    <3> HIDE DEF U, V
    <3>6. out[i].cumulative - out[j].cumulative = Sum(table, V)
      BY <3>1, <3>4, <3>5
    <3> QED
      BY <3>6 DEF V
  <2>10. out[i].average = {out[i].cumulative - c : c \in K}
    BY <1>3
  <2>11. AverageOf(table, P, a[i]) = {Sum(table, {f \in U : f > e}) : e \in D}
    BY DEF AverageOf
  <2> HIDE DEF K, D, U
  <2>12. \A k \in 1..(i - 1) : a[k] = a[i] - AverageDays => a[k] \in D
    BY <2>4, <1>1 DEF D
  <2>13. \A e \in D : e = a[i] - AverageDays
    BY DEF D
  <2>14. ASSUME NEW x \in out[i].average PROVE x \in AverageOf(table, P, a[i])
    <3>1. PICK c \in K : x = out[i].cumulative - c
      BY <2>10
    <3>2. PICK k \in 1..(i - 1) : a[k] = a[i] - AverageDays /\ c = out[k].cumulative
      BY <2>7
    <3>3. a[k] \in D /\ x = Sum(table, {f \in U : f > a[k]})
      BY <2>9, <2>12, <3>1, <3>2
    <3> QED
      BY <2>11, <3>3
  <2>15. ASSUME NEW x \in AverageOf(table, P, a[i]) PROVE x \in out[i].average
    <3>1. PICK e \in D : x = Sum(table, {f \in U : f > e})
      BY <2>11
    <3>2. PICK j \in 1..(i - 1) : a[j] = e
      BY <2>8
    <3>3. out[j].cumulative \in K
      BY <2>7, <2>13, <3>2
    <3>4. x = out[i].cumulative - out[j].cumulative
      BY <2>9, <3>1, <3>2
    <3> QED
      BY <2>10, <3>3, <3>4
  <2> QED
    BY <2>14, <2>15
<1> QED
  BY <1>2, <1>4, <1>5

\* The volumes: none is kept.
LEMMA VolumesAre ==
    ASSUME NEW table, NEW P, NEW a, NEW m, RowsRead(table, P, a, m),
           NEW out, out = Loop(VolumeEntry, RowsOf(table, a, m))
    PROVE  /\ Totals(out, table, P, a, m)
           /\ \A i \in 1..m : out[i] \in FeeEntries /\ out[i].average = {}
<1>1. m \in Nat /\ RowsOf(table, a, m) \in [1..m -> Rows]
  BY RowsFacts
<1> DEFINE data == RowsOf(table, a, m)
<1> HIDE DEF data
<1>2. /\ out \in Seq(FeeEntries) /\ Len(out) = m /\ DOMAIN out = 1..m
      /\ \A i \in 1..m : /\ out[i] \in FeeEntries
                         /\ out[i] = VolumeEntry(Prefix(out, i - 1), data[i])
  <2>1. data \in [1..m -> Rows] /\ out = Loop(VolumeEntry, data) /\ m \in Nat
    BY <1>1 DEF data
  <2> QED
    BY <2>1, VolumeUnfolds
<1>3. \A i \in 1..m : /\ out[i].timestamp = data[i].timestamp
                      /\ out[i].amount = data[i].amount
                      /\ out[i].cumulative = Before(Prefix(out, i - 1), "cumulative") + data[i].amount
                      /\ out[i].average = {}
  <2>1. \A x, r : /\ VolumeEntry(x, r).timestamp = r.timestamp /\ VolumeEntry(x, r).amount = r.amount
                  /\ VolumeEntry(x, r).cumulative = Before(x, "cumulative") + r.amount
                  /\ VolumeEntry(x, r).average = {}
    BY DEF VolumeEntry, Entry
  <2> TAKE i \in 1..m
  <2> DEFINE x == Prefix(out, i - 1)
             r == data[i]
  <2>2. out[i] = VolumeEntry(x, r)
    BY <1>2
  <2> HIDE DEF x, r
  <2>3. /\ out[i].timestamp = r.timestamp /\ out[i].amount = r.amount
        /\ out[i].cumulative = Before(x, "cumulative") + r.amount
        /\ out[i].average = {}
    BY <2>1, <2>2
  <2> QED
    BY <2>3 DEF x, r
<1>4. Totals(out, table, P, a, m)
  BY <1>2, <1>3, TotalsAre DEF data
<1> QED
  BY <1>2, <1>3, <1>4

\* The tokens burned.
LEMMA BurnedAre ==
    ASSUME NEW table, NEW P, NEW a, NEW m, RowsRead(table, P, a, m),
           NEW out, out = Loop(BurnedEntry, RowsOf(table, a, m))
    PROVE  Totals(out, table, P, a, m) /\ \A i \in 1..m : out[i] \in BurnedEntries
<1>1. m \in Nat /\ RowsOf(table, a, m) \in [1..m -> Rows]
  BY RowsFacts
<1> DEFINE data == RowsOf(table, a, m)
<1> HIDE DEF data
<1>2. /\ out \in Seq(BurnedEntries) /\ Len(out) = m /\ DOMAIN out = 1..m
      /\ \A i \in 1..m : /\ out[i] \in BurnedEntries
                         /\ out[i] = BurnedEntry(Prefix(out, i - 1), data[i])
  <2>1. data \in [1..m -> Rows] /\ out = Loop(BurnedEntry, data) /\ m \in Nat
    BY <1>1 DEF data
  <2> QED
    BY <2>1, BurnedUnfolds
<1>3. \A i \in 1..m : /\ out[i].timestamp = data[i].timestamp
                      /\ out[i].amount = data[i].amount
                      /\ out[i].cumulative = Before(Prefix(out, i - 1), "cumulative") + data[i].amount
  <2>1. \A x, r : /\ BurnedEntry(x, r).timestamp = r.timestamp /\ BurnedEntry(x, r).amount = r.amount
                  /\ BurnedEntry(x, r).cumulative = Before(x, "cumulative") + r.amount
    BY DEF BurnedEntry
  <2> TAKE i \in 1..m
  <2> DEFINE x == Prefix(out, i - 1)
             r == data[i]
  <2>2. out[i] = BurnedEntry(x, r)
    BY <1>2
  <2> HIDE DEF x, r
  <2>3. /\ out[i].timestamp = r.timestamp /\ out[i].amount = r.amount
        /\ out[i].cumulative = Before(x, "cumulative") + r.amount
    BY <2>1, <2>2
  <2> QED
    BY <2>3 DEF x, r
<1>4. Totals(out, table, P, a, m)
  BY <1>2, <1>3, TotalsAre DEF data
<1> QED
  BY <1>2, <1>4

\* The profit and loss of the traders.
PnlsOf(table) == [d \in DOMAIN table |-> Profit(table[d]) - Loss(table[d])]

Traded(out, table, P, a, m) ==
    /\ DOMAIN out = 1..m
    /\ \A i \in 1..m : /\ out[i].timestamp = a[i] * DayLength
                       /\ out[i].pnl = PnlsOf(table)[a[i]]
                       /\ out[i].currentPnlCumulative = Sum(PnlsOf(table), AtMost(P, a[i]))
                       /\ out[i].pnlCumulative = Sum(PnlsOf(table), UpTo(table, a[i]))
                       /\ out[i] \in TraderEntries

\* The sum of profits and losses is a difference of sums.
LEMMA PnlFacts ==
    ASSUME NEW table, TableOK(table), NEW S \in SUBSET DOMAIN table
    PROVE  /\ IsFiniteSet(S) /\ IntOn(PnlsOf(table), S) /\ Sum(PnlsOf(table), S) \in Int
           /\ Sum(PnlsOf(table), S) = Sum(Profits(table), S) - Sum(Losses(table), S)
<1>1. IsFiniteSet(S)
  BY FS_Subset DEF TableOK
<1>2. \A d \in S : /\ Profits(table)[d] \in Int /\ Losses(table)[d] \in Int
                   /\ PnlsOf(table)[d] = Profits(table)[d] - Losses(table)[d]
  BY DEF TableOK, Profits, Losses, PnlsOf, Profit, Loss
<1>3. IntOn(PnlsOf(table), S) /\ IntOn(Profits(table), S) /\ IntOn(Losses(table), S)
  BY <1>2 DEF IntOn
<1> QED
  BY <1>1, <1>2, <1>3, SumInt, SumMinus

\* calcTradersData computes these.
LEMMA TradersAre ==
    ASSUME NEW table, NEW P, NEW a, NEW m, RowsRead(table, P, a, m),
           NEW out, out = Loop(TraderEntry, RowsOf(table, a, m))
    PROVE  out \in Seq(TraderEntries) /\ Len(out) = m /\ Traded(out, table, P, a, m)
<1>1. /\ P \in SUBSET Int /\ IsFiniteSet(P) /\ m \in Nat
      /\ RowsOf(table, a, m) \in [1..m -> Rows]
      /\ \A i \in 1..m : /\ RowsOf(table, a, m)[i] = RowOf(table, a[i]) /\ a[i] \in P
                         /\ a[i] \in DOMAIN table
                         /\ RowsOf(table, a, m)[i].timestamp = a[i] * DayLength
                         /\ RowsOf(table, a, m)[i].amount = table[a[i]]
  BY RowsFacts
<1> DEFINE data == RowsOf(table, a, m)
           pnl == PnlsOf(table)
<1> HIDE DEF data
<1>2. /\ out \in Seq(TraderEntries) /\ Len(out) = m /\ DOMAIN out = 1..m
      /\ \A i \in 1..m : /\ out[i] \in TraderEntries
                         /\ out[i] = TraderEntry(Prefix(out, i - 1), data[i])
  <2>1. data \in [1..m -> Rows] /\ out = Loop(TraderEntry, data) /\ m \in Nat
    BY <1>1 DEF data
  <2> QED
    BY <2>1, TraderUnfolds
<1>t. TableOK(table) /\ P \in SUBSET DOMAIN table /\ Rising(a, P, m)
  BY DEF RowsRead
<1>3. ASSUME NEW i \in 1..m
      PROVE  /\ out[i].timestamp = a[i] * DayLength
             /\ out[i].pnl = pnl[a[i]]
             /\ out[i].currentPnlCumulative
                   = Before(Prefix(out, i - 1), "currentPnlCumulative") + pnl[a[i]]
             /\ out[i].pnlCumulative = RowOf(table, a[i]).profitCumulative
                                          - RowOf(table, a[i]).lossCumulative
  <2>1. \A x, r : /\ TraderEntry(x, r).timestamp = r.timestamp
                  /\ TraderEntry(x, r).pnl = Profit(r.amount) - Loss(r.amount)
                  /\ TraderEntry(x, r).currentPnlCumulative
                        = Before(x, "currentPnlCumulative") + (Profit(r.amount) - Loss(r.amount))
                  /\ TraderEntry(x, r).pnlCumulative = r.profitCumulative - r.lossCumulative
    BY DEF TraderEntry
  <2> DEFINE x == Prefix(out, i - 1)
             r == data[i]
  <2>2. out[i] = TraderEntry(x, r)
    BY <1>2
  <2>3. r = RowOf(table, a[i]) /\ r.timestamp = a[i] * DayLength /\ r.amount = table[a[i]]
    BY <1>1 DEF data
  <2>4. pnl[a[i]] = Profit(table[a[i]]) - Loss(table[a[i]])
    BY <1>1 DEF PnlsOf
  <2> HIDE DEF x, r, pnl
  <2>5. /\ out[i].timestamp = r.timestamp
        /\ out[i].pnl = Profit(r.amount) - Loss(r.amount)
        /\ out[i].currentPnlCumulative
              = Before(x, "currentPnlCumulative") + (Profit(r.amount) - Loss(r.amount))
        /\ out[i].pnlCumulative = r.profitCumulative - r.lossCumulative
    BY <2>1, <2>2
  <2>6. /\ out[i].timestamp = a[i] * DayLength /\ out[i].pnl = pnl[a[i]]
        /\ out[i].currentPnlCumulative = Before(x, "currentPnlCumulative") + pnl[a[i]]
    BY <2>3, <2>4, <2>5
  <2> QED
    BY <2>3, <2>5, <2>6 DEF x, pnl
<1>4. ASSUME NEW i \in 1..m PROVE out[i].pnlCumulative = Sum(pnl, UpTo(table, a[i]))
  <2> DEFINE S == UpTo(table, a[i])
  <2>1. S \in SUBSET DOMAIN table
    BY DEF UpTo
  <2>2. /\ RowOf(table, a[i]).profitCumulative = Sum(Profits(table), S)
        /\ RowOf(table, a[i]).lossCumulative = Sum(Losses(table), S)
    BY SumIs DEF RowOf
  <2> HIDE DEF S, pnl
  <2>3. Sum(pnl, S) = Sum(Profits(table), S) - Sum(Losses(table), S)
    BY <1>t, <2>1, PnlFacts DEF pnl
  <2> QED
    BY <1>3, <2>2, <2>3 DEF S
<1>5. \A i \in 1..m : out[i].currentPnlCumulative = Sum(pnl, AtMost(P, a[i]))
  <2> DEFINE w == [i \in 1..m |-> out[i].currentPnlCumulative]
  <2>1. ASSUME NEW i \in 1..m PROVE w[i] = (IF i = 1 THEN 0 ELSE w[i - 1]) + pnl[a[i]]
    <3>1. Before(Prefix(out, i - 1), "currentPnlCumulative")
             = IF i = 1 THEN 0 ELSE out[i - 1]["currentPnlCumulative"]
      <4>1. i \in 1..Len(out)
        BY <1>2
      <4> QED
        BY <4>1, <1>2, BeforePrefix
    <3>2. w[i] = out[i].currentPnlCumulative /\ (i # 1 => w[i - 1] = out[i - 1].currentPnlCumulative)
      BY <1>1
    <3>3. w[i] = Before(Prefix(out, i - 1), "currentPnlCumulative") + pnl[a[i]]
      BY <1>3, <3>2
    <3> HIDE DEF w, pnl
    <3> QED
      BY <3>1, <3>2, <3>3
  <2>2. Accumulates(w, pnl, a, m)
    BY <2>1 DEF Accumulates
  <2>3. IntOn(pnl, P)
    BY <1>t, PnlFacts
  <2>4. \A i \in 1..m : w[i] = out[i].currentPnlCumulative
    OBVIOUS
  <2> HIDE DEF w, pnl
  <2>5. \A i \in 1..m : w[i] = Sum(pnl, AtMost(P, a[i])) /\ w[i] \in Int
    BY <1>1, <1>t, <2>2, <2>3, RunningTotal
  <2> QED
    BY <2>4, <2>5
<1> HIDE DEF pnl
<1>6. Traded(out, table, P, a, m)
  BY <1>2, <1>3, <1>4, <1>5 DEF Traded, pnl
<1> QED
  BY <1>2, <1>6

-----------------------------------------------------------------------------
(* The pool *)

\* The last supply up to d that is not 0, and the change from the one before.
SupplyAt(table, P, d) == Latest(table, NonZero(table, AtMost(P, d)))
Changes(table, P) == [d \in P |-> Change(SupplyAt(table, P, d), SupplyAt(table, P, d - 1))]

\* What calcPoolStats computes for a day, after fillNa.
Pooled(out, table, P, a, m) ==
    /\ DOMAIN out = 1..m
    /\ \A i \in 1..m :
          /\ out[i].timestamp = a[i] * DayLength
          /\ out[i].supply = SupplyAt(table, P, a[i])
          /\ out[i].change = Latest(Changes(table, P), NonZero(Changes(table, P), AtMost(P, a[i])))
          /\ out[i] \in PoolEntries

\* The first loop computes the changes, fillNa the last of each field.
LEMMA PoolAre ==
    ASSUME NEW table, NEW P, NEW a, NEW m, RowsRead(table, P, a, m),
           NEW raw, raw = Loop(PoolEntry, RowsOf(table, a, m)), NEW out, out = FillNa(raw)
    PROVE  out \in Seq(PoolEntries) /\ Len(out) = m /\ Pooled(out, table, P, a, m)
<1>1. /\ P \in SUBSET Int /\ IsFiniteSet(P) /\ m \in Nat
      /\ RowsOf(table, a, m) \in [1..m -> Rows]
      /\ \A i \in 1..m : /\ RowsOf(table, a, m)[i].timestamp = a[i] * DayLength
                         /\ RowsOf(table, a, m)[i].amount = table[a[i]]
                         /\ a[i] \in P /\ a[i] \in Nat
  BY RowsFacts
<1>t. TableOK(table) /\ P \in SUBSET DOMAIN table /\ Rising(a, P, m)
  BY DEF RowsRead
<1> DEFINE data == RowsOf(table, a, m)
<1> HIDE DEF data
<1>2. /\ raw \in Seq(PoolEntries) /\ Len(raw) = m /\ DOMAIN raw = 1..m
      /\ \A i \in 1..m : /\ raw[i] \in PoolEntries
                         /\ raw[i] = PoolEntry(Prefix(raw, i - 1), data[i])
  <2>1. data \in [1..m -> Rows] /\ raw = Loop(PoolEntry, data) /\ m \in Nat
    BY <1>1 DEF data
  <2> QED
    BY <2>1, PoolUnfolds
<1>3. /\ out \in Seq(PoolEntries) /\ Len(out) = m /\ DOMAIN out = 1..m
      /\ \A i \in 1..m : /\ out[i] \in PoolEntries
                         /\ out[i] = Fill(Prefix(out, i - 1), raw[i])
  <2>1. raw \in [1..m -> PoolEntries] /\ out = Loop(Fill, raw) /\ m \in Nat
    BY <1>1, <1>2 DEF FillNa
  <2> QED
    BY <2>1, FillUnfolds
\* what the first loop pushes
<1> DEFINE last(i) == IF i = 1 THEN 0 ELSE raw[i - 1].prevGlpSupply
<1>4. ASSUME NEW i \in 1..m
      PROVE  /\ raw[i].timestamp = a[i] * DayLength /\ raw[i].supply = table[a[i]]
             /\ raw[i].prevGlpSupply = (IF table[a[i]] = 0 THEN last(i) ELSE table[a[i]])
             /\ raw[i].change = Change(raw[i].prevGlpSupply, last(i))
  <2>1. \A x, r : /\ PoolEntry(x, r).timestamp = r.timestamp
                  /\ PoolEntry(x, r).supply = r.amount
                  /\ PoolEntry(x, r).prevGlpSupply
                        = (IF r.amount = 0 THEN Before(x, "prevGlpSupply") ELSE r.amount)
                  /\ PoolEntry(x, r).change
                        = Change(PoolEntry(x, r).prevGlpSupply, Before(x, "prevGlpSupply"))
    BY DEF PoolEntry
  <2> DEFINE x == Prefix(raw, i - 1)
             r == data[i]
  <2>2. raw[i] = PoolEntry(x, r)
    BY <1>2
  <2>3. r.timestamp = a[i] * DayLength /\ r.amount = table[a[i]]
    BY <1>1 DEF data
  <2>4. Before(x, "prevGlpSupply") = last(i)
    <3>1. i \in 1..Len(raw)
      BY <1>2
    <3> QED
      BY <3>1, <1>2, BeforePrefix
  <2> HIDE DEF x, r, last
  <2>5. /\ raw[i].timestamp = r.timestamp /\ raw[i].supply = r.amount
        /\ raw[i].prevGlpSupply = (IF r.amount = 0 THEN Before(x, "prevGlpSupply") ELSE r.amount)
        /\ raw[i].change = Change(raw[i].prevGlpSupply, Before(x, "prevGlpSupply"))
    BY <2>1, <2>2
  <2> QED
    BY <2>3, <2>4, <2>5
<1>5. \A i \in 1..m : raw[i].prevGlpSupply = SupplyAt(table, P, a[i])
  <2> DEFINE w == [i \in 1..m |-> raw[i].prevGlpSupply]
  <2>1. ASSUME NEW i \in 1..m
        PROVE  w[i] = IF table[a[i]] = 0 THEN (IF i = 1 THEN 0 ELSE w[i - 1]) ELSE table[a[i]]
    <3>1. w[i] = raw[i].prevGlpSupply /\ (i # 1 => w[i - 1] = raw[i - 1].prevGlpSupply)
      BY <1>1
    <3>2. last(i) = IF i = 1 THEN 0 ELSE w[i - 1]
      <4> HIDE DEF w
      <4> QED
        BY <3>1
    <3> HIDE DEF w, last
    <3> QED
      BY <1>4, <3>1, <3>2
  <2>2. Repeats(w, table, a, m)
    BY <2>1 DEF Repeats
  <2>3. \A i \in 1..m : w[i] = raw[i].prevGlpSupply
    OBVIOUS
  <2> HIDE DEF w
  <2>4. \A i \in 1..m : w[i] = Latest(table, NonZero(table, AtMost(P, a[i])))
    BY <1>1, <1>t, <2>2, RunningLatest
  <2> QED
    BY <2>3, <2>4 DEF SupplyAt
<1>6. ASSUME NEW i \in 1..m PROVE raw[i].change = Changes(table, P)[a[i]]
  <2>1. last(i) = SupplyAt(table, P, a[i] - 1)
    <3>1. AtMost(P, a[i] - 1) = AtMost(P, a[i]) \ {a[i]}
      <4>1. \A e \in P : e <= a[i] - 1 <=> (e <= a[i] /\ e # a[i])
        BY <1>1
      <4> QED
        BY <4>1 DEF AtMost
    <3>2. CASE i = 1
      <4>1. AtMost(P, a[i] - 1) = {}
        BY <1>1, <1>t, <3>1, <3>2, RisingStep
      <4>2. NonZero(table, AtMost(P, a[i] - 1)) = {}
        BY <4>1 DEF NonZero
      <4> QED
        BY <3>2, <4>2 DEF SupplyAt, Latest
    <3>3. CASE i # 1
      <4>a. P \in SUBSET Int /\ Rising(a, P, m)
        BY <1>1, <1>t
      <4>b. i # 1 => i - 1 \in 1..m /\ AtMost(P, a[i]) \ {a[i]} = AtMost(P, a[i - 1])
        BY <4>a, RisingStep
      <4>0. i - 1 \in 1..m /\ AtMost(P, a[i]) \ {a[i]} = AtMost(P, a[i - 1])
        BY <3>3, <4>b
      <4>1. i - 1 \in 1..m /\ AtMost(P, a[i] - 1) = AtMost(P, a[i - 1])
        BY <3>1, <4>0
      <4>2. raw[i - 1].prevGlpSupply = SupplyAt(table, P, a[i - 1])
        BY <1>5, <4>1
      <4> QED
        BY <3>3, <4>1, <4>2 DEF SupplyAt
    <3> QED
      BY <3>2, <3>3
  <2> HIDE DEF last
  <2>2. raw[i].change = Change(SupplyAt(table, P, a[i]), SupplyAt(table, P, a[i] - 1))
    BY <1>4, <1>5, <2>1
  <2> QED
    BY <1>1, <2>2 DEF Changes
\* what the second fills
<1>7. ASSUME NEW i \in 1..m
      PROVE  /\ out[i].timestamp = (IF raw[i].timestamp = 0
                                    THEN (IF i = 1 THEN 0 ELSE out[i - 1].timestamp)
                                    ELSE raw[i].timestamp)
             /\ out[i].supply = (IF raw[i].supply = 0
                                 THEN (IF i = 1 THEN 0 ELSE out[i - 1].supply)
                                 ELSE raw[i].supply)
             /\ out[i].change = (IF raw[i].change = 0
                                 THEN (IF i = 1 THEN 0 ELSE out[i - 1].change)
                                 ELSE raw[i].change)
  <2> DEFINE x == Prefix(out, i - 1)
             r == raw[i]
             Of(k) == IF r[k] = 0 THEN Before(x, k) ELSE r[k]
  <2>1. out[i] = Fill(x, r) /\ r \in PoolEntries
    BY <1>2, <1>3
  <2>2. \A k : Before(x, k) = IF i = 1 THEN 0 ELSE out[i - 1][k]
    <3>1. i \in 1..Len(out)
      BY <1>3
    <3> QED
      BY <3>1, <1>3, BeforePrefix
  <2> HIDE DEF x, r
  <2>3. out[i] = [timestamp |-> Of("timestamp"), supply |-> Of("supply"),
                  prevGlpSupply |-> Of("prevGlpSupply"),
                  cumulative |-> Of("cumulative"), change |-> Of("change")]
    BY <2>1, FillIs
  <2>4. /\ out[i].timestamp = (IF r.timestamp = 0 THEN Before(x, "timestamp") ELSE r.timestamp)
        /\ out[i].supply = (IF r.supply = 0 THEN Before(x, "supply") ELSE r.supply)
        /\ out[i].change = (IF r.change = 0 THEN Before(x, "change") ELSE r.change)
    BY <2>3
  <2> QED
    BY <2>2, <2>4 DEF r
<1>8. \A i \in 1..m : out[i].supply = SupplyAt(table, P, a[i])
  <2> DEFINE w == [i \in 1..m |-> out[i].supply]
  <2>1. ASSUME NEW i \in 1..m
        PROVE  w[i] = IF table[a[i]] = 0 THEN (IF i = 1 THEN 0 ELSE w[i - 1]) ELSE table[a[i]]
    <3>1. w[i] = out[i].supply /\ (i # 1 => w[i - 1] = out[i - 1].supply)
      BY <1>1
    <3> HIDE DEF w
    <3> QED
      BY <1>4, <1>7, <3>1
  <2>2. Repeats(w, table, a, m)
    BY <2>1 DEF Repeats
  <2>3. \A i \in 1..m : w[i] = out[i].supply
    OBVIOUS
  <2> HIDE DEF w
  <2>4. \A i \in 1..m : w[i] = Latest(table, NonZero(table, AtMost(P, a[i])))
    BY <1>1, <1>t, <2>2, RunningLatest
  <2> QED
    BY <2>3, <2>4 DEF SupplyAt
<1>9. \A i \in 1..m : out[i].change = Latest(Changes(table, P), NonZero(Changes(table, P), AtMost(P, a[i])))
  <2> DEFINE w == [i \in 1..m |-> out[i].change]
             f == Changes(table, P)
  <2>1. ASSUME NEW i \in 1..m
        PROVE  w[i] = IF f[a[i]] = 0 THEN (IF i = 1 THEN 0 ELSE w[i - 1]) ELSE f[a[i]]
    <3>1. w[i] = out[i].change /\ (i # 1 => w[i - 1] = out[i - 1].change)
      BY <1>1
    <3> HIDE DEF w, f
    <3> QED
      BY <1>6, <1>7, <3>1 DEF f
  <2>2. Repeats(w, f, a, m)
    BY <2>1 DEF Repeats
  <2>3. \A i \in 1..m : w[i] = out[i].change
    OBVIOUS
  <2> HIDE DEF w, f
  <2>4. \A i \in 1..m : w[i] = Latest(f, NonZero(f, AtMost(P, a[i])))
    BY <1>1, <1>t, <2>2, RunningLatest
  <2> QED
    BY <2>3, <2>4 DEF f
<1>10. ASSUME NEW i \in 1..m PROVE out[i].timestamp = a[i] * DayLength
  <2>1. CASE raw[i].timestamp # 0
    BY <1>4, <1>7, <2>1
  <2>2. CASE raw[i].timestamp = 0 /\ i = 1
    BY <1>4, <1>7, <2>2
  <2>3. CASE raw[i].timestamp = 0 /\ i # 1
    <3>1. 1 \in 1..m /\ 1 < i
      BY <1>1, <2>3
    <3>2. a[1] < a[i] /\ a[1] \in Nat /\ a[i] \in Nat
      BY <1>1, <1>t, <3>1 DEF Rising
    <3> DEFINE y == a[i]
    <3>3. y \in Nat /\ y # 0
      BY <3>2
    <3> HIDE DEF y
    <3>4. DayLength \in Nat \ {0}
      BY CalendarAssumption
    <3>5. y * DayLength # 0
      BY <3>3, <3>4
    <3> QED
      BY <1>4, <2>3, <3>5 DEF y
  <2> QED
    BY <2>1, <2>2, <2>3
<1>11. Pooled(out, table, P, a, m)
  BY <1>3, <1>8, <1>9, <1>10 DEF Pooled
<1> QED
  BY <1>3, <1>11

-----------------------------------------------------------------------------
(* What the reports show of a day *)

\* The newest days of a range.
Newests(table, from, to, first) == Top(Days(table, from, to), first)

\* They are the days of the rows that the query answers.
LEMMA RangeRead ==
    ASSUME NEW table, TableOK(table), NEW from, NEW to, NEW first \in Nat
    PROVE  \E a, m : /\ Sorted(Query(table, from, to, first), table, Newests(table, from, to, first), a, m)
                     /\ RowsRead(table, Newests(table, from, to, first), a, m)
                     /\ \A i \in 1..m : a[i] * DayLength >= from
<1>1. Days(table, from, to) \in SUBSET DOMAIN table
  BY DEF Days
<1>2. \E a, m : Sorted(Newest(table, Days(table, from, to), first), table,
                       Top(Days(table, from, to), first), a, m)
  BY <1>1, NewestSorted
<1>3. PICK a, m : Sorted(Query(table, from, to, first), table, Newests(table, from, to, first), a, m)
  BY <1>2 DEF Query, Newests
<1>4. Newests(table, from, to, first) \in SUBSET Days(table, from, to)
  BY DEF Newests, Top
<1>5. RowsRead(table, Newests(table, from, to, first), a, m)
  BY <1>1, <1>3, <1>4 DEF RowsRead, Sorted
<1>6. \A i \in 1..m : from <= a[i] * DayLength
  <2>1. \A i \in 1..m : a[i] \in Newests(table, from, to, first)
    BY <1>5, RowsFacts
  <2> QED
    BY <1>4, <2>1 DEF Days
<1>7. \A i \in 1..m : a[i] * DayLength >= from
  BY <1>6
<1> QED
  BY <1>3, <1>5, <1>7

\* The filter of a report whose query asked for the rows from its start on keeps them all.
LEMMA KeepsAll ==
    ASSUME NEW E, NEW out \in Seq(E), NEW from, \A i \in 1..Len(out) : out[i].timestamp >= from
    PROVE  Chosen(out, {j \in DOMAIN out : out[j].timestamp >= from}) = out
<1> DEFINE J == {j \in DOMAIN out : out[j].timestamp >= from}
           n == Len(out)
<1>2. DOMAIN out = 1..n /\ n \in Nat
  BY ElementOf
<1>3. J = 1..n
  BY <1>2
<1>4. out \in [1..n -> E]
  BY <1>2
<1> HIDE DEF J, n
<1>5. Chosen(out, J) = out
  BY <1>2, <1>3, <1>4, ChosenAll
<1> QED
  BY <1>5 DEF J

\* So of the fees,
LEMMA FeesKept ==
    ASSUME NEW table, NEW P, NEW a, NEW m, RowsRead(table, P, a, m), NEW raw,
           SortBy(raw) = RowsOf(table, a, m), NEW from, \A j \in 1..m : a[j] * DayLength >= from
    PROVE  CalcFeesData(from, raw) = Loop(FeeEntry, RowsOf(table, a, m))
<1> DEFINE out == Loop(FeeEntry, RowsOf(table, a, m))
<1>1. Totals(out, table, P, a, m)
  BY FeesAre
<1>2. out \in Seq(FeeEntries) /\ Len(out) = m
  <2>1. m \in Nat /\ RowsOf(table, a, m) \in [1..m -> Rows]
    BY RowsFacts
  <2> QED
    BY <2>1, FeeUnfolds
<1>3. \A j \in 1..Len(out) : out[j].timestamp >= from
  BY <1>1, <1>2 DEF Totals
<1>4. Those(out, LAMBDA r : r.timestamp >= from) = out
  <2> HIDE DEF out
  <2>1. Those(out, LAMBDA r : r.timestamp >= from)
           = Chosen(out, {j \in DOMAIN out : out[j].timestamp >= from})
    BY DEF Those, Chosen
  <2> QED
    BY <1>2, <1>3, <2>1, KeepsAll
<1> QED
  BY <1>4 DEF CalcFeesData

\* and of the tokens burned.
LEMMA BurnedKept ==
    ASSUME NEW table, NEW P, NEW a, NEW m, RowsRead(table, P, a, m), NEW raw,
           SortBy(raw) = RowsOf(table, a, m), NEW from, \A j \in 1..m : a[j] * DayLength >= from
    PROVE  CalcBurned(from, raw) = Loop(BurnedEntry, RowsOf(table, a, m))
<1> DEFINE out == Loop(BurnedEntry, RowsOf(table, a, m))
<1>1. Totals(out, table, P, a, m)
  BY BurnedAre
<1>2. out \in Seq(BurnedEntries) /\ Len(out) = m
  <2>1. m \in Nat /\ RowsOf(table, a, m) \in [1..m -> Rows]
    BY RowsFacts
  <2> QED
    BY <2>1, BurnedUnfolds
<1>3. \A j \in 1..Len(out) : out[j].timestamp >= from
  BY <1>1, <1>2 DEF Totals
<1>4. Those(out, LAMBDA r : r.timestamp >= from) = out
  <2> HIDE DEF out
  <2>1. Those(out, LAMBDA r : r.timestamp >= from)
           = Chosen(out, {j \in DOMAIN out : out[j].timestamp >= from})
    BY DEF Those, Chosen
  <2> QED
    BY <1>2, <1>3, <2>1, KeepsAll
<1> QED
  BY <1>4 DEF CalcBurned

\* An entry added to zeros is as it was.
LEMMA PlusAverage ==
    ASSUME NEW e \in FeeEntries, NEW t
    PROVE  LET r == [Plus(Zeros(AverageFields), e) EXCEPT !.timestamp = t]
           IN  r.amount = e.amount /\ r.cumulative = e.cumulative /\ r.average = e.average
<1>1. e.amount \in Int /\ e.cumulative \in Int /\ e.average \in SUBSET Int
  BY DEF FeeEntries
<1>2. {x + y : x \in {0}, y \in e.average} = e.average
  <2> DEFINE S == e.average
  <2>1. S \in SUBSET Int
    BY <1>1
  <2> HIDE DEF S
  <2>2. \A y \in S : 0 + y = y
    BY <2>1
  <2>3. {x + y : x \in {0}, y \in S} = {0 + y : y \in S}
    OBVIOUS
  <2>4. {0 + y : y \in S} = S
    BY <2>2
  <2> QED
    BY <2>3, <2>4 DEF S
<1> DEFINE r == [Plus(Zeros(AverageFields), e) EXCEPT !.timestamp = t]
<1>3. /\ r.amount = 0 + e.amount /\ r.cumulative = 0 + e.cumulative
      /\ r.average = {x + y : x \in {0}, y \in e.average}
  BY DEF Plus, Zeros, AverageFields
<1> HIDE DEF r
<1>4. r.amount = e.amount /\ r.cumulative = e.cumulative /\ r.average = e.average
  BY <1>1, <1>2, <1>3
<1> QED
  BY <1>4 DEF r

LEMMA PlusBurned ==
    ASSUME NEW e \in BurnedEntries, NEW t
    PROVE  [Plus(Zeros(BurnedFields), e) EXCEPT !.timestamp = t].cumulative = e.cumulative
<1>1. e.cumulative \in Int
  BY DEF BurnedEntries
<1>2. [Plus(Zeros(BurnedFields), e) EXCEPT !.timestamp = t].cumulative = 0 + e.cumulative
  BY DEF Plus, Zeros, BurnedFields
<1> QED
  BY <1>1, <1>2

LEMMA PlusPool ==
    ASSUME NEW e \in PoolEntries, NEW t
    PROVE  LET r == [Plus(Zeros(PoolFields), e) EXCEPT !.timestamp = t]
           IN  r.supply = e.supply /\ r.change = e.change
<1>1. e.supply \in Int /\ e.change \in Int
  BY DEF PoolEntries
<1> DEFINE r == [Plus(Zeros(PoolFields), e) EXCEPT !.timestamp = t]
<1>2. r.supply = 0 + e.supply /\ r.change = 0 + e.change
  BY DEF Plus, Zeros, PoolFields
<1> HIDE DEF r
<1>3. r.supply = e.supply /\ r.change = e.change
  BY <1>1, <1>2
<1> QED
  BY <1>3 DEF r

LEMMA PlusTrader ==
    ASSUME NEW e \in TraderEntries, NEW t
    PROVE  LET r == [Plus(Zeros(TraderFields), e) EXCEPT !.timestamp = t]
           IN  /\ r.pnl = e.pnl /\ r.pnlCumulative = e.pnlCumulative
               /\ r.currentPnlCumulative = e.currentPnlCumulative
<1>1. e.pnl \in Int /\ e.pnlCumulative \in Int /\ e.currentPnlCumulative \in Int
  BY DEF TraderEntries
<1> DEFINE r == [Plus(Zeros(TraderFields), e) EXCEPT !.timestamp = t]
<1>2. /\ r.pnl = 0 + e.pnl /\ r.pnlCumulative = 0 + e.pnlCumulative
      /\ r.currentPnlCumulative = 0 + e.currentPnlCumulative
  BY DEF Plus, Zeros, TraderFields
<1> HIDE DEF r
<1>3. /\ r.pnl = e.pnl /\ r.pnlCumulative = e.pnlCumulative
      /\ r.currentPnlCumulative = e.currentPnlCumulative
  BY <1>1, <1>2
<1> QED
  BY <1>3 DEF r


\* Volumes
LEMMA VolumesShown ==
    ASSUME NEW table, TableOK(table), NEW from \in Nat, NEW to \in Nat, NEW i \in DOMAIN Dates(from, to)
    PROVE  LET d == DayOf(Dates(from, to)[i])
               P == Newests(table, from, to, RowLimit)
               e == VolumeStats(table, from, to)[i]
           IN  /\ d \in P => /\ e.amount = table[d] /\ e.cumulative = Sum(table, AtMost(P, d))
                              /\ e.average = {}
               /\ d \notin P => e.amount = 0
<1> DEFINE dates == Dates(from, to)
           d == DayOf(dates[i])
           P == Newests(table, from, to, RowLimit)
           e == VolumeStats(table, from, to)[i]
           raw == Query(table, from, to, RowLimit)
           zero == Zeros(AverageFields)
<1>1. RowLimit \in Nat
  BY ReportsAssumption
<1> HIDE DEF P, raw
<1>0. PICK a, m : /\ Sorted(raw, table, P, a, m) /\ RowsRead(table, P, a, m)
                  /\ \A j \in 1..m : a[j] * DayLength >= from
  BY <1>1, RangeRead DEF P, raw
<1>2. /\ RowsRead(table, P, a, m) /\ SortBy(raw) = RowsOf(table, a, m)
      /\ \A j \in 1..m : a[j] * DayLength >= from
  BY <1>0 DEF Sorted
<1> DEFINE out == Loop(VolumeEntry, SortBy(raw))
<1>3. Totals(out, table, P, a, m) /\ \A j \in 1..m : out[j] \in FeeEntries /\ out[j].average = {}
  BY <1>2, VolumesAre
<1>4. CalcVolumesData(raw) = out
  BY DEF CalcVolumesData
<1>5. Dated(out, a, m)
  BY <1>2, <1>3, TotalsDated DEF Totals
<1>6. e = MappingDateArray(out, dates, zero)[i]
  BY <1>4 DEF VolumeStats, raw
<1> HIDE DEF e, out, dates, zero
<1>7. Shows(e, out, a, m, dates[i], zero)
  <2>1. i \in DOMAIN dates
    BY DEF dates
  <2> QED
    BY <1>5, <1>6, <2>1, EntryShown
<1> HIDE DEF d
<1>d. d = DayOf(dates[i])
  BY DEF d
<1>8. ASSUME d \in P PROVE /\ e.amount = table[d] /\ e.cumulative = Sum(table, AtMost(P, d))
                         /\ e.average = {}
  <2>1. PICK j \in 1..m : a[j] = d
    BY <1>2, <1>8 DEF RowsRead, Rising
  <2>2. e = [Plus(zero, out[j]) EXCEPT !.timestamp = dates[i]]
    BY <1>7, <1>d, <2>1 DEF Shows
  <2>3. e.amount = out[j].amount /\ e.cumulative = out[j].cumulative /\ e.average = out[j].average
    BY <2>2, <1>3, PlusAverage DEF zero
  <2> QED
    BY <2>1, <2>3, <1>3 DEF Totals
<1>9. ASSUME d \notin P PROVE e.amount = 0
  <2>1. \A j \in 1..m : a[j] # DayOf(dates[i])
    BY <1>2, <1>9, <1>d DEF RowsRead, Rising
  <2>2. e = [zero EXCEPT !.timestamp = dates[i]]
    BY <1>7, <2>1 DEF Shows
  <2> QED
    BY <2>2 DEF zero, Zeros, AverageFields
<1> QED
  BY <1>8, <1>9 DEF d, P, e, dates, raw

\* Fees
LEMMA FeesShown ==
    ASSUME NEW table, TableOK(table), NEW from \in Nat, NEW to \in Nat, NEW i \in DOMAIN Dates(from, to)
    PROVE  LET d == DayOf(Dates(from, to)[i])
               P == Newests(table, from, to, RowLimit)
               e == FeeStats(table, from, to)[i]
           IN  d \in P => /\ e.cumulative = Sum(table, AtMost(P, d))
                           /\ e.average = AverageOf(table, P, d)
<1> DEFINE dates == Dates(from, to)
           d == DayOf(dates[i])
           P == Newests(table, from, to, RowLimit)
           e == FeeStats(table, from, to)[i]
           raw == Query(table, from, to, RowLimit)
           zero == Zeros(AverageFields)
<1>1. RowLimit \in Nat
  BY ReportsAssumption
<1> HIDE DEF P, raw
<1>0. PICK a, m : /\ Sorted(raw, table, P, a, m) /\ RowsRead(table, P, a, m)
                  /\ \A j \in 1..m : a[j] * DayLength >= from
  BY <1>1, RangeRead DEF P, raw
<1>2. /\ RowsRead(table, P, a, m) /\ SortBy(raw) = RowsOf(table, a, m)
      /\ \A j \in 1..m : a[j] * DayLength >= from
  BY <1>0 DEF Sorted
<1> DEFINE out == Loop(FeeEntry, SortBy(raw))
<1>3. Totals(out, table, P, a, m) /\ \A j \in 1..m : out[j] \in FeeEntries /\ out[j].average = AverageOf(table, P, a[j])
  BY <1>2, FeesAre
<1>4. CalcFeesData(from, raw) = out
  BY <1>2, FeesKept
<1>5. Dated(out, a, m)
  BY <1>2, <1>3, TotalsDated DEF Totals
<1>6. e = MappingDateArray(out, dates, zero)[i]
  BY <1>4 DEF FeeStats, raw
<1> HIDE DEF e, out, dates, zero
<1>7. Shows(e, out, a, m, dates[i], zero)
  <2>1. i \in DOMAIN dates
    BY DEF dates
  <2> QED
    BY <1>5, <1>6, <2>1, EntryShown
<1> HIDE DEF d
<1>d. d = DayOf(dates[i])
  BY DEF d
<1>8. ASSUME d \in P PROVE /\ e.cumulative = Sum(table, AtMost(P, d))
                         /\ e.average = AverageOf(table, P, d)
  <2>1. PICK j \in 1..m : a[j] = d
    BY <1>2, <1>8 DEF RowsRead, Rising
  <2>2. e = [Plus(zero, out[j]) EXCEPT !.timestamp = dates[i]]
    BY <1>7, <1>d, <2>1 DEF Shows
  <2>3. e.cumulative = out[j].cumulative /\ e.average = out[j].average
    BY <2>2, <1>3, PlusAverage DEF zero
  <2> QED
    BY <2>1, <2>3, <1>3 DEF Totals
<1> QED
  BY <1>8 DEF d, P, e, dates, raw

\* Burned
LEMMA BurnedShown ==
    ASSUME NEW table, TableOK(table), NEW from \in Nat, NEW to \in Nat, NEW i \in DOMAIN Dates(from, to)
    PROVE  LET d == DayOf(Dates(from, to)[i])
               P == Newests(table, from, to, RowLimit)
               e == BurnedETRs(table, from, to)[i]
           IN  d \in P => e.cumulative = Sum(table, AtMost(P, d))
<1> DEFINE dates == Dates(from, to)
           d == DayOf(dates[i])
           P == Newests(table, from, to, RowLimit)
           e == BurnedETRs(table, from, to)[i]
           raw == Query(table, from, to, RowLimit)
           zero == Zeros(BurnedFields)
<1>1. RowLimit \in Nat
  BY ReportsAssumption
<1> HIDE DEF P, raw
<1>0. PICK a, m : /\ Sorted(raw, table, P, a, m) /\ RowsRead(table, P, a, m)
                  /\ \A j \in 1..m : a[j] * DayLength >= from
  BY <1>1, RangeRead DEF P, raw
<1>2. /\ RowsRead(table, P, a, m) /\ SortBy(raw) = RowsOf(table, a, m)
      /\ \A j \in 1..m : a[j] * DayLength >= from
  BY <1>0 DEF Sorted
<1> DEFINE out == Loop(BurnedEntry, SortBy(raw))
<1>3. Totals(out, table, P, a, m) /\ \A j \in 1..m : out[j] \in BurnedEntries
  BY <1>2, BurnedAre
<1>4. CalcBurned(from, raw) = out
  BY <1>2, BurnedKept
<1>5. Dated(out, a, m)
  BY <1>2, <1>3, TotalsDated DEF Totals
<1>6. e = MappingDateArray(out, dates, zero)[i]
  BY <1>4 DEF BurnedETRs, raw
<1> HIDE DEF e, out, dates, zero
<1>7. Shows(e, out, a, m, dates[i], zero)
  <2>1. i \in DOMAIN dates
    BY DEF dates
  <2> QED
    BY <1>5, <1>6, <2>1, EntryShown
<1> HIDE DEF d
<1>d. d = DayOf(dates[i])
  BY DEF d
<1>8. ASSUME d \in P PROVE e.cumulative = Sum(table, AtMost(P, d))
  <2>1. PICK j \in 1..m : a[j] = d
    BY <1>2, <1>8 DEF RowsRead, Rising
  <2>2. e = [Plus(zero, out[j]) EXCEPT !.timestamp = dates[i]]
    BY <1>7, <1>d, <2>1 DEF Shows
  <2>3. e.cumulative = out[j].cumulative
    BY <2>2, <1>3, PlusBurned DEF zero
  <2> QED
    BY <2>1, <2>3, <1>3 DEF Totals
<1> QED
  BY <1>8 DEF d, P, e, dates, raw

\* Traders
LEMMA TradersShown ==
    ASSUME NEW table, TableOK(table), NEW from \in Nat, NEW to \in Nat, NEW i \in DOMAIN Dates(from, to)
    PROVE  LET d == DayOf(Dates(from, to)[i])
               P == Newests(table, from, to, RowLimit)
               e == TradingStats(table, from, to)[i]
           IN  LET data == CalcTradersData(Query(table, from, to, RowLimit))
               IN  /\ data \in Seq(TraderEntries)
                   /\ d \in P => \E j \in 1..Len(data) :
                         /\ e.pnl = data[j].pnl
                         /\ e.currentPnlCumulative = data[j].currentPnlCumulative
                         /\ e.currentPnlCumulative = Sum(PnlsOf(table), AtMost(P, d))
                         /\ e.pnlCumulative = Sum(PnlsOf(table), UpTo(table, d))
<1> DEFINE dates == Dates(from, to)
           d == DayOf(dates[i])
           P == Newests(table, from, to, RowLimit)
           e == TradingStats(table, from, to)[i]
           raw == Query(table, from, to, RowLimit)
           zero == Zeros(TraderFields)
<1>1. RowLimit \in Nat
  BY ReportsAssumption
<1> HIDE DEF P, raw
<1>0. PICK a, m : /\ Sorted(raw, table, P, a, m) /\ RowsRead(table, P, a, m)
                  /\ \A j \in 1..m : a[j] * DayLength >= from
  BY <1>1, RangeRead DEF P, raw
<1>2. /\ RowsRead(table, P, a, m) /\ SortBy(raw) = RowsOf(table, a, m)
      /\ \A j \in 1..m : a[j] * DayLength >= from
  BY <1>0 DEF Sorted
<1> DEFINE out == Loop(TraderEntry, SortBy(raw))
<1>3. /\ out \in Seq(TraderEntries) /\ Len(out) = m /\ Traded(out, table, P, a, m)
      /\ \A j \in 1..m : out[j] \in TraderEntries
  BY <1>2, TradersAre DEF Traded
<1>4. CalcTradersData(raw) = out
  BY DEF CalcTradersData
<1>5. Dated(out, a, m)
  BY <1>2, <1>3, TotalsDated DEF Traded
<1>6. e = MappingDateArray(out, dates, zero)[i]
  BY <1>4 DEF TradingStats, raw
<1> HIDE DEF e, out, dates, zero
<1>7. Shows(e, out, a, m, dates[i], zero)
  <2>1. i \in DOMAIN dates
    BY DEF dates
  <2> QED
    BY <1>5, <1>6, <2>1, EntryShown
<1> HIDE DEF d
<1>d. d = DayOf(dates[i])
  BY DEF d
<1>8. ASSUME d \in P PROVE \E j \in 1..m :
            /\ e.pnl = out[j].pnl /\ e.currentPnlCumulative = out[j].currentPnlCumulative
            /\ e.currentPnlCumulative = Sum(PnlsOf(table), AtMost(P, d))
            /\ e.pnlCumulative = Sum(PnlsOf(table), UpTo(table, d))
  <2>1. PICK j \in 1..m : a[j] = d
    BY <1>2, <1>8 DEF RowsRead, Rising
  <2>2. e = [Plus(zero, out[j]) EXCEPT !.timestamp = dates[i]]
    BY <1>7, <1>d, <2>1 DEF Shows
  <2>3. /\ e.pnl = out[j].pnl /\ e.pnlCumulative = out[j].pnlCumulative
        /\ e.currentPnlCumulative = out[j].currentPnlCumulative
    BY <2>2, <1>3, PlusTrader DEF zero
  <2> QED
    BY <2>1, <2>3, <1>3 DEF Traded
<1>9. Len(CalcTradersData(raw)) = m /\ m \in Nat
  BY <1>2, <1>3, <1>4, RowsFacts
<1> QED
  BY <1>3, <1>4, <1>8, <1>9 DEF d, P, e, dates, raw

\* Pool
LEMMA PoolShown ==
    ASSUME NEW table, TableOK(table), NEW from \in Nat, NEW to \in Nat, NEW i \in DOMAIN Dates(from, to)
    PROVE  LET d == DayOf(Dates(from, to)[i])
               P == Newests(table, from, to, PoolPage)
               e == PoolStats(table, from, to)[i]
           IN  /\ d \in P => /\ e.supply = SupplyAt(table, P, d)
                              /\ e.change = Latest(Changes(table, P),
                                                   NonZero(Changes(table, P), AtMost(P, d)))
               /\ d \notin P => e.supply = 0
<1> DEFINE dates == Dates(from, to)
           d == DayOf(dates[i])
           P == Newests(table, from, to, PoolPage)
           e == PoolStats(table, from, to)[i]
           raw == Query(table, from, to, PoolPage)
           zero == Zeros(PoolFields)
<1>1. PoolPage \in Nat
  BY ReportsAssumption
<1> HIDE DEF P, raw
<1>0. PICK a, m : /\ Sorted(raw, table, P, a, m) /\ RowsRead(table, P, a, m)
                  /\ \A j \in 1..m : a[j] * DayLength >= from
  BY <1>1, RangeRead DEF P, raw
<1>2. /\ RowsRead(table, P, a, m) /\ SortBy(raw) = RowsOf(table, a, m)
      /\ \A j \in 1..m : a[j] * DayLength >= from
  BY <1>0 DEF Sorted
<1> DEFINE out == FillNa(Loop(PoolEntry, SortBy(raw)))
<1>3. /\ out \in Seq(PoolEntries) /\ Len(out) = m /\ Pooled(out, table, P, a, m)
      /\ \A j \in 1..m : out[j] \in PoolEntries
  BY <1>2, PoolAre DEF Pooled
<1>4. CalcPoolStats(raw) = out
  BY DEF CalcPoolStats
<1>5. Dated(out, a, m)
  BY <1>2, <1>3, TotalsDated DEF Pooled
<1>6. e = MappingDateArray(out, dates, zero)[i]
  BY <1>4 DEF PoolStats, raw
<1> HIDE DEF e, out, dates, zero
<1>7. Shows(e, out, a, m, dates[i], zero)
  <2>1. i \in DOMAIN dates
    BY DEF dates
  <2> QED
    BY <1>5, <1>6, <2>1, EntryShown
<1> HIDE DEF d
<1>d. d = DayOf(dates[i])
  BY DEF d
<1>8. ASSUME d \in P PROVE /\ e.supply = SupplyAt(table, P, d)
                         /\ e.change = Latest(Changes(table, P), NonZero(Changes(table, P), AtMost(P, d)))
  <2>1. PICK j \in 1..m : a[j] = d
    BY <1>2, <1>8 DEF RowsRead, Rising
  <2>2. e = [Plus(zero, out[j]) EXCEPT !.timestamp = dates[i]]
    BY <1>7, <1>d, <2>1 DEF Shows
  <2>3. e.supply = out[j].supply /\ e.change = out[j].change
    BY <2>2, <1>3, PlusPool DEF zero
  <2> QED
    BY <2>1, <2>3, <1>3 DEF Pooled
<1>9. ASSUME d \notin P PROVE e.supply = 0
  <2>1. \A j \in 1..m : a[j] # DayOf(dates[i])
    BY <1>2, <1>9, <1>d DEF RowsRead, Rising
  <2>2. e = [zero EXCEPT !.timestamp = dates[i]]
    BY <1>7, <2>1 DEF Shows
  <2> QED
    BY <2>2 DEF zero, Zeros, PoolFields
<1> QED
  BY <1>8, <1>9 DEF d, P, e, dates, raw

-----------------------------------------------------------------------------
(* The bounds of the chart and the figures of the overview *)

\* The bounds of the chart.
AbsOf(x) == IF x < 0 THEN -x ELSE x
AbsBound(S) == Max({AbsOf(Largest(S)), AbsOf(Smallest(S))})

\* They bound the values they are taken of.
LEMMA AbsBounds ==
    ASSUME NEW S \in SUBSET Int, IsFiniteSet(S), NEW x \in S
    PROVE  x \in -AbsBound(S)..AbsBound(S) /\ -x \in -AbsBound(S)..AbsBound(S)
<1>1. /\ Largest(S) = Max(S) /\ Smallest(S) = Min(S) /\ Max(S) \in Int /\ Min(S) \in Int
      /\ Min(S) <= x /\ x <= Max(S) /\ x \in Int
  <2>1. Max(S) \in S /\ x <= Max(S)
    BY MaxOf
  <2>2. Min(S) \in S /\ Min(S) <= x
    BY MinOf
  <2>3. S # {}
    OBVIOUS
  <2> QED
    BY <2>1, <2>2, <2>3 DEF Largest, Smallest
<1> DEFINE u == AbsOf(Largest(S))
           v == AbsOf(Smallest(S))
<1>2. u \in Int /\ v \in Int /\ x <= u /\ -v <= x
  BY <1>1 DEF AbsOf
<1> HIDE DEF u, v
<1>3. IsFiniteSet({u, v})
  <2>1. {u, v} = {u} \cup {v}
    OBVIOUS
  <2>2. IsFiniteSet({u})
    BY FS_Singleton
  <2> QED
    BY <2>1, <2>2, FS_AddElement
<1> DEFINE b == Max({u, v})
<1>4. b \in Int /\ u <= b /\ v <= b
  <2>1. {u, v} \in SUBSET Int /\ {u, v} # {}
    BY <1>2
  <2>2. b \in {u, v} /\ \A y \in {u, v} : y <= b
    BY <1>3, <2>1, MaxOf
  <2> QED
    BY <1>2, <2>2
<1>5. AbsBound(S) = b
  BY DEF AbsBound, u, v
<1> HIDE DEF b
<1> QED
  BY <1>1, <1>2, <1>4, <1>5

\* So those of tradersStats bound what the chart shows.
LEMMA ScaleBounds ==
    ASSUME NEW data \in Seq(TraderEntries), NEW j \in 1..Len(data)
    PROVE  LET s == TradersStats(data)
           IN  /\ data[j].pnl \in -s.maxAbsPnl..s.maxAbsPnl
               /\ -data[j].pnl \in -s.maxAbsPnl..s.maxAbsPnl
               /\ data[j].currentPnlCumulative
                     \in -s.maxAbsCumulativePnl..s.maxAbsCumulativePnl
<1> DEFINE n == Len(data)
           pnls == [i \in 1..n |-> data[i].pnl]
           totals == [i \in 1..n |-> data[i].currentPnlCumulative]
           S == {pnls[i] : i \in 1..n}
           T == {totals[i] : i \in 1..n}
<1>1. DOMAIN data = 1..n /\ n \in Nat /\ \A i \in 1..n : data[i] \in TraderEntries
  BY ElementOf
<1>2. \A i \in 1..n : data[i].pnl \in Int /\ data[i].currentPnlCumulative \in Int
  BY <1>1 DEF TraderEntries
<1>3. S \in SUBSET Int /\ T \in SUBSET Int /\ data[j].pnl \in S /\ data[j].currentPnlCumulative \in T
  BY <1>2
<1>4. IsFiniteSet(S) /\ IsFiniteSet(T)
  <2>1. DOMAIN pnls = 1..n /\ DOMAIN totals = 1..n
    OBVIOUS
  <2> HIDE DEF pnls, totals, n
  <2> QED
    BY <1>1, <2>1, ValuesFinite
<1>5. /\ S = {data[i].pnl : i \in DOMAIN data}
      /\ T = {data[i].currentPnlCumulative : i \in DOMAIN data}
  BY <1>1
<1>6. /\ TradersStats(data).maxAbsPnl = AbsBound({data[i].pnl : i \in DOMAIN data})
      /\ TradersStats(data).maxAbsCumulativePnl
            = AbsBound({data[i].currentPnlCumulative : i \in DOMAIN data})
  BY DEF TradersStats, AbsBound, AbsOf
<1>7. /\ TradersStats(data).maxAbsPnl = AbsBound(S)
      /\ TradersStats(data).maxAbsCumulativePnl = AbsBound(T)
  <2> HIDE DEF S, T
  <2> QED
    BY <1>5, <1>6
<1> HIDE DEF S, T
<1>8. /\ data[j].pnl \in -AbsBound(S)..AbsBound(S)
      /\ -data[j].pnl \in -AbsBound(S)..AbsBound(S)
  BY <1>3, <1>4, AbsBounds
<1>9. data[j].currentPnlCumulative \in -AbsBound(T)..AbsBound(T)
  BY <1>3, <1>4, AbsBounds
<1> QED
  BY <1>7, <1>8, <1>9

\* The newest day is among the newest, and so is the one before it.
LEMMA NewestInTop ==
    ASSUME NEW D \in SUBSET Int, IsFiniteSet(D), D # {}, NEW first \in Nat \ {0, 1}
    PROVE  /\ Max(D) \in Top(D, first)
           /\ D \ {Max(D)} # {} => Max(D \ {Max(D)}) \in Top(D, first)
<1> DEFINE x == Max(D)
<1>1. x \in D /\ x \in Int /\ \A e \in D : e <= x /\ e \in Int
  BY MaxOf
<1> HIDE DEF x
<1>2. x \in Top(D, first)
  <2>1. {e \in D : e >= x} = {x}
    <3>1. \A e \in D : e >= x <=> e = x
      BY <1>1
    <3> QED
      BY <1>1, <3>1
  <2>2. Cardinality({x}) = 1
    BY FS_Singleton
  <2> QED
    BY <1>1, <2>1, <2>2 DEF Top
<1>3. ASSUME D \ {x} # {} PROVE Max(D \ {x}) \in Top(D, first)
  <2> DEFINE R == D \ {x}
             y == Max(R)
  <2>1. R \in SUBSET Int /\ IsFiniteSet(R) /\ R # {}
    BY <1>3, FS_Subset
  <2>2. y \in R /\ \A e \in R : e <= y
    BY <2>1, MaxOf
  <2> HIDE DEF y
  <2>3. y \in D /\ y # x /\ y <= x /\ y \in Int /\ \A e \in D : e = x \/ e <= y
    BY <1>1, <2>2
  <2>4. {e \in D : e >= y} = {y} \cup {x}
    <3>1. \A e \in D : e >= y <=> (e = y \/ e = x)
      BY <1>1, <2>3
    <3> QED
      BY <1>1, <2>3, <3>1
  <2>5. IsFiniteSet({y}) /\ Cardinality({y}) = 1
    BY FS_Singleton
  <2>6. Cardinality({y} \cup {x}) = 2
    <3>1. x \notin {y}
      BY <2>3
    <3>2. Cardinality({y} \cup {x}) = Cardinality({y}) + 1
      BY <2>5, <3>1, FS_AddElement
    <3> QED
      BY <2>5, <3>2
  <2> QED
    BY <2>3, <2>4, <2>6 DEF Top, y
<1> QED
  BY <1>2, <1>3 DEF x

\* The payout of all time, and that of the newest row.
LEMMA PayoutAre ==
    ASSUME NEW table, TableOK(table)
    PROVE  /\ Overview(table).payout = Sum(PnlsOf(table), DOMAIN table)
           /\ DOMAIN table # {} =>
                 Overview(table).payoutDelta = Sum(PnlsOf(table), {Max(DOMAIN table)})
<1> DEFINE D == DOMAIN table
           P == Top(D, RowLimit)
           raw == QueryAll(table, RowLimit)
           out == Loop(TraderEntry, SortBy(raw))
           pnl == PnlsOf(table)
           Pnl(i) == IF i < 1 THEN 0 ELSE out[i].pnlCumulative
<1>1. RowLimit \in Nat \ {0, 1} /\ D \in SUBSET Int /\ IsFiniteSet(D)
  BY ReportsAssumption DEF TableOK
<1> HIDE DEF P, raw
<1>2. PICK a, m : Sorted(raw, table, P, a, m)
  <2>1. RowLimit \in Nat /\ D \in SUBSET DOMAIN table
    BY <1>1
  <2>2. \E a, m : Sorted(Newest(table, D, RowLimit), table, Top(D, RowLimit), a, m)
    BY <2>1, NewestSorted
  <2> QED
    BY <2>2 DEF raw, P, QueryAll
<1>3. RowsRead(table, P, a, m) /\ SortBy(raw) = RowsOf(table, a, m) /\ Len(raw) = m
  <2>1. P \in SUBSET D
    BY DEF P, Top
  <2> QED
    BY <1>2, <2>1 DEF RowsRead, Sorted
<1>4. Len(out) = m /\ Traded(out, table, P, a, m)
  BY <1>3, TradersAre
<1>5. /\ Overview(table).payout = Pnl(Len(raw))
      /\ Overview(table).payoutDelta = Pnl(Len(raw)) - Pnl(Len(raw) - 1)
  BY DEF Overview, CalcPayoutOverview, CalcTradersData, raw
<1> HIDE DEF out
<1>6. P \in SUBSET Int /\ m \in Nat /\ Rising(a, P, m) /\ \A i \in 1..m : a[i] \in P /\ a[i] \in Nat
  BY <1>3, RowsFacts DEF RowsRead
<1>7. \A i \in 1..m : Pnl(i) = Sum(pnl, UpTo(table, a[i]))
  <2> TAKE i \in 1..m
  <2>1. out[i].pnlCumulative = Sum(PnlsOf(table), UpTo(table, a[i]))
    BY <1>4 DEF Traded
  <2> QED
    BY <1>6, <2>1
<1>8. Pnl(0) = 0
  OBVIOUS
<1> HIDE DEF Pnl
<1>9. CASE D = {}
  <2>1. m = 0
    <3>1. P = {}
      BY <1>9 DEF P, Top
    <3> QED
      BY <1>6, <3>1
  <2>2. Sum(pnl, D) = 0
    BY <1>9, SumEmpty
  <2> QED
    BY <1>3, <1>5, <1>8, <1>9, <2>1, <2>2
<1>10. CASE D # {}
  <2> DEFINE x == Max(D)
             R == D \ {x}
  <2>1. x \in D /\ x \in Int /\ \A e \in D : e <= x /\ e \in Int
    BY <1>1, <1>10, MaxOf
  <2>2. x \in P /\ (R # {} => Max(R) \in P)
    BY <1>1, <1>10, NewestInTop DEF P
  <2>3. P \in SUBSET D
    BY DEF P, Top
  <2> HIDE DEF x
  <2>4. PICK k \in 1..m : a[k] = x
    BY <1>6, <2>2 DEF Rising
  <2>5. k = m
    <3>1. ASSUME k < m PROVE FALSE
      <4>1. m \in 1..m
        BY <1>6, <3>1
      <4>2. a[k] < a[m]
        BY <1>6, <3>1, <4>1 DEF Rising
      <4>3. a[m] \in D
        BY <1>6, <2>3, <4>1
      <4> QED
        BY <2>1, <2>4, <4>2, <4>3
    <3> QED
      BY <1>6, <3>1
  <2>6. m \in 1..m /\ a[m] = x
    BY <2>4, <2>5
  <2>7. UpTo(table, a[m]) = D
    BY <2>1, <2>6 DEF UpTo
  <2>8. Pnl(m) = Sum(pnl, D)
    BY <1>7, <2>6, <2>7
  <2>9. Pnl(m - 1) = Sum(pnl, R)
    <3>1. CASE R = {}
      <4>1. m = 1
        <5>1. ASSUME m # 1 PROVE FALSE
          <6>1. m - 1 \in 1..m /\ m - 1 < m
            BY <1>6, <2>6, <5>1
          <6>2. a[m - 1] < a[m] /\ a[m - 1] \in D
            BY <1>6, <2>3, <2>6, <6>1 DEF Rising
          <6> QED
            BY <2>1, <2>6, <3>1, <6>2
        <5> QED
          BY <5>1
      <4>2. Sum(pnl, R) = 0
        BY <3>1, SumEmpty
      <4> QED
        BY <1>8, <4>1, <4>2
    <3>2. CASE R # {}
      <4> DEFINE y == Max(R)
      <4>1. y \in R /\ \A e \in R : e <= y
        <5>1. R \in SUBSET Int /\ IsFiniteSet(R)
          BY <1>1, FS_Subset
        <5> QED
          BY <3>2, <5>1, MaxOf
      <4>2. y \in P
        BY <2>2, <3>2
      <4> HIDE DEF y
      <4>3. PICK l \in 1..m : a[l] = y
        BY <1>6, <4>2 DEF Rising
      <4>4. l # m
        BY <2>6, <4>1, <4>3
      <4>5. m - 1 \in 1..m /\ m - 1 < m /\ (l = m - 1 \/ l < m - 1)
        BY <1>6, <4>3, <4>4
      <4>6. y \in Int /\ a[m - 1] \in Int /\ y <= a[m - 1] /\ a[m - 1] < x /\ a[m - 1] \in D
        <5>1. l < m - 1 => a[l] < a[m - 1]
          BY <1>6, <4>5 DEF Rising
        <5>2. a[m - 1] < a[m]
          BY <1>6, <2>6, <4>5 DEF Rising
        <5>3. a[m - 1] \in D /\ a[m - 1] \in Int /\ y \in Int
          BY <1>6, <2>1, <2>3, <4>1, <4>5
        <5> QED
          BY <2>6, <4>3, <4>5, <5>1, <5>2, <5>3
      <4>7. UpTo(table, a[m - 1]) = R
        <5>1. \A e \in D : e <= a[m - 1] <=> e # x
          BY <2>1, <4>1, <4>6
        <5> QED
          BY <5>1 DEF UpTo
      <4> QED
        BY <1>7, <4>5, <4>7
    <3> QED
      BY <3>1, <3>2
  <2>10. Sum(pnl, D) = pnl[x] + Sum(pnl, R) /\ Sum(pnl, R) \in Int /\ pnl[x] \in Int
    <3>1. /\ IsFiniteSet(D) /\ IntOn(pnl, D) /\ Sum(pnl, R) \in Int
      <4>1. R \in SUBSET DOMAIN table /\ D \in SUBSET DOMAIN table
        OBVIOUS
      <4> HIDE DEF pnl, R, D
      <4> QED
        BY <4>1, PnlFacts DEF pnl
    <3>2. pnl[x] \in Int
      BY <2>1, <3>1 DEF IntOn
    <3> HIDE DEF pnl
    <3>3. Sum(pnl, D) = pnl[x] + Sum(pnl, D \ {x})
      BY <2>1, <3>1, SumOut
    <3> QED
      BY <3>1, <3>2, <3>3
  <2>11. Sum(pnl, {x}) = pnl[x]
    <3>1. IsFiniteSet({x}) /\ IntOn(pnl, {x})
      BY <2>10, FS_Singleton DEF IntOn
    <3> HIDE DEF pnl
    <3>2. Sum(pnl, {x}) = pnl[x] + Sum(pnl, {x} \ {x})
      BY <3>1, SumOut
    <3>3. {x} \ {x} = {}
      OBVIOUS
    <3>4. Sum(pnl, {x} \ {x}) = 0
      BY <3>3, SumEmpty
    <3> QED
      BY <2>10, <3>2, <3>4 DEF pnl
  <2>12. Pnl(m) - Pnl(m - 1) = Sum(pnl, {x})
    <3> HIDE DEF pnl, R, D
    <3> QED
      BY <2>8, <2>9, <2>10, <2>11
  <2> QED
    BY <1>3, <1>5, <2>8, <2>12 DEF x
<1> QED
  BY <1>9, <1>10

-----------------------------------------------------------------------------
(* What is shown of the pool *)

\* The last value that is not 0 is of the type of the values.
LEMMA LatestIn ==
    ASSUME NEW f, NEW S \in SUBSET Int, IsFiniteSet(S), NEW T, 0 \in T, \A e \in S : f[e] \in T
    PROVE  Latest(f, S) \in T
<1>1. S # {} => Max(S) \in S
  BY MaxOf
<1> QED
  BY <1>1 DEF Latest

\* A supply is an amount, and a change is not above the cap.
LEMMA PoolBounds ==
    ASSUME NEW table, NEW P, P \in SUBSET Nat, IsFiniteSet(P), NEW M \in Nat,
           \A e \in P : table[e] \in 0..M
    PROVE  \A d \in Int : /\ SupplyAt(table, P, d) \in 0..M
                          /\ Latest(Changes(table, P), NonZero(Changes(table, P), AtMost(P, d)))
                                \in -M..MaxChange
<1>1. \A f, d : /\ NonZero(f, AtMost(P, d)) \in SUBSET P
                /\ NonZero(f, AtMost(P, d)) \in SUBSET Int
  <2>1. \A f, d : NonZero(f, AtMost(P, d)) \in SUBSET P
    BY DEF NonZero, AtMost
  <2>2. P \in SUBSET Int
    OBVIOUS
  <2> QED
    BY <2>1, <2>2
<1>2. \A f, d : IsFiniteSet(NonZero(f, AtMost(P, d)))
  BY <1>1, FS_Subset
<1>3. ASSUME NEW d \in Int PROVE SupplyAt(table, P, d) \in 0..M
  <2> DEFINE S == NonZero(table, AtMost(P, d))
  <2>1. S \in SUBSET Int /\ IsFiniteSet(S) /\ \A e \in S : table[e] \in 0..M
    BY <1>1, <1>2
  <2>2. 0 \in 0..M
    OBVIOUS
  <2> HIDE DEF S
  <2>3. Latest(table, S) \in 0..M
    BY <2>1, <2>2, LatestIn
  <2> QED
    BY <2>3 DEF SupplyAt, S
<1>4. MaxChange \in Nat
  BY ReportsAssumption
<1>5. ASSUME NEW e \in P PROVE Changes(table, P)[e] \in -M..MaxChange
  <2> DEFINE s == SupplyAt(table, P, e)
             l == SupplyAt(table, P, e - 1)
  <2>1. s \in 0..M /\ l \in 0..M
    BY <1>3
  <2>2. Changes(table, P)[e] = Change(s, l)
    BY DEF Changes
  <2> HIDE DEF s, l
  <2>3. Change(s, l) \in -M..MaxChange
    BY <2>1, <1>4 DEF Change
  <2> QED
    BY <2>2, <2>3
<1>6. ASSUME NEW d \in Int
      PROVE  Latest(Changes(table, P), NonZero(Changes(table, P), AtMost(P, d))) \in -M..MaxChange
  <2> DEFINE f == Changes(table, P)
             S == NonZero(f, AtMost(P, d))
  <2>1. S \in SUBSET Int /\ IsFiniteSet(S) /\ \A e \in S : f[e] \in -M..MaxChange
    BY <1>1, <1>2, <1>5
  <2>2. 0 \in -M..MaxChange
    BY <1>4
  <2> HIDE DEF S, f
  <2>3. Latest(f, S) \in -M..MaxChange
    BY <2>1, <2>2, LatestIn
  <2> QED
    BY <2>3 DEF S, f
<1> QED
  BY <1>3, <1>6

\* So are those of the newest row, which the overview shows.
LEMMA OverviewPool ==
    ASSUME NEW table, TableOK(table), NEW M \in Nat, \A d \in DOMAIN table : table[d] \in 0..M
    PROVE  Overview(table).totalPool \in 0..M /\ Overview(table).totalPoolDelta \in -M..MaxChange
<1> DEFINE P == Top(DOMAIN table, PoolPage)
           raw == QueryAll(table, PoolPage)
           pool == FillNa(Loop(PoolEntry, SortBy(raw)))
<1>1. PoolPage \in Nat /\ MaxChange \in Nat /\ DOMAIN table \in SUBSET DOMAIN table
  BY ReportsAssumption
<1> HIDE DEF P, raw
<1>2. PICK a, m : Sorted(raw, table, P, a, m)
  <2>1. \E a, m : Sorted(Newest(table, DOMAIN table, PoolPage), table, Top(DOMAIN table, PoolPage), a, m)
    BY <1>1, NewestSorted
  <2> QED
    BY <2>1 DEF raw, P, QueryAll
<1>3. RowsRead(table, P, a, m) /\ SortBy(raw) = RowsOf(table, a, m)
  <2>1. P \in SUBSET DOMAIN table
    BY DEF P, Top
  <2> QED
    BY <1>2, <2>1 DEF RowsRead, Sorted
<1>4. pool \in Seq(PoolEntries) /\ Len(pool) = m /\ Pooled(pool, table, P, a, m)
  BY <1>3, PoolAre
<1>5. CalcPoolStats(raw) = pool
  BY DEF CalcPoolStats
<1> HIDE DEF pool
<1>6. /\ Overview(table).totalPool = IF pool = << >> THEN 0 ELSE Last(pool).supply
      /\ Overview(table).totalPoolDelta = IF pool = << >> THEN 0 ELSE Last(pool).change
  BY <1>5 DEF Overview, raw
<1>7. 0 \in 0..M /\ 0 \in -M..MaxChange
  BY <1>1
<1>8. ASSUME pool # << >>
      PROVE  Last(pool).supply \in 0..M /\ Last(pool).change \in -M..MaxChange
  <2>1. m \in 1..m
    BY <1>4, <1>8
  <2>2. Last(pool) = pool[m]
    BY <1>4 DEF Last
  <2>3. P \in SUBSET Nat /\ IsFiniteSet(P) /\ (\A e \in P : table[e] \in 0..M) /\ a[m] \in Int
    <3>1. P \in SUBSET DOMAIN table /\ DOMAIN table \in SUBSET Nat
      BY <1>3 DEF RowsRead, TableOK
    <3>2. IsFiniteSet(P) /\ a[m] \in Nat
      BY <1>3, <2>1, RowsFacts
    <3> QED
      BY <3>1, <3>2
  <2>4. /\ SupplyAt(table, P, a[m]) \in 0..M
        /\ Latest(Changes(table, P), NonZero(Changes(table, P), AtMost(P, a[m]))) \in -M..MaxChange
    BY <2>3, PoolBounds
  <2> QED
    BY <1>4, <2>1, <2>2, <2>4 DEF Pooled
<1> QED
  BY <1>6, <1>7, <1>8

-----------------------------------------------------------------------------
(* The invariant *)

\* The subgraph has amounts of days up to today.
IInv ==
    /\ now \in WeeklyStart..Horizon
    /\ DOMAIN rows \subseteq 0..DayOf(now)
    /\ \A d \in DOMAIN rows : rows[d] \in Amount
    /\ DOMAIN rows = {} => rows = << >>

\* Days do not go back.
LEMMA DayGrows ==
    ASSUME NEW t \in Nat
    PROVE  DayOf(t) \in Nat /\ DayOf(t) <= DayOf(t + 1)
<1>1. DayLength \in Nat \ {0}
  BY CalendarAssumption
<1>2. DayOf(t) \in Nat /\ DayOf(t) * DayLength <= t
  BY <1>1 DEF DayOf
<1>3. DayOf(t + 1) \in Nat /\ t + 1 < DayOf(t + 1) * DayLength + DayLength
  BY <1>1 DEF DayOf
<1> DEFINE p == DayOf(t)
           q == DayOf(t + 1)
<1> HIDE DEF p, q
<1>4. ASSUME p \in Nat, q \in Nat, p * DayLength < q * DayLength + DayLength PROVE p <= q
  <2>1. ASSUME p >= q + 1 PROVE FALSE
    <3>1. (q + 1) * DayLength <= p * DayLength
      BY <1>1, <1>4, <2>1
    <3>2. (q + 1) * DayLength = q * DayLength + DayLength
      BY <1>1, <1>4
    <3> QED
      BY <1>1, <1>4, <3>1, <3>2
  <2> QED
    BY <1>4, <2>1
<1>5. p * DayLength < q * DayLength + DayLength
  <2>1. p \in Nat /\ q \in Nat /\ p * DayLength <= t /\ t + 1 < q * DayLength + DayLength
    BY <1>2, <1>3 DEF p, q
  <2>2. p * DayLength \in Nat /\ q * DayLength \in Nat
    BY <2>1, <1>1
  <2> QED
    BY <2>1, <2>2, <1>1
<1> QED
  BY <1>2, <1>3, <1>4, <1>5 DEF p, q

\* It holds when the tournaments have begun and there is no row,
LEMMA InvFirst == Init => IInv
<1>1. DOMAIN << >> = {}
  OBVIOUS
<1> QED
  BY <1>1, CalendarAssumption, StatisticsAssumption DEF Init, IInv

\* and neither time nor a row that is written ends it.
LEMMA InvNext == IInv /\ [Next]_vars => IInv'
<1> SUFFICES ASSUME IInv, [Next]_vars PROVE IInv'
  OBVIOUS
<1>1. now \in WeeklyStart..Horizon /\ WeeklyStart \in Nat /\ Horizon \in Nat /\ now \in Nat
  BY CalendarAssumption, StatisticsAssumption DEF IInv
<1>2. DayOf(now) \in Nat
  BY <1>1, DayGrows
<1>3. CASE Tick
  <2>1. now' = now + 1 /\ rows' = rows /\ now < Horizon
    BY <1>3 DEF Tick
  <2>2. DayOf(now) <= DayOf(now') /\ DayOf(now') \in Nat
    <3>1. now + 1 \in Nat
      BY <1>1
    <3> QED
      BY <1>1, <2>1, <3>1, DayGrows
  <2>3. now' \in WeeklyStart..Horizon
    BY <1>1, <2>1
  <2>4. DOMAIN rows \subseteq 0..DayOf(now')
    <3>1. DOMAIN rows \subseteq 0..DayOf(now)
      BY DEF IInv
    <3> QED
      BY <1>2, <2>2, <3>1
  <2> QED
    BY <2>1, <2>3, <2>4 DEF IInv, Amount, DayOf
<1>4. CASE RowWritten
  <2>1. PICK a \in Amount :
           rows' = [d \in DOMAIN rows \cup {DayOf(now)} |-> IF d = DayOf(now) THEN a ELSE rows[d]]
    BY <1>4 DEF RowWritten
  <2>2. now' = now
    BY <1>4 DEF RowWritten
  <2>3. DOMAIN rows' = DOMAIN rows \cup {DayOf(now)}
    BY <2>1
  <2>4. \A d \in DOMAIN rows' : rows'[d] \in Amount
    BY <2>1, <2>3 DEF IInv
  <2>5. DOMAIN rows' \subseteq 0..DayOf(now)
    BY <1>2, <2>3 DEF IInv
  <2> QED
    BY <1>1, <2>2, <2>3, <2>4, <2>5 DEF IInv, Amount, DayOf
<1>5. CASE UNCHANGED vars
  BY <1>5 DEF IInv, vars, Amount, DayOf
<1> QED
  BY <1>3, <1>4, <1>5 DEF Next

\* A smaller table of amounts is one too.
LEMMA InvTable ==
    ASSUME IInv
    PROVE  TableOK(rows) /\ TableOK(Yesterday) /\ now \in Nat /\ DayOf(now) \in Nat
<1>1. WeeklyStart \in Nat /\ now \in Nat
  BY CalendarAssumption, StatisticsAssumption DEF IInv
<1>2. DayOf(now) \in Nat
  BY <1>1, DayGrows
<1>3. IsFiniteSet(0..DayOf(now))
  <2> DEFINE n == DayOf(now)
  <2>1. 0 \in Int /\ n \in Int
    BY <1>2
  <2> HIDE DEF n
  <2>2. IsFiniteSet(0..n)
    BY <2>1, FS_Interval
  <2> QED
    BY <2>2 DEF n
<1>4. IsFiniteSet(DOMAIN rows) /\ DOMAIN rows \in SUBSET Nat
  <2>1. DOMAIN rows \subseteq 0..DayOf(now)
    BY DEF IInv
  <2>2. IsFiniteSet(DOMAIN rows)
    BY <1>3, <2>1, FS_Subset
  <2> QED
    BY <1>2, <2>1, <2>2
<1>5. \A d \in DOMAIN rows : rows[d] \in Nat
  BY StatisticsAssumption DEF IInv, Amount
<1>6. /\ DOMAIN Yesterday = DOMAIN rows \ {DayOf(now)}
      /\ \A d \in DOMAIN Yesterday : Yesterday[d] = rows[d]
  BY DEF Yesterday
<1>7. IsFiniteSet(DOMAIN Yesterday)
  BY <1>4, <1>6, FS_Subset
<1> QED
  BY <1>1, <1>2, <1>4, <1>5, <1>6, <1>7 DEF TableOK

-----------------------------------------------------------------------------
(* What follows from it *)

\* The overview shows a supply that was read and a change below the cap.
LEMMA InvTyped == IInv => TypeOK
<1> SUFFICES ASSUME IInv PROVE TypeOK
  OBVIOUS
<1>1. TableOK(rows) /\ MaxAmount \in Nat
  BY InvTable, StatisticsAssumption
<1>2. \A d \in DOMAIN rows : rows[d] \in 0..MaxAmount
  BY DEF IInv, Amount
<1>3. Overview(rows).totalPool \in 0..MaxAmount /\ Overview(rows).totalPoolDelta \in -MaxAmount..MaxChange
  BY <1>1, <1>2, OverviewPool
<1>4. now \in 0..Horizon
  BY CalendarAssumption, StatisticsAssumption DEF IInv
<1> QED
  BY <1>3, <1>4 DEF IInv, TypeOK, Amount

\* The days a query answers, as the properties have them.
LEMMA ReadIs ==
    \A from, to, first : Read(from, to, first) = Newests(rows, from, to, first)
  BY DEF Read, RowsIn, Newests, Top

\* Totals, averages and bounds.
LEMMA InvTotals == IInv => TotalsAddUp
<1> SUFFICES ASSUME IInv PROVE TotalsAddUp
  OBVIOUS
<1>0. TableOK(rows) /\ now \in Nat
  BY InvTable
<1>p. Pnls = PnlsOf(rows)
  BY DEF Pnls, PnlsOf
<1>1. /\ Overview(rows).payout = PnlOf(DOMAIN rows)
      /\ rows # << >> => Overview(rows).payoutDelta = PnlOf({Max(DOMAIN rows)})
  <2>1. rows # << >> => DOMAIN rows # {}
    BY DEF IInv
  <2> QED
    BY <1>0, <1>p, <2>1, PayoutAre, SumIs DEF PnlOf
<1>2. ASSUME NEW r \in Requests,
             NEW i \in {j \in DOMAIN Dates(r[1], r[2]) :
                           DayOf(Dates(r[1], r[2])[j]) \in Read(r[1], r[2], RowLimit)}
      PROVE  LET in      == Read(r[1], r[2], RowLimit)
                 dates   == Dates(r[1], r[2])
                 fees    == FeeStats(rows, r[1], r[2])
                 volumes == VolumeStats(rows, r[1], r[2])
                 burned  == BurnedETRs(rows, r[1], r[2])
                 trading == TradingStats(rows, r[1], r[2])
                 scale   == TradersStats(CalcTradersData(Query(rows, r[1], r[2], RowLimit)))
                 d    == DayOf(dates[i])
                 upTo == {e \in in : e <= d}
             IN  /\ {fees[i].cumulative, volumes[i].cumulative, burned[i].cumulative} = {SumOf(upTo)}
                 /\ fees[i].average = {SumOf({f \in upTo : f > e}) : e \in in \cap {d - AverageDays}}
                 /\ volumes[i].average = {}
                 /\ trading[i].currentPnlCumulative = PnlOf(upTo)
                 /\ trading[i].pnlCumulative = PnlOf({e \in DOMAIN rows : e <= d})
                 /\ {trading[i].pnl, -trading[i].pnl} \subseteq -scale.maxAbsPnl..scale.maxAbsPnl
                 /\ trading[i].currentPnlCumulative
                       \in -scale.maxAbsCumulativePnl..scale.maxAbsCumulativePnl
  <2> DEFINE from == r[1]
             to == r[2]
             P == Read(from, to, RowLimit)
             d == DayOf(Dates(from, to)[i])
             data == CalcTradersData(Query(rows, from, to, RowLimit))
             scale == TradersStats(data)
  <2>1. from \in Nat /\ to \in Nat
    BY <1>0 DEF Requests
  <2>2. i \in DOMAIN Dates(from, to) /\ d \in P
    OBVIOUS
  <2>3. P = Newests(rows, from, to, RowLimit)
    BY ReadIs
  <2> HIDE DEF from, to, P, d, data, scale
  <2>4. /\ FeeStats(rows, from, to)[i].cumulative = Sum(rows, AtMost(P, d))
        /\ FeeStats(rows, from, to)[i].average = AverageOf(rows, P, d)
    BY <1>0, <2>1, <2>2, <2>3, FeesShown DEF d
  <2>5. /\ VolumeStats(rows, from, to)[i].cumulative = Sum(rows, AtMost(P, d))
        /\ VolumeStats(rows, from, to)[i].average = {}
    BY <1>0, <2>1, <2>2, <2>3, VolumesShown DEF d
  <2>6. BurnedETRs(rows, from, to)[i].cumulative = Sum(rows, AtMost(P, d))
    BY <1>0, <2>1, <2>2, <2>3, BurnedShown DEF d
  <2>7. data \in Seq(TraderEntries) /\ \E j \in 1..Len(data) :
           /\ TradingStats(rows, from, to)[i].pnl = data[j].pnl
           /\ TradingStats(rows, from, to)[i].currentPnlCumulative = data[j].currentPnlCumulative
           /\ TradingStats(rows, from, to)[i].currentPnlCumulative = Sum(Pnls, AtMost(P, d))
           /\ TradingStats(rows, from, to)[i].pnlCumulative = Sum(Pnls, UpTo(rows, d))
    BY <1>0, <1>p, <2>1, <2>2, <2>3, TradersShown DEF d, data
  <2>8. PICK j \in 1..Len(data) :
           /\ TradingStats(rows, from, to)[i].pnl = data[j].pnl
           /\ TradingStats(rows, from, to)[i].currentPnlCumulative = data[j].currentPnlCumulative
           /\ TradingStats(rows, from, to)[i].currentPnlCumulative = Sum(Pnls, AtMost(P, d))
           /\ TradingStats(rows, from, to)[i].pnlCumulative = Sum(Pnls, UpTo(rows, d))
    BY <2>7
  <2>9. /\ data[j].pnl \in -scale.maxAbsPnl..scale.maxAbsPnl
        /\ -data[j].pnl \in -scale.maxAbsPnl..scale.maxAbsPnl
        /\ data[j].currentPnlCumulative \in -scale.maxAbsCumulativePnl..scale.maxAbsCumulativePnl
    BY <2>7, ScaleBounds DEF scale
  <2>10. /\ {e \in P : e <= d} = AtMost(P, d) /\ {e \in DOMAIN rows : e <= d} = UpTo(rows, d)
         /\ \A S : SumOf(S) = Sum(rows, S) /\ PnlOf(S) = Sum(Pnls, S)
    BY SumIs DEF AtMost, UpTo, SumOf, PnlOf
  <2>11. AverageOf(rows, P, d)
            = {SumOf({f \in {g \in P : g <= d} : f > e}) : e \in P \cap {d - AverageDays}}
    BY <2>10 DEF AverageOf
  <2>12. /\ {FeeStats(rows, from, to)[i].cumulative, VolumeStats(rows, from, to)[i].cumulative,
             BurnedETRs(rows, from, to)[i].cumulative} = {SumOf({e \in P : e <= d})}
         /\ TradingStats(rows, from, to)[i].currentPnlCumulative = PnlOf({e \in P : e <= d})
         /\ TradingStats(rows, from, to)[i].pnlCumulative = PnlOf({e \in DOMAIN rows : e <= d})
    BY <2>4, <2>5, <2>6, <2>8, <2>10
  <2>13. /\ {TradingStats(rows, from, to)[i].pnl, -TradingStats(rows, from, to)[i].pnl}
               \subseteq -scale.maxAbsPnl..scale.maxAbsPnl
         /\ TradingStats(rows, from, to)[i].currentPnlCumulative
               \in -scale.maxAbsCumulativePnl..scale.maxAbsCumulativePnl
    BY <2>8, <2>9
  <2> QED
    BY <2>4, <2>5, <2>11, <2>12, <2>13 DEF from, to, P, d, data, scale
<1> QED
  BY <1>1, <1>2 DEF TotalsAddUp

\* The days of a range that get a date.
LEMMA DaysShown ==
    ASSUME NEW from \in Nat, NEW to \in Nat, from <= to, NEW d \in Nat,
           from <= d * DayLength, d * DayLength <= to
    PROVE  Cardinality({i \in DOMAIN Dates(from, to) : DayOf(Dates(from, to)[i]) = d}) =
              IF d = DayOf(to) /\ TimeOfDay(to) < TimeOfDay(from) THEN 0 ELSE 1
<1>1. DayLength \in Nat \ {0}
  BY CalendarAssumption
<1> DEFINE q == (to - from) \div DayLength
           p == DayOf(from)
           z == DayOf(to)
           n == DayLength
           shown == {i \in DOMAIN Dates(from, to) : DayOf(Dates(from, to)[i]) = d}
<1>3. q \in Nat /\ q * n <= to - from /\ to - from < q * n + n
  <2>1. to - from \in Nat
    OBVIOUS
  <2>2. q \in Nat
    BY <1>1, <2>1
  <2> QED
    BY <1>1, <2>1, <2>2, DivBounds
<1>4. /\ p \in Nat /\ from = p * n + TimeOfDay(from) /\ TimeOfDay(from) \in 0..(n - 1)
      /\ z \in Nat /\ to = z * n + TimeOfDay(to) /\ TimeOfDay(to) \in 0..(n - 1)
  <2>1. p \in Nat /\ from = p * n + TimeOfDay(from) /\ TimeOfDay(from) \in 0..(n - 1)
    BY <1>1, DivParts DEF DayOf, TimeOfDay
  <2>2. z \in Nat /\ to = z * n + TimeOfDay(to) /\ TimeOfDay(to) \in 0..(n - 1)
    BY <1>1, DivParts DEF DayOf, TimeOfDay
  <2> QED
    BY <2>1, <2>2
<1>5. /\ DOMAIN Dates(from, to) = 1..(q + 1)
      /\ \A i \in DOMAIN Dates(from, to) : DayOf(Dates(from, to)[i]) = p + i - 1
  BY DatesAre
<1> DEFINE u == TimeOfDay(from)
           v == TimeOfDay(to)
<1> HIDE DEF q, p, z, u, v
<1>6. shown = {i \in 1..(q + 1) : i = d - p + 1}
  <2>1. \A i \in 1..(q + 1) : p + i - 1 = d <=> i = d - p + 1
    BY <1>3, <1>4 DEF p, z
  <2> QED
    BY <1>5, <2>1
<1>7. p \in Nat /\ z \in Nat /\ u \in 0..(n - 1) /\ v \in 0..(n - 1)
      /\ from = p * n + u /\ to = z * n + v
  BY <1>4 DEF p, z, u, v
<1> HIDE DEF shown
\* d is from the first day on and not after the last
<1>8. p <= d /\ d <= z
  <2>1. ASSUME d < p PROVE FALSE
    <3>1. (d + 1) * n <= p * n
      BY <1>1, <1>7, <2>1
    <3>2. (d + 1) * n = d * n + n
      BY <1>1
    <3> QED
      BY <1>1, <1>7, <3>1, <3>2
  <2>2. ASSUME z < d PROVE FALSE
    <3>1. (z + 1) * n <= d * n
      BY <1>1, <1>7, <2>2
    <3>2. (z + 1) * n = z * n + n
      BY <1>1, <1>7
    <3>3. z * n \in Nat /\ d * n \in Nat
      BY <1>1, <1>7
    <3> QED
      BY <1>1, <1>7, <3>1, <3>2, <3>3
  <2> QED
    BY <1>7, <2>1, <2>2
\* the range has so many whole days
<1>9. q = IF v < u THEN z - p - 1 ELSE z - p
  <2>1. \A x \in Int, k \in Int : k * n <= x /\ x < k * n + n => x \div n = k
    BY <1>1
  <2>2. (z - p) * n = z * n - p * n /\ (z - p - 1) * n = z * n - p * n - n
    BY <1>1, <1>7
  <2>3. z * n \in Nat /\ p * n \in Nat
    BY <1>1, <1>7
  <2>4. CASE v < u
    <3>1. (z - p - 1) * n <= to - from /\ to - from < (z - p - 1) * n + n
      BY <1>1, <1>7, <2>2, <2>3, <2>4
    <3>2. to - from \in Int /\ z - p - 1 \in Int
      BY <1>7
    <3>3. (to - from) \div n = z - p - 1
      BY <2>1, <3>1, <3>2
    <3> QED
      BY <2>4, <3>3 DEF q
  <2>5. CASE ~ (v < u)
    <3>1. (z - p) * n <= to - from /\ to - from < (z - p) * n + n
      BY <1>1, <1>7, <2>2, <2>3, <2>5
    <3>2. to - from \in Int /\ z - p \in Int
      BY <1>7
    <3>3. (to - from) \div n = z - p
      BY <2>1, <3>1, <3>2
    <3> QED
      BY <2>5, <3>3 DEF q
  <2> QED
    BY <2>4, <2>5
<1>10. CASE d = z /\ v < u
  <2>1. shown = {}
    <3>1. \A i \in 1..(q + 1) : i # d - p + 1
      BY <1>3, <1>7, <1>9, <1>10
    <3> QED
      BY <1>6, <3>1
  <2>2. Cardinality(shown) = 0
    BY <2>1, FS_EmptySet
  <2> QED
    BY <1>10, <2>2 DEF shown, z, u, v
<1>11. CASE ~ (d = z /\ v < u)
  <2> DEFINE k == d - p + 1
  <2>1. k \in 1..(q + 1)
    BY <1>3, <1>7, <1>8, <1>9, <1>11
  <2> HIDE DEF k
  <2>2. shown = {k}
    BY <1>6, <2>1 DEF k
  <2>3. Cardinality(shown) = 1
    BY <2>2, FS_Singleton
  <2> QED
    BY <1>11, <2>3 DEF shown, z, u, v
<1> QED
  BY <1>10, <1>11

\* A supply that is not 0 is shown as it is.
LEMMA SupplyOwn ==
    ASSUME NEW table, NEW P \in SUBSET Int, IsFiniteSet(P), NEW d \in P, table[d] # 0
    PROVE  SupplyAt(table, P, d) = table[d]
<1> DEFINE S == NonZero(table, AtMost(P, d))
<1>1. S \in SUBSET P /\ d \in S /\ \A e \in S : e <= d
  <2>1. d <= d
    OBVIOUS
  <2> QED
    BY <2>1 DEF NonZero, AtMost
<1>2. IsFiniteSet(S) /\ S \in SUBSET Int /\ S # {}
  BY <1>1, FS_Subset
<1> HIDE DEF S
<1>3. Max(S) \in S /\ d <= Max(S)
  BY <1>1, <1>2, MaxOf
<1>4. Max(S) <= d /\ Max(S) \in Int /\ d \in Int
  BY <1>1, <1>2, <1>3
<1>5. Max(S) = d
  BY <1>3, <1>4
<1> QED
  BY <1>2, <1>5 DEF SupplyAt, Latest, S

\* Every row is shown once, on its day.
LEMMA InvShown == IInv => EveryRowShown
<1> SUFFICES ASSUME IInv, NEW r \in Requests, NEW d \in RowsIn(r[1], r[2])
             PROVE  LET dates   == Dates(r[1], r[2])
                        volumes == VolumeStats(rows, r[1], r[2])
                        pool    == PoolStats(rows, r[1], r[2])
                        shown == {i \in DOMAIN dates : DayOf(dates[i]) = d}
                    IN  /\ Cardinality(shown) =
                              IF d = DayOf(r[2]) /\ TimeOfDay(r[2]) < TimeOfDay(r[1]) THEN 0 ELSE 1
                        /\ \A i \in shown :
                              /\ volumes[i].amount = IF d \in Read(r[1], r[2], RowLimit) THEN rows[d] ELSE 0
                              /\ d \notin Read(r[1], r[2], PoolPage) => pool[i].supply = 0
                              /\ d \in Read(r[1], r[2], PoolPage) /\ rows[d] # 0 => pool[i].supply = rows[d]
  BY DEF EveryRowShown
<1> DEFINE from == r[1]
           to == r[2]
<1>1. TableOK(rows) /\ now \in Nat
  BY InvTable
<1>2. from \in Nat /\ to \in Nat /\ from <= to
  BY <1>1 DEF Requests
<1>3. d \in DOMAIN rows /\ from <= d * DayLength /\ d * DayLength <= to /\ d \in Nat
  BY <1>1 DEF RowsIn, Days, TableOK
<1> HIDE DEF from, to
<1>4. Cardinality({i \in DOMAIN Dates(from, to) : DayOf(Dates(from, to)[i]) = d}) =
         IF d = DayOf(to) /\ TimeOfDay(to) < TimeOfDay(from) THEN 0 ELSE 1
  BY <1>2, <1>3, DaysShown
<1>5. ASSUME NEW i \in DOMAIN Dates(from, to), DayOf(Dates(from, to)[i]) = d
      PROVE  /\ VolumeStats(rows, from, to)[i].amount = IF d \in Read(from, to, RowLimit) THEN rows[d] ELSE 0
             /\ d \notin Read(from, to, PoolPage) => PoolStats(rows, from, to)[i].supply = 0
             /\ d \in Read(from, to, PoolPage) /\ rows[d] # 0
                   => PoolStats(rows, from, to)[i].supply = rows[d]
  <2>1. /\ Read(from, to, RowLimit) = Newests(rows, from, to, RowLimit)
        /\ Read(from, to, PoolPage) = Newests(rows, from, to, PoolPage)
    BY ReadIs
  <2>2. VolumeStats(rows, from, to)[i].amount = IF d \in Read(from, to, RowLimit) THEN rows[d] ELSE 0
    BY <1>1, <1>2, <1>5, <2>1, VolumesShown
  <2>3. /\ d \in Read(from, to, PoolPage)
              => PoolStats(rows, from, to)[i].supply = SupplyAt(rows, Read(from, to, PoolPage), d)
        /\ d \notin Read(from, to, PoolPage) => PoolStats(rows, from, to)[i].supply = 0
    BY <1>1, <1>2, <1>5, <2>1, PoolShown
  <2>4. Read(from, to, PoolPage) \in SUBSET Int /\ IsFiniteSet(Read(from, to, PoolPage))
    <3>1. Read(from, to, PoolPage) \in SUBSET DOMAIN rows
      BY DEF Read, RowsIn, Days
    <3> QED
      BY <1>1, <3>1, FS_Subset DEF TableOK
  <2>5. d \in Read(from, to, PoolPage) /\ rows[d] # 0
           => SupplyAt(rows, Read(from, to, PoolPage), d) = rows[d]
    BY <2>4, SupplyOwn
  <2> QED
    BY <2>2, <2>3, <2>5
<1> QED
  BY <1>4, <1>5 DEF from, to

\* The pool repeats what is not 0.
LEMMA InvFilled == IInv => PoolFilled
<1> SUFFICES ASSUME IInv, NEW r \in Requests PROVE
        LET dates == Dates(r[1], r[2])
            pool  == PoolStats(rows, r[1], r[2])
            paged == Read(r[1], r[2], PoolPage)
            Stock(d)  == {e \in paged : e <= d /\ rows[e] # 0}
            Late(S) == IF S = {} THEN 0 ELSE rows[Max(S)]
            Moved(d)  == IF Stock(d - 1) = {} THEN 0 ELSE Late(Stock(d)) - Late(Stock(d - 1))
            moves     == {e \in paged : Moved(e) # 0 /\ Moved(e) <= MaxChange}
        IN  \A i \in {j \in DOMAIN dates : DayOf(dates[j]) \in paged} :
              LET d      == DayOf(dates[i])
                  before == {e \in moves : e <= d}
              IN  /\ pool[i].supply = Late(Stock(d))
                  /\ pool[i].change = IF before = {} THEN 0 ELSE Moved(Max(before))
  BY DEF PoolFilled
<1> DEFINE from == r[1]
           to == r[2]
           P == Read(from, to, PoolPage)
           Stock(d)  == {e \in P : e <= d /\ rows[e] # 0}
           Late(S) == IF S = {} THEN 0 ELSE rows[Max(S)]
           Moved(d)  == IF Stock(d - 1) = {} THEN 0 ELSE Late(Stock(d)) - Late(Stock(d - 1))
           moves     == {e \in P : Moved(e) # 0 /\ Moved(e) <= MaxChange}
<1>1. TableOK(rows) /\ now \in Nat /\ MaxChange \in Nat
  BY InvTable, ReportsAssumption
<1>2. from \in Nat /\ to \in Nat
  BY <1>1 DEF Requests
<1>3. P = Newests(rows, from, to, PoolPage)
  BY ReadIs
<1>4. P \in SUBSET DOMAIN rows /\ P \in SUBSET Int /\ IsFiniteSet(P) /\ \A e \in P : rows[e] \in Nat
  <2>1. P \in SUBSET DOMAIN rows
    BY DEF Read, RowsIn, Days
  <2> HIDE DEF P
  <2> QED
    BY <1>1, <2>1, FS_Subset DEF TableOK
<1> HIDE DEF from, to, P
<1>5. \A d : Stock(d) = NonZero(rows, AtMost(P, d)) /\ Late(Stock(d)) = SupplyAt(rows, P, d)
  <2>1. \A d : Stock(d) = NonZero(rows, AtMost(P, d))
    BY DEF NonZero, AtMost
  <2> HIDE DEF Stock
  <2>2. \A d : Late(Stock(d)) = Latest(rows, NonZero(rows, AtMost(P, d)))
    BY <2>1 DEF Latest
  <2> QED
    BY <2>1, <2>2 DEF SupplyAt
<1>6. \A d : Late(Stock(d)) \in Nat /\ (Stock(d) # {} => Late(Stock(d)) # 0)
  <2> TAKE d
  <2>1. Stock(d) \in SUBSET P /\ \A e \in Stock(d) : rows[e] # 0
    OBVIOUS
  <2>2. Stock(d) \in SUBSET Int /\ IsFiniteSet(Stock(d))
    <3> HIDE DEF Stock
    <3> QED
      BY <1>4, <2>1, FS_Subset
  <2> HIDE DEF Stock
  <2>3. Stock(d) # {} => Max(Stock(d)) \in Stock(d)
    BY <2>2, MaxOf
  <2> QED
    BY <1>4, <2>1, <2>3
<1> HIDE DEF Stock, Late
<1>7. ASSUME NEW e \in P
      PROVE  Changes(rows, P)[e] = IF Moved(e) <= MaxChange THEN Moved(e) ELSE 0
  <2> DEFINE s == Late(Stock(e))
             l == Late(Stock(e - 1))
  <2>1. s \in Nat /\ l \in Nat /\ (l = 0 <=> Stock(e - 1) = {})
    <3>1. Stock(e - 1) = {} => l = 0
      BY DEF Late
    <3> QED
      BY <1>6, <3>1
  <2>2. Changes(rows, P)[e] = Change(s, l)
    BY <1>5 DEF Changes
  <2>3. Moved(e) = IF l = 0 THEN 0 ELSE s - l
    BY <2>1
  <2> HIDE DEF s, l, Moved
  <2>4. Change(s, l) = IF Moved(e) <= MaxChange THEN Moved(e) ELSE 0
    BY <1>1, <2>1, <2>3 DEF Change
  <2> QED
    BY <2>2, <2>4
<1>8. \A e \in P : Moved(e) \in Int
  BY <1>6
<1> HIDE DEF Moved
<1>9. ASSUME NEW d
      PROVE  Latest(Changes(rows, P), NonZero(Changes(rows, P), AtMost(P, d)))
                = IF {e \in moves : e <= d} = {} THEN 0 ELSE Moved(Max({e \in moves : e <= d}))
  <2> DEFINE S == NonZero(Changes(rows, P), AtMost(P, d))
             B == {e \in moves : e <= d}
  <2>1. S = B
    <3>1. \A e \in P : Changes(rows, P)[e] # 0 <=> Moved(e) # 0 /\ Moved(e) <= MaxChange
      BY <1>7
    <3> QED
      BY <3>1 DEF NonZero, AtMost
  <2>2. B \in SUBSET P /\ \A e \in B : Changes(rows, P)[e] = Moved(e)
    BY <1>7
  <2>3. B # {} => Max(B) \in B
    <3> HIDE DEF B
    <3>1. B \in SUBSET Int /\ IsFiniteSet(B)
      BY <1>4, <2>2, FS_Subset
    <3> QED
      BY <3>1, MaxOf
  <2> HIDE DEF S, B
  <2>4. Latest(Changes(rows, P), S) = IF B = {} THEN 0 ELSE Moved(Max(B))
    BY <2>1, <2>2, <2>3 DEF Latest
  <2> QED
    BY <2>4 DEF S, B
<1>10. ASSUME NEW i \in DOMAIN Dates(from, to), DayOf(Dates(from, to)[i]) \in P
       PROVE  LET d == DayOf(Dates(from, to)[i])
              IN  /\ PoolStats(rows, from, to)[i].supply = Late(Stock(d))
                  /\ PoolStats(rows, from, to)[i].change
                        = IF {e \in moves : e <= d} = {} THEN 0 ELSE Moved(Max({e \in moves : e <= d}))
  <2> DEFINE d == DayOf(Dates(from, to)[i])
  <2>1. /\ PoolStats(rows, from, to)[i].supply = SupplyAt(rows, P, d)
        /\ PoolStats(rows, from, to)[i].change
              = Latest(Changes(rows, P), NonZero(Changes(rows, P), AtMost(P, d)))
    BY <1>1, <1>2, <1>3, <1>10, PoolShown
  <2> HIDE DEF d, moves
  <2> QED
    BY <1>5, <1>9, <2>1 DEF d
<1> QED
  BY <1>10 DEF from, to, P, Stock, Late, Moved, moves

-----------------------------------------------------------------------------
(* Days that are over *)

\* What the queries answer with today's row and without it.
BothRead(from, to, first, a, m, b, k) ==
    /\ Sorted(Query(rows, from, to, first), rows, Newests(rows, from, to, first), a, m)
    /\ RowsRead(rows, Newests(rows, from, to, first), a, m)
    /\ \A i \in 1..m : a[i] * DayLength >= from
    /\ Sorted(Query(Yesterday, from, to, first), Yesterday, Newests(Yesterday, from, to, first), b, k)
    /\ RowsRead(Yesterday, Newests(Yesterday, from, to, first), b, k)
    /\ \A i \in 1..k : b[i] * DayLength >= from
    /\ k <= m /\ \A i \in 1..k : b[i] = a[i] /\ RowOf(Yesterday, b[i]) = RowOf(rows, a[i])
    /\ \A i \in 1..m : a[i] < DayOf(now) => i <= k

\* A row of a day that is over is the same without today's.
LEMMA RowOfYesterday ==
    ASSUME IInv, NEW d \in DOMAIN Yesterday
    PROVE  RowOf(Yesterday, d) = RowOf(rows, d)
<1>1. TableOK(rows) /\ TableOK(Yesterday) /\ DayOf(now) \in Nat
  BY InvTable
<1>2. /\ DOMAIN Yesterday = DOMAIN rows \ {DayOf(now)}
      /\ \A e \in DOMAIN Yesterday : Yesterday[e] = rows[e]
  BY DEF Yesterday
<1>3. \A e \in DOMAIN rows : e \in Nat /\ e <= DayOf(now)
  BY <1>1 DEF IInv, TableOK
<1>4. UpTo(Yesterday, d) = UpTo(rows, d)
  <2>1. \A e \in DOMAIN rows : e <= d => e # DayOf(now)
    BY <1>1, <1>2, <1>3
  <2> QED
    BY <1>2, <2>1 DEF UpTo
<1> DEFINE S == UpTo(rows, d)
<1>5. S \in SUBSET DOMAIN rows /\ S \in SUBSET DOMAIN Yesterday /\ IsFiniteSet(S)
  <2>1. S \in SUBSET DOMAIN rows /\ S \in SUBSET DOMAIN Yesterday
    BY <1>4 DEF UpTo
  <2> QED
    BY <1>1, <2>1, FS_Subset DEF TableOK
<1> HIDE DEF S
<1>6. /\ Sum(Profits(Yesterday), S) = Sum(Profits(rows), S)
      /\ Sum(Losses(Yesterday), S) = Sum(Losses(rows), S)
  <2>1. \A e \in S : /\ Profits(rows)[e] \in Int /\ Losses(rows)[e] \in Int
                     /\ Profits(Yesterday)[e] = Profits(rows)[e]
                     /\ Losses(Yesterday)[e] = Losses(rows)[e]
    <3> TAKE e \in S
    <3>1. e \in DOMAIN rows /\ e \in DOMAIN Yesterday /\ Yesterday[e] = rows[e] /\ rows[e] \in Nat
      BY <1>1, <1>2, <1>5 DEF TableOK
    <3>2. Profit(rows[e]) \in Int /\ Loss(rows[e]) \in Int
      BY <3>1 DEF Profit, Loss
    <3> QED
      BY <3>1, <3>2 DEF Profits, Losses
  <2>2. IntOn(Profits(rows), S) /\ IntOn(Losses(rows), S)
    BY <2>1 DEF IntOn
  <2>3. Sum(Profits(Yesterday), S) = Sum(Profits(rows), S)
    BY <1>5, <2>1, <2>2, SumAgree
  <2>4. Sum(Losses(Yesterday), S) = Sum(Losses(rows), S)
    BY <1>5, <2>1, <2>2, SumAgree
  <2> QED
    BY <2>3, <2>4
<1>7. /\ SumFunctionOnSet(Profits(Yesterday), UpTo(Yesterday, d))
            = SumFunctionOnSet(Profits(rows), UpTo(rows, d))
      /\ SumFunctionOnSet(Losses(Yesterday), UpTo(Yesterday, d))
            = SumFunctionOnSet(Losses(rows), UpTo(rows, d))
  BY <1>4, <1>6, SumIs DEF S
<1> QED
  BY <1>2, <1>7 DEF RowOf

\* A query that asks for enough rows answers all.
LEMMA TopAll ==
    ASSUME NEW days, IsFiniteSet(days), NEW first \in Nat, Cardinality(days) <= first
    PROVE  Top(days, first) = days
<1>1. Cardinality(days) \in Nat
  BY FS_CardinalityType
<1>2. ASSUME NEW d \in days PROVE Cardinality({e \in days : e >= d}) <= first
  <2> DEFINE S == {e \in days : e >= d}
  <2>1. S \subseteq days
    OBVIOUS
  <2> HIDE DEF S
  <2>2. IsFiniteSet(S) /\ Cardinality(S) <= Cardinality(days) /\ Cardinality(S) \in Nat
    BY <2>1, FS_Subset, FS_CardinalityType
  <2>3. Cardinality(S) <= first
    BY <1>1, <2>2
  <2> QED
    BY <2>3 DEF S
<1> QED
  BY <1>2 DEF Top

\* Such a query answers the same rows of the days that are over.
LEMMA YesterdayRead ==
    ASSUME IInv, NEW from, NEW to, NEW first \in Nat, Cardinality(RowsIn(from, to)) <= first
    PROVE  \E a, m, b, k : BothRead(from, to, first, a, m, b, k)
<1>1. TableOK(rows) /\ TableOK(Yesterday) /\ DayOf(now) \in Nat
  BY InvTable
<1> DEFINE P == Days(rows, from, to)
           Q == Days(Yesterday, from, to)
<1>2. DOMAIN Yesterday = DOMAIN rows \ {DayOf(now)}
  BY DEF Yesterday
<1>3. Q = P \ {DayOf(now)} /\ P \in SUBSET DOMAIN rows /\ Q \in SUBSET DOMAIN Yesterday
  BY <1>2 DEF Days
<1>4. IsFiniteSet(P) /\ IsFiniteSet(Q) /\ P \in SUBSET Int /\ Q \in SUBSET P
  <2> HIDE DEF P, Q
  <2>1. IsFiniteSet(P)
    BY <1>1, <1>3, FS_Subset DEF TableOK
  <2>2. Q \in SUBSET P /\ IsFiniteSet(Q)
    BY <1>3, <2>1, FS_Subset
  <2> QED
    BY <1>1, <1>3, <2>1, <2>2 DEF TableOK
<1>5. Newests(rows, from, to, first) = P /\ Newests(Yesterday, from, to, first) = Q
  <2>1. Cardinality(P) <= first
    BY DEF RowsIn
  <2> HIDE DEF P, Q
  <2>2. Cardinality(Q) <= first
    <3>1. Q \subseteq P
      BY <1>4
    <3>2. Cardinality(Q) <= Cardinality(P) /\ Cardinality(Q) \in Nat /\ Cardinality(P) \in Nat
      BY <1>4, <3>1, FS_Subset, FS_CardinalityType
    <3> QED
      BY <2>1, <3>2
  <2>3. Top(P, first) = P
    BY <1>4, <2>1, TopAll
  <2>4. Top(Q, first) = Q
    BY <1>4, <2>2, TopAll
  <2> QED
    BY <2>3, <2>4 DEF Newests, P, Q
<1>6. PICK a, m : /\ Sorted(Query(rows, from, to, first), rows, Newests(rows, from, to, first), a, m)
                  /\ RowsRead(rows, Newests(rows, from, to, first), a, m)
                  /\ \A i \in 1..m : a[i] * DayLength >= from
  BY <1>1, RangeRead
<1>7. PICK b, k : /\ Sorted(Query(Yesterday, from, to, first), Yesterday,
                            Newests(Yesterday, from, to, first), b, k)
                  /\ RowsRead(Yesterday, Newests(Yesterday, from, to, first), b, k)
                  /\ \A i \in 1..k : b[i] * DayLength >= from
  BY <1>1, RangeRead
<1> HIDE DEF P, Q
<1>8. Rising(a, P, m) /\ Rising(b, Q, k)
  BY <1>5, <1>6, <1>7 DEF RowsRead
<1>9. \A x \in P : x \in Nat /\ x <= DayOf(now)
  BY <1>1, <1>3 DEF IInv, TableOK
<1>10. \A x \in P, y \in Q : x <= y => x \in Q
  BY <1>1, <1>3, <1>4, <1>9
<1>11. /\ k <= m /\ \A i \in 1..k : b[i] = a[i]
       /\ \A i \in 1..m : a[i] \in Q => i <= k
  BY <1>4, <1>8, <1>10, RisingPrefix
<1>12. \A i \in 1..m : a[i] < DayOf(now) => i <= k
  <2> TAKE i \in 1..m
  <2>1. a[i] \in P
    BY <1>8 DEF Rising
  <2> QED
    BY <1>1, <1>3, <1>9, <1>11, <2>1
<1>13. \A i \in 1..k : RowOf(Yesterday, b[i]) = RowOf(rows, a[i])
  <2> TAKE i \in 1..k
  <2>1. b[i] \in DOMAIN Yesterday
    BY <1>3, <1>8 DEF Rising
  <2> QED
    BY <1>11, <2>1, RowOfYesterday
<1>14. BothRead(from, to, first, a, m, b, k)
  BY <1>6, <1>7, <1>11, <1>12, <1>13 DEF BothRead
<1> QED
  BY <1>14

\* Data with the same entries of the days before t, and no other.
Alike(data, b, m, less, c, k, t) ==
    /\ \A i \in 1..m : b[i] < t => \E j \in 1..k : c[j] = b[i] /\ less[j] = data[i]
    /\ \A j \in 1..k : c[j] < t => \E i \in 1..m : c[j] = b[i]

\* Their reports show the same of the days that are over.
LEMMA PastAgrees ==
    ASSUME NEW data, NEW b, NEW m, Dated(data, b, m), NEW less, NEW c, NEW k, Dated(less, c, k),
           DayOf(now) \in Int, NEW dates, NEW zero, "timestamp" \in DOMAIN zero,
           Alike(data, b, m, less, c, k, DayOf(now))
    PROVE  Past(MappingDateArray(data, dates, zero)) = Past(MappingDateArray(less, dates, zero))
<1> DEFINE A == MappingDateArray(data, dates, zero)
           B == MappingDateArray(less, dates, zero)
<1>1. DOMAIN A = DOMAIN dates /\ DOMAIN B = DOMAIN dates
  BY DEF MappingDateArray
<1>2. \A i \in DOMAIN dates : DayOf(dates[i]) < DayOf(now) => A[i] = B[i]
  <2> DEFINE t == DayOf(now)
  <2>1. t \in Int
    OBVIOUS
  <2>2. /\ \A i \in 1..m : b[i] < t => \E j \in 1..k : c[j] = b[i] /\ less[j] = data[i]
        /\ \A j \in 1..k : c[j] < t => \E i \in 1..m : c[j] = b[i]
    BY DEF Alike
  <2> HIDE DEF t
  <2>3. \A i \in DOMAIN dates : DayOf(dates[i]) < t => A[i] = B[i]
    BY <2>1, <2>2, EntriesAgree
  <2> QED
    BY <2>3 DEF t
<1>3. ASSUME NEW i \in DOMAIN dates PROVE A[i].timestamp = dates[i] /\ B[i].timestamp = dates[i]
  <2>1. Shows(A[i], data, b, m, dates[i], zero) /\ Shows(B[i], less, c, k, dates[i], zero)
    BY EntryShown
  <2> HIDE DEF A, B
  <2>2. [zero EXCEPT !.timestamp = dates[i]].timestamp = dates[i]
    OBVIOUS
  <2>3. \A x : [Plus(zero, x) EXCEPT !.timestamp = dates[i]].timestamp = dates[i]
    BY DEF Plus
  <2> DEFINE date == dates[i]
             x == A[i]
             y == B[i]
  <2> HIDE DEF date, x, y
  <2>4. Shows(x, data, b, m, date, zero) /\ Shows(y, less, c, k, date, zero)
    BY <2>1 DEF x, y, date
  <2>5. /\ [zero EXCEPT !.timestamp = date].timestamp = date
        /\ \A z : [Plus(zero, z) EXCEPT !.timestamp = date].timestamp = date
    BY <2>2, <2>3 DEF date
  <2>6. x.timestamp = date
    <3>1. CASE \E j \in 1..m : b[j] = DayOf(date)
      <4>1. PICK j \in 1..m : b[j] = DayOf(date)
        BY <3>1
      <4>2. x = [Plus(zero, data[j]) EXCEPT !.timestamp = date]
        BY <2>4, <4>1 DEF Shows
      <4> QED
        BY <2>5, <4>2
    <3>2. CASE \A j \in 1..m : b[j] # DayOf(date)
      <4>1. x = [zero EXCEPT !.timestamp = date]
        BY <2>4, <3>2 DEF Shows
      <4> QED
        BY <2>5, <4>1
    <3> QED
      BY <3>1, <3>2
  <2>7. y.timestamp = date
    <3>1. CASE \E j \in 1..k : c[j] = DayOf(date)
      <4>1. PICK j \in 1..k : c[j] = DayOf(date)
        BY <3>1
      <4>2. y = [Plus(zero, less[j]) EXCEPT !.timestamp = date]
        BY <2>4, <4>1 DEF Shows
      <4> QED
        BY <2>5, <4>2
    <3>2. CASE \A j \in 1..k : c[j] # DayOf(date)
      <4>1. y = [zero EXCEPT !.timestamp = date]
        BY <2>4, <3>2 DEF Shows
      <4> QED
        BY <2>5, <4>1
    <3> QED
      BY <3>1, <3>2
  <2> QED
    BY <2>6, <2>7 DEF x, y, date
<1> HIDE DEF A, B
<1> DEFINE J == {j \in DOMAIN dates : DayOf(dates[j]) < DayOf(now)}
<1>4. Past(A) = [i \in J |-> A[i]] /\ Past(B) = [i \in J |-> B[i]]
  <2>1. {j \in DOMAIN A : DayOf(A[j].timestamp) < DayOf(now)} = J
    BY <1>1, <1>3
  <2>2. {j \in DOMAIN B : DayOf(B[j].timestamp) < DayOf(now)} = J
    BY <1>1, <1>3
  <2> QED
    BY <2>1, <2>2 DEF Past
<1>5. \A i \in J : A[i] = B[i]
  BY <1>2
<1> HIDE DEF J
<1> QED
  BY <1>4, <1>5 DEF A, B

\* An entry for each row of both answers, the same in both.
Continues(out, a, m, less, k) ==
    /\ DOMAIN out = 1..m /\ \A i \in 1..m : out[i].timestamp = a[i] * DayLength
    /\ DOMAIN less = 1..k /\ \A i \in 1..k : less[i] = out[i]

\* Then the reports show the same of the days that are over.
LEMMA PastPrefix ==
    ASSUME NEW from, NEW to, NEW first, NEW a, NEW m, NEW b, NEW k,
           BothRead(from, to, first, a, m, b, k), DayOf(now) \in Int,
           NEW out, NEW less, Continues(out, a, m, less, k), NEW dates, NEW zero, "timestamp" \in DOMAIN zero
    PROVE  Past(MappingDateArray(out, dates, zero)) = Past(MappingDateArray(less, dates, zero))
<1>1. /\ RowsRead(rows, Newests(rows, from, to, first), a, m)
      /\ RowsRead(Yesterday, Newests(Yesterday, from, to, first), b, k)
      /\ k <= m /\ (\A i \in 1..k : b[i] = a[i])
      /\ \A i \in 1..m : a[i] < DayOf(now) => i <= k
  BY DEF BothRead
<1>2. m \in Nat /\ k \in Nat
  BY <1>1, RowsFacts
<1>c. /\ DOMAIN out = 1..m /\ \A i \in 1..m : out[i].timestamp = a[i] * DayLength
      /\ DOMAIN less = 1..k /\ \A i \in 1..k : less[i] = out[i]
  BY DEF Continues
<1>3. Dated(out, a, m)
  BY <1>1, <1>c, TotalsDated
<1>4. Dated(less, b, k)
  <2>1. \A i \in 1..k : less[i].timestamp = b[i] * DayLength
    BY <1>1, <1>2, <1>c
  <2> QED
    BY <1>1, <1>c, <2>1, TotalsDated
<1>5. ASSUME NEW i \in 1..m, a[i] < DayOf(now)
      PROVE  \E j \in 1..k : b[j] = a[i] /\ less[j] = out[i]
  <2>1. i \in 1..k
    BY <1>1, <1>2, <1>5
  <2> QED
    BY <1>1, <1>c, <2>1
<1>6. \A j \in 1..k : b[j] < DayOf(now) => \E i \in 1..m : b[j] = a[i]
  <2> TAKE j \in 1..k
  <2>1. j \in 1..m /\ b[j] = a[j]
    BY <1>1, <1>2
  <2> QED
    BY <2>1
<1>7. \A i \in 1..m : a[i] < DayOf(now) => \E j \in 1..k : b[j] = a[i] /\ less[j] = out[i]
  BY <1>5
<1>8. Alike(out, a, m, less, b, k, DayOf(now))
  BY <1>6, <1>7 DEF Alike
<1> QED
  BY <1>3, <1>4, <1>8, PastAgrees

\* A loop over the first rows pushes the first entries.
LEMMA FeeBegins ==
    ASSUME NEW n \in Nat, NEW m \in Nat, m <= n, NEW data \in [1..n -> Rows], NEW part \in [1..m -> Rows],
           \A i \in 1..m : part[i] = data[i]
    PROVE  \A i \in 1..m : Loop(FeeEntry, part)[i] = Loop(FeeEntry, data)[i]
<1> DEFINE out == Loop(FeeEntry, data)
           less == Loop(FeeEntry, part)
<1>1. Unrolled(out, FeeEntries, n, FeeSteps(data, n)) /\ Unrolled(less, FeeEntries, m, FeeSteps(part, m))
  BY FeeLoop
<1>2. \A i \in 1..m : FeeSteps(part, m)[i] = FeeSteps(data, n)[i]
  BY DEF FeeSteps
<1> HIDE DEF out, less
<1>3. less = Prefix(out, m)
  BY <1>1, <1>2, LoopsAgree
<1>4. \A i \in 1..m : less[i] = out[i]
  BY <1>3 DEF Prefix
<1> QED
  BY <1>4 DEF out, less

LEMMA VolumeBegins ==
    ASSUME NEW n \in Nat, NEW m \in Nat, m <= n, NEW data \in [1..n -> Rows], NEW part \in [1..m -> Rows],
           \A i \in 1..m : part[i] = data[i]
    PROVE  \A i \in 1..m : Loop(VolumeEntry, part)[i] = Loop(VolumeEntry, data)[i]
<1> DEFINE out == Loop(VolumeEntry, data)
           less == Loop(VolumeEntry, part)
<1>1. Unrolled(out, FeeEntries, n, VolumeSteps(data, n)) /\ Unrolled(less, FeeEntries, m, VolumeSteps(part, m))
  BY VolumeLoop
<1>2. \A i \in 1..m : VolumeSteps(part, m)[i] = VolumeSteps(data, n)[i]
  BY DEF VolumeSteps
<1> HIDE DEF out, less
<1>3. less = Prefix(out, m)
  BY <1>1, <1>2, LoopsAgree
<1>4. \A i \in 1..m : less[i] = out[i]
  BY <1>3 DEF Prefix
<1> QED
  BY <1>4 DEF out, less

LEMMA BurnedBegins ==
    ASSUME NEW n \in Nat, NEW m \in Nat, m <= n, NEW data \in [1..n -> Rows], NEW part \in [1..m -> Rows],
           \A i \in 1..m : part[i] = data[i]
    PROVE  \A i \in 1..m : Loop(BurnedEntry, part)[i] = Loop(BurnedEntry, data)[i]
<1> DEFINE out == Loop(BurnedEntry, data)
           less == Loop(BurnedEntry, part)
<1>1. Unrolled(out, BurnedEntries, n, BurnedSteps(data, n)) /\ Unrolled(less, BurnedEntries, m, BurnedSteps(part, m))
  BY BurnedLoop
<1>2. \A i \in 1..m : BurnedSteps(part, m)[i] = BurnedSteps(data, n)[i]
  BY DEF BurnedSteps
<1> HIDE DEF out, less
<1>3. less = Prefix(out, m)
  BY <1>1, <1>2, LoopsAgree
<1>4. \A i \in 1..m : less[i] = out[i]
  BY <1>3 DEF Prefix
<1> QED
  BY <1>4 DEF out, less

LEMMA TraderBegins ==
    ASSUME NEW n \in Nat, NEW m \in Nat, m <= n, NEW data \in [1..n -> Rows], NEW part \in [1..m -> Rows],
           \A i \in 1..m : part[i] = data[i]
    PROVE  \A i \in 1..m : Loop(TraderEntry, part)[i] = Loop(TraderEntry, data)[i]
<1> DEFINE out == Loop(TraderEntry, data)
           less == Loop(TraderEntry, part)
<1>1. Unrolled(out, TraderEntries, n, TraderSteps(data, n)) /\ Unrolled(less, TraderEntries, m, TraderSteps(part, m))
  BY TraderLoop
<1>2. \A i \in 1..m : TraderSteps(part, m)[i] = TraderSteps(data, n)[i]
  BY DEF TraderSteps
<1> HIDE DEF out, less
<1>3. less = Prefix(out, m)
  BY <1>1, <1>2, LoopsAgree
<1>4. \A i \in 1..m : less[i] = out[i]
  BY <1>3 DEF Prefix
<1> QED
  BY <1>4 DEF out, less

LEMMA PoolBegins ==
    ASSUME NEW n \in Nat, NEW m \in Nat, m <= n, NEW data \in [1..n -> Rows], NEW part \in [1..m -> Rows],
           \A i \in 1..m : part[i] = data[i]
    PROVE  \A i \in 1..m : Loop(PoolEntry, part)[i] = Loop(PoolEntry, data)[i]
<1> DEFINE out == Loop(PoolEntry, data)
           less == Loop(PoolEntry, part)
<1>1. Unrolled(out, PoolEntries, n, PoolSteps(data, n)) /\ Unrolled(less, PoolEntries, m, PoolSteps(part, m))
  BY PoolLoop
<1>2. \A i \in 1..m : PoolSteps(part, m)[i] = PoolSteps(data, n)[i]
  BY DEF PoolSteps
<1> HIDE DEF out, less
<1>3. less = Prefix(out, m)
  BY <1>1, <1>2, LoopsAgree
<1>4. \A i \in 1..m : less[i] = out[i]
  BY <1>3 DEF Prefix
<1> QED
  BY <1>4 DEF out, less

LEMMA FillBegins ==
    ASSUME NEW n \in Nat, NEW m \in Nat, m <= n, NEW data \in [1..n -> PoolEntries], NEW part \in [1..m -> PoolEntries],
           \A i \in 1..m : part[i] = data[i]
    PROVE  \A i \in 1..m : Loop(Fill, part)[i] = Loop(Fill, data)[i]
<1> DEFINE out == Loop(Fill, data)
           less == Loop(Fill, part)
<1>1. Unrolled(out, PoolEntries, n, FillSteps(data, n)) /\ Unrolled(less, PoolEntries, m, FillSteps(part, m))
  BY FillLoop
<1>2. \A i \in 1..m : FillSteps(part, m)[i] = FillSteps(data, n)[i]
  BY DEF FillSteps
<1> HIDE DEF out, less
<1>3. less = Prefix(out, m)
  BY <1>1, <1>2, LoopsAgree
<1>4. \A i \in 1..m : less[i] = out[i]
  BY <1>3 DEF Prefix
<1> QED
  BY <1>4 DEF out, less

\* The rows of both answers, sorted.
LEMMA BothSorted ==
    ASSUME NEW from, NEW to, NEW first, NEW a, NEW m, NEW b, NEW k,
           BothRead(from, to, first, a, m, b, k)
    PROVE  /\ SortBy(Query(rows, from, to, first)) = RowsOf(rows, a, m)
           /\ SortBy(Query(Yesterday, from, to, first)) = RowsOf(Yesterday, b, k)
           /\ RowsRead(rows, Newests(rows, from, to, first), a, m)
           /\ RowsRead(Yesterday, Newests(Yesterday, from, to, first), b, k)
           /\ m \in Nat /\ k \in Nat /\ k <= m
           /\ RowsOf(rows, a, m) \in [1..m -> Rows] /\ RowsOf(Yesterday, b, k) \in [1..k -> Rows]
           /\ \A i \in 1..k : RowsOf(Yesterday, b, k)[i] = RowsOf(rows, a, m)[i]
           /\ \A i \in 1..m : a[i] * DayLength >= from
           /\ \A i \in 1..k : b[i] * DayLength >= from
<1>1. /\ RowsRead(rows, Newests(rows, from, to, first), a, m)
      /\ RowsRead(Yesterday, Newests(Yesterday, from, to, first), b, k)
      /\ k <= m /\ \A i \in 1..k : b[i] = a[i] /\ RowOf(Yesterday, b[i]) = RowOf(rows, a[i])
  BY DEF BothRead
<1>2. m \in Nat /\ RowsOf(rows, a, m) \in [1..m -> Rows]
  BY <1>1, RowsFacts
<1>3. k \in Nat /\ RowsOf(Yesterday, b, k) \in [1..k -> Rows]
  BY <1>1, RowsFacts
<1>4. \A i \in 1..k : RowsOf(Yesterday, b, k)[i] = RowsOf(rows, a, m)[i]
  <2> TAKE i \in 1..k
  <2>1. i \in 1..m /\ RowOf(Yesterday, b[i]) = RowOf(rows, a[i])
    BY <1>1, <1>2, <1>3
  <2> QED
    BY <2>1 DEF RowsOf
<1>5. /\ SortBy(Query(rows, from, to, first)) = RowsOf(rows, a, m)
      /\ SortBy(Query(Yesterday, from, to, first)) = RowsOf(Yesterday, b, k)
  BY DEF BothRead, Sorted
<1> QED
  BY <1>1, <1>2, <1>3, <1>4, <1>5 DEF BothRead

\* Each report shows the same of the days that are over without today's row.
LEMMA FeePast ==
    ASSUME IInv, NEW from, NEW to, Cardinality(RowsIn(from, to)) <= RowLimit
    PROVE  Past(FeeStats(rows, from, to)) = Past(FeeStats(Yesterday, from, to))
<1>0. RowLimit \in Nat /\ DayOf(now) \in Int
  BY InvTable, ReportsAssumption
<1>1. PICK a, m, b, k : BothRead(from, to, RowLimit, a, m, b, k)
  BY <1>0, YesterdayRead
<1> DEFINE raw == Query(rows, from, to, RowLimit)
           old == Query(Yesterday, from, to, RowLimit)
           P == Newests(rows, from, to, RowLimit)
           Q == Newests(Yesterday, from, to, RowLimit)
           out == Loop(FeeEntry, RowsOf(rows, a, m))
           less == Loop(FeeEntry, RowsOf(Yesterday, b, k))
           dates == Dates(from, to)
           zero == Zeros(AverageFields)
<1>2. /\ SortBy(raw) = RowsOf(rows, a, m) /\ SortBy(old) = RowsOf(Yesterday, b, k)
      /\ RowsRead(rows, P, a, m) /\ RowsRead(Yesterday, Q, b, k)
      /\ m \in Nat /\ k \in Nat /\ k <= m
      /\ RowsOf(rows, a, m) \in [1..m -> Rows] /\ RowsOf(Yesterday, b, k) \in [1..k -> Rows]
      /\ \A i \in 1..k : RowsOf(Yesterday, b, k)[i] = RowsOf(rows, a, m)[i]
      /\ \A i \in 1..m : a[i] * DayLength >= from
      /\ \A i \in 1..k : b[i] * DayLength >= from
  BY <1>1, BothSorted
<1> HIDE DEF raw, old, P, Q
<1>3. CalcFeesData(from, raw) = out
  BY <1>2, FeesKept
<1>4. CalcFeesData(from, old) = less
  BY <1>2, FeesKept
<1>5. \A i \in 1..k : less[i] = out[i]
  BY <1>2, FeeBegins
<1>6. DOMAIN out = 1..m /\ \A i \in 1..m : out[i].timestamp = a[i] * DayLength
  BY <1>2, FeesAre DEF Totals
<1>7. DOMAIN less = 1..k
  BY <1>2, FeesAre DEF Totals
<1>8. "timestamp" \in DOMAIN zero
  BY DEF Zeros, AverageFields
<1>9. /\ FeeStats(rows, from, to) = MappingDateArray(out, dates, zero)
      /\ FeeStats(Yesterday, from, to) = MappingDateArray(less, dates, zero)
  BY <1>3, <1>4 DEF FeeStats, raw, old
<1> HIDE DEF out, less, dates, zero
<1>c. Continues(out, a, m, less, k)
  BY <1>5, <1>6, <1>7 DEF Continues
<1>10. Past(MappingDateArray(out, dates, zero)) = Past(MappingDateArray(less, dates, zero))
  BY <1>0, <1>1, <1>8, <1>c, PastPrefix
<1> QED
  BY <1>9, <1>10

LEMMA VolumePast ==
    ASSUME IInv, NEW from, NEW to, Cardinality(RowsIn(from, to)) <= RowLimit
    PROVE  Past(VolumeStats(rows, from, to)) = Past(VolumeStats(Yesterday, from, to))
<1>0. RowLimit \in Nat /\ DayOf(now) \in Int
  BY InvTable, ReportsAssumption
<1>1. PICK a, m, b, k : BothRead(from, to, RowLimit, a, m, b, k)
  BY <1>0, YesterdayRead
<1> DEFINE raw == Query(rows, from, to, RowLimit)
           old == Query(Yesterday, from, to, RowLimit)
           P == Newests(rows, from, to, RowLimit)
           Q == Newests(Yesterday, from, to, RowLimit)
           out == Loop(VolumeEntry, RowsOf(rows, a, m))
           less == Loop(VolumeEntry, RowsOf(Yesterday, b, k))
           dates == Dates(from, to)
           zero == Zeros(AverageFields)
<1>2. /\ SortBy(raw) = RowsOf(rows, a, m) /\ SortBy(old) = RowsOf(Yesterday, b, k)
      /\ RowsRead(rows, P, a, m) /\ RowsRead(Yesterday, Q, b, k)
      /\ m \in Nat /\ k \in Nat /\ k <= m
      /\ RowsOf(rows, a, m) \in [1..m -> Rows] /\ RowsOf(Yesterday, b, k) \in [1..k -> Rows]
      /\ \A i \in 1..k : RowsOf(Yesterday, b, k)[i] = RowsOf(rows, a, m)[i]
      /\ \A i \in 1..m : a[i] * DayLength >= from
      /\ \A i \in 1..k : b[i] * DayLength >= from
  BY <1>1, BothSorted
<1> HIDE DEF raw, old, P, Q
<1>3. CalcVolumesData(raw) = out
  BY <1>2 DEF CalcVolumesData
<1>4. CalcVolumesData(old) = less
  BY <1>2 DEF CalcVolumesData
<1>5. \A i \in 1..k : less[i] = out[i]
  BY <1>2, VolumeBegins
<1>6. DOMAIN out = 1..m /\ \A i \in 1..m : out[i].timestamp = a[i] * DayLength
  BY <1>2, VolumesAre DEF Totals
<1>7. DOMAIN less = 1..k
  BY <1>2, VolumesAre DEF Totals
<1>8. "timestamp" \in DOMAIN zero
  BY DEF Zeros, AverageFields
<1>9. /\ VolumeStats(rows, from, to) = MappingDateArray(out, dates, zero)
      /\ VolumeStats(Yesterday, from, to) = MappingDateArray(less, dates, zero)
  BY <1>3, <1>4 DEF VolumeStats, raw, old
<1> HIDE DEF out, less, dates, zero
<1>c. Continues(out, a, m, less, k)
  BY <1>5, <1>6, <1>7 DEF Continues
<1>10. Past(MappingDateArray(out, dates, zero)) = Past(MappingDateArray(less, dates, zero))
  BY <1>0, <1>1, <1>8, <1>c, PastPrefix
<1> QED
  BY <1>9, <1>10

LEMMA BurnedPast ==
    ASSUME IInv, NEW from, NEW to, Cardinality(RowsIn(from, to)) <= RowLimit
    PROVE  Past(BurnedETRs(rows, from, to)) = Past(BurnedETRs(Yesterday, from, to))
<1>0. RowLimit \in Nat /\ DayOf(now) \in Int
  BY InvTable, ReportsAssumption
<1>1. PICK a, m, b, k : BothRead(from, to, RowLimit, a, m, b, k)
  BY <1>0, YesterdayRead
<1> DEFINE raw == Query(rows, from, to, RowLimit)
           old == Query(Yesterday, from, to, RowLimit)
           P == Newests(rows, from, to, RowLimit)
           Q == Newests(Yesterday, from, to, RowLimit)
           out == Loop(BurnedEntry, RowsOf(rows, a, m))
           less == Loop(BurnedEntry, RowsOf(Yesterday, b, k))
           dates == Dates(from, to)
           zero == Zeros(BurnedFields)
<1>2. /\ SortBy(raw) = RowsOf(rows, a, m) /\ SortBy(old) = RowsOf(Yesterday, b, k)
      /\ RowsRead(rows, P, a, m) /\ RowsRead(Yesterday, Q, b, k)
      /\ m \in Nat /\ k \in Nat /\ k <= m
      /\ RowsOf(rows, a, m) \in [1..m -> Rows] /\ RowsOf(Yesterday, b, k) \in [1..k -> Rows]
      /\ \A i \in 1..k : RowsOf(Yesterday, b, k)[i] = RowsOf(rows, a, m)[i]
      /\ \A i \in 1..m : a[i] * DayLength >= from
      /\ \A i \in 1..k : b[i] * DayLength >= from
  BY <1>1, BothSorted
<1> HIDE DEF raw, old, P, Q
<1>3. CalcBurned(from, raw) = out
  BY <1>2, BurnedKept
<1>4. CalcBurned(from, old) = less
  BY <1>2, BurnedKept
<1>5. \A i \in 1..k : less[i] = out[i]
  BY <1>2, BurnedBegins
<1>6. DOMAIN out = 1..m /\ \A i \in 1..m : out[i].timestamp = a[i] * DayLength
  BY <1>2, BurnedAre DEF Totals
<1>7. DOMAIN less = 1..k
  BY <1>2, BurnedAre DEF Totals
<1>8. "timestamp" \in DOMAIN zero
  BY DEF Zeros, BurnedFields
<1>9. /\ BurnedETRs(rows, from, to) = MappingDateArray(out, dates, zero)
      /\ BurnedETRs(Yesterday, from, to) = MappingDateArray(less, dates, zero)
  BY <1>3, <1>4 DEF BurnedETRs, raw, old
<1> HIDE DEF out, less, dates, zero
<1>c. Continues(out, a, m, less, k)
  BY <1>5, <1>6, <1>7 DEF Continues
<1>10. Past(MappingDateArray(out, dates, zero)) = Past(MappingDateArray(less, dates, zero))
  BY <1>0, <1>1, <1>8, <1>c, PastPrefix
<1> QED
  BY <1>9, <1>10

LEMMA TraderPast ==
    ASSUME IInv, NEW from, NEW to, Cardinality(RowsIn(from, to)) <= RowLimit
    PROVE  Past(TradingStats(rows, from, to)) = Past(TradingStats(Yesterday, from, to))
<1>0. RowLimit \in Nat /\ DayOf(now) \in Int
  BY InvTable, ReportsAssumption
<1>1. PICK a, m, b, k : BothRead(from, to, RowLimit, a, m, b, k)
  BY <1>0, YesterdayRead
<1> DEFINE raw == Query(rows, from, to, RowLimit)
           old == Query(Yesterday, from, to, RowLimit)
           P == Newests(rows, from, to, RowLimit)
           Q == Newests(Yesterday, from, to, RowLimit)
           out == Loop(TraderEntry, RowsOf(rows, a, m))
           less == Loop(TraderEntry, RowsOf(Yesterday, b, k))
           dates == Dates(from, to)
           zero == Zeros(TraderFields)
<1>2. /\ SortBy(raw) = RowsOf(rows, a, m) /\ SortBy(old) = RowsOf(Yesterday, b, k)
      /\ RowsRead(rows, P, a, m) /\ RowsRead(Yesterday, Q, b, k)
      /\ m \in Nat /\ k \in Nat /\ k <= m
      /\ RowsOf(rows, a, m) \in [1..m -> Rows] /\ RowsOf(Yesterday, b, k) \in [1..k -> Rows]
      /\ \A i \in 1..k : RowsOf(Yesterday, b, k)[i] = RowsOf(rows, a, m)[i]
      /\ \A i \in 1..m : a[i] * DayLength >= from
      /\ \A i \in 1..k : b[i] * DayLength >= from
  BY <1>1, BothSorted
<1> HIDE DEF raw, old, P, Q
<1>3. CalcTradersData(raw) = out
  BY <1>2 DEF CalcTradersData
<1>4. CalcTradersData(old) = less
  BY <1>2 DEF CalcTradersData
<1>5. \A i \in 1..k : less[i] = out[i]
  BY <1>2, TraderBegins
<1>6. DOMAIN out = 1..m /\ \A i \in 1..m : out[i].timestamp = a[i] * DayLength
  BY <1>2, TradersAre DEF Traded
<1>7. DOMAIN less = 1..k
  BY <1>2, TradersAre DEF Traded
<1>8. "timestamp" \in DOMAIN zero
  BY DEF Zeros, TraderFields
<1>9. /\ TradingStats(rows, from, to) = MappingDateArray(out, dates, zero)
      /\ TradingStats(Yesterday, from, to) = MappingDateArray(less, dates, zero)
  BY <1>3, <1>4 DEF TradingStats, raw, old
<1> HIDE DEF out, less, dates, zero
<1>c. Continues(out, a, m, less, k)
  BY <1>5, <1>6, <1>7 DEF Continues
<1>10. Past(MappingDateArray(out, dates, zero)) = Past(MappingDateArray(less, dates, zero))
  BY <1>0, <1>1, <1>8, <1>c, PastPrefix
<1> QED
  BY <1>9, <1>10

LEMMA PoolPast ==
    ASSUME IInv, NEW from, NEW to, Cardinality(RowsIn(from, to)) <= PoolPage
    PROVE  Past(PoolStats(rows, from, to)) = Past(PoolStats(Yesterday, from, to))
<1>0. PoolPage \in Nat /\ DayOf(now) \in Int
  BY InvTable, ReportsAssumption
<1>1. PICK a, m, b, k : BothRead(from, to, PoolPage, a, m, b, k)
  BY <1>0, YesterdayRead
<1> DEFINE raw == Query(rows, from, to, PoolPage)
           old == Query(Yesterday, from, to, PoolPage)
           P == Newests(rows, from, to, PoolPage)
           Q == Newests(Yesterday, from, to, PoolPage)
           gaps == Loop(PoolEntry, RowsOf(rows, a, m))
           part == Loop(PoolEntry, RowsOf(Yesterday, b, k))
           out == FillNa(gaps)
           less == FillNa(part)
           dates == Dates(from, to)
           zero == Zeros(PoolFields)
<1>2. /\ SortBy(raw) = RowsOf(rows, a, m) /\ SortBy(old) = RowsOf(Yesterday, b, k)
      /\ RowsRead(rows, P, a, m) /\ RowsRead(Yesterday, Q, b, k)
      /\ m \in Nat /\ k \in Nat /\ k <= m
      /\ RowsOf(rows, a, m) \in [1..m -> Rows] /\ RowsOf(Yesterday, b, k) \in [1..k -> Rows]
      /\ \A i \in 1..k : RowsOf(Yesterday, b, k)[i] = RowsOf(rows, a, m)[i]
  BY <1>1, BothSorted
<1> HIDE DEF raw, old, P, Q
<1>3. CalcPoolStats(raw) = out /\ CalcPoolStats(old) = less
  BY <1>2 DEF CalcPoolStats
<1>4. \A i \in 1..k : part[i] = gaps[i]
  BY <1>2, PoolBegins
<1>5. gaps \in [1..m -> PoolEntries] /\ part \in [1..k -> PoolEntries]
  <2>1. gaps \in Seq(PoolEntries) /\ Len(gaps) = m
    BY <1>2, PoolUnfolds
  <2>2. part \in Seq(PoolEntries) /\ Len(part) = k
    BY <1>2, PoolUnfolds
  <2> HIDE DEF gaps, part
  <2> QED
    BY <2>1, <2>2
<1>6. DOMAIN out = 1..m /\ \A i \in 1..m : out[i].timestamp = a[i] * DayLength
  BY <1>2, PoolAre DEF Pooled
<1>7. DOMAIN less = 1..k
  BY <1>2, PoolAre DEF Pooled
<1> HIDE DEF gaps, part
<1>8. \A i \in 1..k : less[i] = out[i]
  BY <1>2, <1>4, <1>5, FillBegins DEF FillNa
<1>9. "timestamp" \in DOMAIN zero
  BY DEF Zeros, PoolFields
<1>10. /\ PoolStats(rows, from, to) = MappingDateArray(out, dates, zero)
       /\ PoolStats(Yesterday, from, to) = MappingDateArray(less, dates, zero)
  BY <1>3 DEF PoolStats, raw, old
<1> HIDE DEF out, less, dates, zero
<1>c. Continues(out, a, m, less, k)
  BY <1>6, <1>7, <1>8 DEF Continues
<1>11. Past(MappingDateArray(out, dates, zero)) = Past(MappingDateArray(less, dates, zero))
  BY <1>0, <1>1, <1>9, <1>c, PastPrefix
<1> QED
  BY <1>10, <1>11

\* The rows of the users, which are not sorted: the newest first.
Backwards(a, m) == [i \in 1..m |-> a[m + 1 - i]]

\* There is one row a day.
LEMMA UsersDated ==
    ASSUME NEW table, NEW P, NEW a, NEW m, RowsRead(table, P, a, m), NEW s, Sorted(s, table, P, a, m)
    PROVE  /\ Dated(UserRows(s), Backwards(a, m), m)
           /\ \A i \in 1..m : UserRows(s)[i] = UserRow(RowOf(table, a[m + 1 - i]))
<1>1. m \in Nat /\ \A i \in 1..m : a[i] \in DOMAIN table /\ a[i] \in Nat /\ a[i] \in P
  BY RowsFacts
<1>2. s = [i \in 1..m |-> RowOf(table, a[m + 1 - i])] /\ Rising(a, P, m)
  BY DEF Sorted
<1>3. \A i \in 1..m : m + 1 - i \in 1..m
  BY <1>1
<1>4. DOMAIN UserRows(s) = 1..m /\ \A i \in 1..m : UserRows(s)[i] = UserRow(RowOf(table, a[m + 1 - i]))
  BY <1>2 DEF UserRows
<1>5. \A i \in 1..m : UserRows(s)[i].timestamp = a[m + 1 - i] * DayLength
  BY <1>4 DEF UserRow, RowOf
<1>6. \A i, j \in 1..m : a[i] = a[j] => i = j
  <2> TAKE i, j \in 1..m
  <2>1. (i < j => a[i] < a[j]) /\ (j < i => a[j] < a[i])
    BY <1>2 DEF Rising
  <2>2. a[i] \in Nat /\ a[j] \in Nat
    BY <1>1
  <2> QED
    BY <2>1, <2>2
<1> DEFINE b == Backwards(a, m)
<1>7. ASSUME NEW i \in 1..m, NEW j \in 1..m, b[i] = b[j] PROVE i = j
  <2>1. m + 1 - i \in 1..m /\ m + 1 - j \in 1..m /\ a[m + 1 - i] = a[m + 1 - j]
    BY <1>3, <1>7 DEF Backwards
  <2>2. m + 1 - i = m + 1 - j
    BY <1>6, <2>1
  <2> QED
    BY <1>1, <2>2
<1>8. \A i \in 1..m : b[i] \in Int /\ UserRows(s)[i].timestamp = b[i] * DayLength
  BY <1>1, <1>3, <1>5 DEF Backwards
<1> HIDE DEF b
<1>9. Dated(UserRows(s), b, m)
  BY <1>1, <1>4, <1>7, <1>8 DEF Dated
<1> QED
  BY <1>4, <1>9 DEF b

\* The same of the report of the users, which no loop makes.
LEMMA UserPast ==
    ASSUME IInv, NEW from, NEW to, Cardinality(RowsIn(from, to)) <= RowLimit
    PROVE  Past(UserStats(rows, from, to)) = Past(UserStats(Yesterday, from, to))
<1>0. RowLimit \in Nat /\ DayOf(now) \in Int
  BY InvTable, ReportsAssumption
<1>1. PICK a, m, b, k : BothRead(from, to, RowLimit, a, m, b, k)
  BY <1>0, YesterdayRead
<1> DEFINE raw == Query(rows, from, to, RowLimit)
           old == Query(Yesterday, from, to, RowLimit)
           P == Newests(rows, from, to, RowLimit)
           Q == Newests(Yesterday, from, to, RowLimit)
           c == Backwards(a, m)
           d == Backwards(b, k)
           dates == Dates(from, to)
           zero == Zeros(UserFields)
<1>2. /\ Sorted(raw, rows, P, a, m) /\ Sorted(old, Yesterday, Q, b, k)
      /\ RowsRead(rows, P, a, m) /\ RowsRead(Yesterday, Q, b, k)
      /\ (\A i \in 1..k : b[i] = a[i] /\ RowOf(Yesterday, b[i]) = RowOf(rows, a[i]))
      /\ \A i \in 1..m : a[i] < DayOf(now) => i <= k
  BY <1>1 DEF BothRead
<1>3. m \in Nat /\ k \in Nat /\ k <= m
  BY <1>1, BothSorted
<1> HIDE DEF raw, old, P, Q
<1> DEFINE out == UserRows(raw)
           less == UserRows(old)
<1>4. Dated(out, c, m) /\ \A i \in 1..m : out[i] = UserRow(RowOf(rows, a[m + 1 - i]))
  BY <1>2, UsersDated
<1>5. Dated(less, d, k) /\ \A i \in 1..k : less[i] = UserRow(RowOf(Yesterday, b[k + 1 - i]))
  BY <1>2, UsersDated
<1> DEFINE t == DayOf(now)
<1> HIDE DEF out, less, t
<1>6. ASSUME NEW i \in 1..m, c[i] < t PROVE \E j \in 1..k : d[j] = c[i] /\ less[j] = out[i]
  <2> DEFINE x == m + 1 - i
             j == k + 1 - x
  <2>1. x \in 1..m /\ c[i] = a[x] /\ x \in Int
    BY <1>3 DEF Backwards
  <2>2. x <= k
    BY <1>2, <1>6, <2>1 DEF t
  <2>3. j \in 1..k /\ k + 1 - j = x /\ x \in 1..k
    BY <1>3, <2>1, <2>2
  <2>4. d[j] = b[x]
    BY <2>3 DEF Backwards
  <2> HIDE DEF j
  <2>5. less[j] = UserRow(RowOf(Yesterday, b[x]))
    BY <1>5, <2>3
  <2>6. out[i] = UserRow(RowOf(rows, a[x]))
    BY <1>4
  <2> HIDE DEF x, c, d
  <2>7. b[x] = a[x] /\ RowOf(Yesterday, b[x]) = RowOf(rows, a[x])
    BY <1>2, <2>3
  <2>8. d[j] = c[i] /\ less[j] = out[i]
    BY <2>1, <2>4, <2>5, <2>6, <2>7
  <2> QED
    BY <2>3, <2>8
<1>7. ASSUME NEW j \in 1..k PROVE \E i \in 1..m : d[j] = c[i]
  <2> DEFINE x == k + 1 - j
             i == m + 1 - x
  <2>1. x \in 1..k /\ d[j] = b[x] /\ x \in 1..m
    BY <1>3 DEF Backwards
  <2>2. i \in 1..m /\ m + 1 - i = x
    BY <1>3, <2>1
  <2>3. c[i] = a[x]
    BY <2>2 DEF Backwards
  <2>4. b[x] = a[x]
    BY <1>2, <2>1
  <2> HIDE DEF x, i, c, d
  <2>5. d[j] = c[i]
    BY <2>1, <2>3, <2>4
  <2> QED
    BY <2>2, <2>5
<1> HIDE DEF c, d
<1>8. Alike(out, c, m, less, d, k, DayOf(now))
  BY <1>6, <1>7 DEF Alike, t
<1>9. "timestamp" \in DOMAIN zero
  BY DEF Zeros, UserFields
<1>10. /\ UserStats(rows, from, to) = MappingDateArray(out, dates, zero)
       /\ UserStats(Yesterday, from, to) = MappingDateArray(less, dates, zero)
  BY DEF UserStats, raw, old, out, less
<1> HIDE DEF dates, zero
<1>11. Past(MappingDateArray(out, dates, zero)) = Past(MappingDateArray(less, dates, zero))
  BY <1>0, <1>4, <1>5, <1>8, <1>9, PastAgrees
<1> QED
  BY <1>10, <1>11

\* No report of a day that is over depends on today's row.
LEMMA InvPast == IInv => PastDaysStable
<1> SUFFICES ASSUME IInv PROVE PastDaysStable
  OBVIOUS
<1>1. ASSUME NEW r \in Requests
      PROVE  /\ Cardinality(RowsIn(r[1], r[2])) <= RowLimit =>
                    /\ Past(FeeStats(rows, r[1], r[2])) = Past(FeeStats(Yesterday, r[1], r[2]))
                    /\ Past(VolumeStats(rows, r[1], r[2])) = Past(VolumeStats(Yesterday, r[1], r[2]))
                    /\ Past(BurnedETRs(rows, r[1], r[2])) = Past(BurnedETRs(Yesterday, r[1], r[2]))
                    /\ Past(TradingStats(rows, r[1], r[2])) = Past(TradingStats(Yesterday, r[1], r[2]))
                    /\ Past(UserStats(rows, r[1], r[2])) = Past(UserStats(Yesterday, r[1], r[2]))
             /\ Cardinality(RowsIn(r[1], r[2])) <= PoolPage =>
                    Past(PoolStats(rows, r[1], r[2])) = Past(PoolStats(Yesterday, r[1], r[2]))
  BY FeePast, VolumePast, BurnedPast, TraderPast, UserPast, PoolPast
<1> QED
  BY <1>1 DEF PastDaysStable

-----------------------------------------------------------------------------
(* The ids of the leaderboard *)

\* How the offset of a request becomes an id, for a tournament that began at start, counts in
\* units of length n and has come to its count-th: an offset of 0 counts as none.
OffsetId(n, at, count, k) == (at - Back(count - k, n)) \div n
OffsetIds(n, start, at, count) ==
    /\ count \in Nat \ {0}
    /\ (at - Back(0, n)) \div n = at \div n
    /\ OffsetId(n, at, count, count) = at \div n
    /\ \A k \in 1..count :
          /\ OffsetId(n, at, count, k) \in {start \div n + k - 1, start \div n + k}
          /\ k < count => OffsetId(n, at, count, k + 1) = OffsetId(n, at, count, k) + 1

LEMMA IdOfOffset ==
    \A n \in Nat \ {0}, start \in Nat, at \in Nat :
       start <= at => OffsetIds(n, start, at, (at - start) \div n + 1)
<1> TAKE n \in Nat \ {0}, start \in Nat, at \in Nat
<1> HAVE start <= at
<1> DEFINE q == (at - start) \div n
           p == at \div n
           s == start \div n
<1>1. q \in Int /\ q * n <= at - start /\ at - start < q * n + n
  BY DivBounds
<1>2. q \in Nat
  <2>1. ASSUME q < 0 PROVE FALSE
    <3>1. (q + 1) * n <= 0
      BY <2>1, <1>1
    <3> QED
      BY <3>1, <1>1
  <2> QED
    BY <1>1, <2>1
<1>3. p \in Int /\ s \in Int /\ q \in {p - s, p - s - 1}
  BY DivMinus, DivBounds
<1>4. \A k \in Int : k <= q + 1 => (at - Back(q + 1 - k, n)) \div n = p - (q + 1 - k)
  <2> TAKE k \in Int
  <2> HAVE k <= q + 1
  <2>1. CASE k = q + 1
    BY <2>1, <1>2, <1>3 DEF Back
  <2>2. CASE k < q + 1
    <3> DEFINE j == q + 1 - k
    <3>1. j \in Int /\ j > 0
      BY <2>2, <1>2
    <3> HIDE DEF j, q
    <3>2. Back(j, n) = j * n
      BY <3>1 DEF Back
    <3>3. p \in Int /\ p * n <= at /\ at < p * n + n
      BY DivBounds
    <3> HIDE DEF p
    <3>4. (p - j) * n = p * n - j * n
      BY <3>1, <3>3
    <3>5. (at - j * n) \div n = p - j
      BY <3>1, <3>3, <3>4, DivUnique
    <3> QED
      BY <3>2, <3>5 DEF j
  <2> QED
    BY <2>1, <2>2, <1>2
<1>5. (at - Back(0, n)) \div n = p
  BY DEF Back
<1> DEFINE id(k) == (at - Back(q + 1 - k, n)) \div n
<1>7. \A k \in Int : k <= q + 1 => id(k) = p - (q + 1 - k)
  BY <1>4
<1> HIDE DEF q, p, s, id
<1>8. /\ q + 1 \in Nat \ {0} /\ id(q + 1) = p
      /\ \A k \in 1..(q + 1) :
            id(k) \in {s + k - 1, s + k} /\ (k < q + 1 => id(k + 1) = id(k) + 1)
  BY <1>2, <1>3, <1>7
<1>6. /\ q + 1 \in Nat \ {0}
      /\ (at - Back(q + 1 - (q + 1), n)) \div n = p
      /\ \A k \in 1..(q + 1) :
            /\ (at - Back(q + 1 - k, n)) \div n \in {s + k - 1, s + k}
            /\ k < q + 1 => (at - Back(q + 1 - (k + 1), n)) \div n
                               = (at - Back(q + 1 - k, n)) \div n + 1
  BY <1>8 DEF id
<1> QED
  BY <1>5, <1>6 DEF q, p, s, OffsetIds, OffsetId

\* The time left: of a day it ends with the day; of a week on a Sunday, within a week, where
\* the weekly id does not change unless the epoch's weeks begin on a Monday.
LEMMA TimeLeft ==
    ASSUME NEW at \in Nat
    PROVE  /\ DayId(EndOfDay(at), 0) = DayId(at, 0) + 1
           /\ DayId(EndOfDay(at) - 1, 0) = DayId(at, 0)
           /\ EndOfWeek(at) - at \in 1..WeekLength
           /\ Weekday(EndOfWeek(at)) = 1
           /\ FirstWeekday # 1 => WeekId(EndOfWeek(at), 0) = WeekId(EndOfWeek(at) - 1, 0)
<1> DEFINE n == DayLength
           m == WeekDays
           d == at \div n
           f == FirstWeekday - 1
           w == (d + f) % m
           e == d - w + m
<1>1. n \in Nat \ {0} /\ m \in Nat \ {0} /\ f \in 0..(m - 1)
  BY CalendarAssumption
<1>2. d \in Int /\ d * n <= at /\ at < d * n + n
  BY <1>1, DivBounds
<1>3. w \in 0..(m - 1)
  BY <1>1, <1>2
<1>4. EndOfDay(at) = (d + 1) * n
  BY DEF EndOfDay, DayOf
<1>5. DayId(EndOfDay(at), 0) = d + 1 /\ DayId(at, 0) = d
  <2>1. ((d + 1) * n) \div n = d + 1
    BY <1>1, <1>2, DivOfMultiple
  <2>2. (d + 1) * n - 0 = (d + 1) * n /\ at - 0 = at
    BY <1>1, <1>2
  <2> QED
    BY <2>1, <2>2, <1>4 DEF DayId, Back
<1>6. DayId(EndOfDay(at) - 1, 0) = d
  <2>1. (d + 1) * n - 1 \in Int /\ (d + 1) * n = d * n + n
    BY <1>1, <1>2
  <2>2. ((d + 1) * n - 1) \div n = d
    BY <2>1, <1>1, <1>2, DivUnique
  <2> QED
    BY <2>1, <2>2, <1>4 DEF DayId, Back
<1>7. EndOfWeek(at) = e * n
  <2>1. Weekday(at) = w + 1
    <3>1. d + FirstWeekday - 1 = d + f
      BY <1>1, <1>2, CalendarAssumption
    <3> QED
      BY <3>1 DEF Weekday, DayOf
  <2>2. d - (w + 1) + m + 1 = e
    BY <1>1, <1>2, <1>3
  <2> QED
    BY <2>1, <2>2 DEF EndOfWeek, DayOf
<1>8. e \in Int /\ e >= d + 1 /\ e <= d + m /\ (e + f) % m = 0
  <2> DEFINE c == d + f
  <2>1. c \in Int
    BY <1>1, <1>2
  <2> HIDE DEF c
  <2>2. (c - (c % m) + m) % m = 0
    BY <2>1, <1>1, NextMultiple
  <2>3. e + f = c - (c % m) + m
    BY <1>1, <1>2, <1>3 DEF c
  <2> QED
    BY <2>2, <2>3, <1>1, <1>2, <1>3
<1> HIDE DEF e, w
<1>9. EndOfWeek(at) - at \in 1..WeekLength
  <2>1. (d + 1) * n <= e * n /\ e * n <= (d + m) * n
    BY <1>1, <1>2, <1>8
  <2>2. (d + 1) * n = d * n + n /\ (d + m) * n = d * n + m * n
    BY <1>1, <1>2
  <2> QED
    BY <2>1, <2>2, <1>1, <1>2, <1>7, <1>8 DEF WeekLength
<1>10. Weekday(EndOfWeek(at)) = 1
  <2>1. (e * n) \div n = e
    BY <1>1, <1>8, DivOfMultiple
  <2>2. e + FirstWeekday - 1 = e + f
    BY <1>8, CalendarAssumption
  <2> QED
    BY <2>1, <2>2, <1>7, <1>8 DEF Weekday, DayOf
<1>11. ASSUME FirstWeekday # 1
       PROVE  WeekId(EndOfWeek(at), 0) = WeekId(EndOfWeek(at) - 1, 0)
  <2>1. e % m # 0
    <3> DEFINE q == e \div m
               r == (e + f) \div m
    <3>1. q \in Int /\ r \in Int /\ e % m = e - q * m /\ (e + f) % m = e + f - r * m
      BY <1>1, <1>8
    <3>2. f \in 1..(m - 1)
      BY <1>1, <1>11, CalendarAssumption
    <3> HIDE DEF q, r
    <3>3. ASSUME e % m = 0 PROVE FALSE
      <4>1. f = (r - q) * m
        BY <3>1, <3>2, <3>3, <1>1, <1>8
      <4>2. r - q >= 1 \/ r - q <= 0
        BY <3>1
      <4>3. r - q >= 1 => (r - q) * m >= m
        BY <3>1, <1>1
      <4>4. r - q <= 0 => (r - q) * m <= 0
        BY <3>1, <1>1
      <4> QED
        BY <4>1, <4>2, <4>3, <4>4, <3>1, <3>2, <1>1
    <3> QED
      BY <3>3
  <2>2. (e * n) \div (m * n) = e \div m /\ (e * n - 1) \div (m * n) = e \div m
    <3> DEFINE x == e * n
               y == m * n
    <3>1. x \in Int /\ y \in Int
      BY <1>1, <1>8
    <3> HIDE DEF n, m
    <3>2. x = e * n /\ y = m * n
      OBVIOUS
    <3> HIDE DEF x, y
    <3>3. x \div y = e \div m /\ (x - 1) \div y = e \div m
      BY <2>1, <1>1, <1>8, <3>1, <3>2, DivOfProduct
    <3> QED
      BY <3>3 DEF x, y
  <2>3. e * n - 0 = e * n /\ e * n - 1 - 0 = e * n - 1
    BY <1>1, <1>8
  <2> QED
    BY <2>2, <2>3, <1>7 DEF WeekId, Back, WeekLength
<1> QED
  BY <1>5, <1>6, <1>9, <1>10, <1>11
-----------------------------------------------------------------------------
(* The days and weeks the tournaments name *)

\* Both tournaments have begun, and the time is one the subgraph can have rows of.
ClockInv == now \in Nat /\ WeeklyStart <= now

\* What the clock says is all the ids depend on.
LEMMA ClockNamesDays == ClockInv => OffsetsNameDays
<1> SUFFICES ASSUME ClockInv PROVE OffsetsNameDays
  OBVIOUS
<1> USE DEF NoOffset
<1>1. /\ now \in Nat /\ DailyStart \in Nat /\ WeeklyStart \in Nat
      /\ DailyStart <= now /\ WeeklyStart <= now
      /\ DayLength \in Nat \ {0} /\ WeekLength \in Nat \ {0}
  BY CalendarAssumption DEF ClockInv, WeekLength
<1> DEFINE days  == (now - DailyStart) \div DayLength + 1
           weeks == (now - WeeklyStart) \div WeekLength + 1
<1>14. days = (now - DailyStart) \div DayLength + 1 /\ weeks = (now - WeeklyStart) \div WeekLength + 1
  OBVIOUS
<1>15. days >= weeks
  <2>1. now - WeeklyStart <= now - DailyStart /\ now - WeeklyStart \in Nat /\ now - DailyStart \in Nat
    BY <1>1, CalendarAssumption
  <2>2. DayLength <= WeekLength
    BY CalendarAssumption DEF WeekLength
  <2>3. (now - WeeklyStart) \div WeekLength <= (now - DailyStart) \div DayLength
    BY <2>1, <2>2, <1>1, DivMono
  <2>4. (now - WeeklyStart) \div WeekLength \in Int /\ (now - DailyStart) \div DayLength \in Int
    BY <2>1, <1>1, DivBounds
  <2> QED
    BY <2>3, <2>4
<1> HIDE DEF days, weeks
<1>2. OffsetIds(DayLength, DailyStart, now, days)
  BY <1>1, IdOfOffset DEF days
<1>3. OffsetIds(WeekLength, WeeklyStart, now, weeks)
  BY <1>1, IdOfOffset DEF weeks
<1>4. DayOfTournament(now) = days /\ WeekOfTournament(now) = weeks
  BY <1>14 DEF DayOfTournament, WeekOfTournament
<1>5. /\ CurrentDayIndex(now, 0) = days /\ CurrentWeekIndex(now, 0) = weeks
      /\ CurrentDayIndex(now, NoOffset) = 0 /\ CurrentWeekIndex(now, NoOffset) = 0
      /\ \A k \in Nat : CurrentDayIndex(now, k) = days - k /\ CurrentWeekIndex(now, k) = weeks - k
  BY <1>2, <1>3, <1>4 DEF CurrentDayIndex, CurrentWeekIndex, OffsetIds
<1>6. /\ LeaderboardDay(NoOffset) = now \div DayLength
      /\ LeaderboardWeek(NoOffset) = now \div WeekLength
      /\ \A k \in Nat : /\ LeaderboardDay(k) = OffsetId(DayLength, now, days, k)
                        /\ LeaderboardWeek(k) = OffsetId(WeekLength, now, weeks, k)
  BY <1>2, <1>3, <1>5
     DEF LeaderboardDay, LeaderboardWeek, DayTimestamp, WeekTimestamp, DayId, WeekId, OffsetId, OffsetIds
<1>7. /\ GetOffsets.dailyOffset = days /\ GetOffsets.weeklyOffset = weeks
      /\ GetOffsets.dailyId = now \div DayLength /\ GetOffsets.weeklyId = now \div WeekLength
  BY <1>2, <1>3, <1>5 DEF GetOffsets, DayId, WeekId, OffsetIds
<1>8. DailyOffsets \ {NoOffset} = 1..days /\ WeeklyOffsets \ {NoOffset} = 1..weeks
  BY <1>2, <1>3, <1>5 DEF DailyOffsets, WeeklyOffsets, OffsetIds
<1>9. /\ LeaderboardDay(days) = now \div DayLength
      /\ \A k \in 1..days :
            /\ LeaderboardDay(k)
                  \in {DailyStart \div DayLength + k - 1, DailyStart \div DayLength + k}
            /\ k < days => LeaderboardDay(k + 1) = LeaderboardDay(k) + 1
  BY <1>2, <1>6 DEF OffsetIds
<1>10. /\ LeaderboardWeek(weeks) = now \div WeekLength
       /\ \A k \in 1..weeks :
            /\ LeaderboardWeek(k)
                  \in {WeeklyStart \div WeekLength + k - 1, WeeklyStart \div WeekLength + k}
            /\ k < weeks => LeaderboardWeek(k + 1) = LeaderboardWeek(k) + 1
  BY <1>3, <1>6 DEF OffsetIds
<1>11. /\ DayId(EndOfDay(now), 0) = DayId(now, 0) + 1
       /\ DayId(EndOfDay(now) - 1, 0) = DayId(now, 0)
       /\ EndOfWeek(now) - now \in 1..WeekLength
       /\ Weekday(EndOfWeek(now)) = 1
       /\ FirstWeekday # 1 => WeekId(EndOfWeek(now), 0) = WeekId(EndOfWeek(now) - 1, 0)
  BY <1>1, TimeLeft
\* the statistics of a user pass the number of the day to the week: less than no weeks ago
<1>12. UserStatsIds.daily = now \div DayLength /\ UserStatsIds.weekly = now \div WeekLength
  BY <1>15, <1>2, <1>3, <1>5
     DEF UserStatsIds, DayTimestamp, WeekTimestamp, DayId, WeekId, Back, OffsetIds
<1>13. DayOf(now) = now \div DayLength
  BY DEF DayOf
<1> HIDE DEF NoOffset
<1> QED
  BY <1>6, <1>7, <1>8, <1>9, <1>10, <1>11, <1>12, <1>13 DEF OffsetsNameDays

\* The offsets of the tournaments name consecutive days and weeks, the last one the current
\* day and week, and the time left of a day ends with it, however long days and weeks are,
\* whenever the tournaments began and as time goes by.
THEOREM OffsetsNameDaysHolds == Spec => []OffsetsNameDays
<1>1. IInv => ClockInv
  BY CalendarAssumption, StatisticsAssumption DEF IInv, ClockInv
<1> QED
  BY <1>1, InvFirst, InvNext, ClockNamesDays, PTL DEF Spec

-----------------------------------------------------------------------------
(* The reports, at any time *)

\* The time and the table are of their types, and getStats answers as the total of the pool
\* an amount of some row and as its change one that is not above the cap, however the rows
\* of the newest page lie.
THEOREM StatisticsTypeCorrect == Spec => []TypeOK
<1> QED
  BY InvFirst, InvNext, InvTyped, PTL DEF Spec

\* The totals, the moving average and the bounds that StatsService calculates row by row, in
\* variables that the loops carry along, are the sums over the rows that were read.
THEOREM TotalsAddUpHolds == Spec => []TotalsAddUp
<1> QED
  BY InvFirst, InvNext, InvTotals, PTL DEF Spec

\* getDates and mappingDateArray lose no row of a range and show none twice, except those of
\* the last day when the range ends at an earlier time of day than it begins.
THEOREM EveryRowShownHolds == Spec => []EveryRowShown
<1> QED
  BY InvFirst, InvNext, InvShown, PTL DEF Spec

\* calcPoolStats and fillNa show of a day without a supply the last one before it, and of a
\* day without a change the last change that was not 0 and not above the cap.
THEOREM PoolFilledHolds == Spec => []PoolFilled
<1> QED
  BY InvFirst, InvNext, InvFilled, PTL DEF Spec

\* Today's row, the only one that is still written, has no part in what any report shows of
\* the days that are over, unless it pushes an older row off the page of its query.
THEOREM PastDaysStableHolds == Spec => []PastDaysStable
<1> QED
  BY InvFirst, InvNext, InvPast, PTL DEF Spec
=============================================================================
