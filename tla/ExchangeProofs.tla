--------------------------- MODULE ExchangeProofs ---------------------------
(***************************************************************************)
(* Proofs about Exchange, for every price threshold, limit, request, body  *)
(* and way to cut a body into chunks.                                      *)
(*                                                                         *)
(* The operators of Exchange are recursive (EndOf) or fold over lines.     *)
(* What they compute is proved by choosing a smallest counterexample:      *)
(* LeastNat for numbers, SmallestSet for finite sets.                      *)
(***************************************************************************)
EXTENDS Exchange, FiniteSetTheorems, WellFoundedInduction, TLAPS

-----------------------------------------------------------------------------
(***************************************************************************)
(* Numbers and finite sets.                                                *)
(***************************************************************************)

\* A set of naturals has a least element.
LEMMA LeastNat ==
    ASSUME NEW T \in SUBSET Nat, T # {}
    PROVE  \E m \in T : \A k \in T : m <= k
<1>1. PICK m \in T : \A k \in T : <<k, m>> \notin OpToRel(<, Nat)
  BY NatLessThanWellFounded, WFMin
<1>2. \A k \in T : ~(k < m)
  BY <1>1 DEF OpToRel
<1> QED  BY <1>2

\* Of some subsets of a finite set one is smallest: it is none of them any
\* more when it loses an element.
LEMMA SmallestSet ==
    ASSUME NEW S, IsFiniteSet(S), NEW T \in SUBSET (SUBSET S), T # {}
    PROVE  \E s \in T : \A x \in s : s \ {x} \notin T
<1> DEFINE N == {Cardinality(s) : s \in T}
<1>1. \A s \in T : IsFiniteSet(s) /\ Cardinality(s) \in Nat
  BY FS_Subset, FS_CardinalityType
<1>2. N \in SUBSET Nat /\ N # {}
  BY <1>1
<1>3. PICK m \in N : \A k \in N : m <= k
  BY <1>2, LeastNat
<1>4. PICK s \in T : Cardinality(s) = m
  BY <1>3
<1>5. ASSUME NEW x \in s, s \ {x} \in T  PROVE FALSE
  <2>1. Cardinality(s \ {x}) = Cardinality(s) - 1
    BY <1>1, <1>5, FS_RemoveElement
  <2>2. m <= Cardinality(s \ {x})
    BY <1>3, <1>5
  <2> QED  BY <1>1, <1>4, <2>1, <2>2
<1> QED  BY <1>5

\* Max of a set of integers that is not empty and has a bound.
LEMMA MaxProperties ==
    ASSUME NEW S \in SUBSET Int, S # {}, NEW h \in Int, \A x \in S : x <= h
    PROVE  Max(S) \in S /\ \A x \in S : x <= Max(S)
<1> DEFINE T == {h - x : x \in S}
<1>0. \A x \in S : h - x \in Nat
  OBVIOUS
<1>1. T \in SUBSET Nat /\ T # {}
  BY <1>0
<1>2. PICK m \in T : \A k \in T : m <= k
  BY <1>1, LeastNat
<1>3. PICK y \in S : m = h - y
  BY <1>2
<1>4. \A x \in S : y >= x
  BY <1>2, <1>3
<1> QED  BY <1>3, <1>4 DEF Max

-----------------------------------------------------------------------------
(***************************************************************************)
(* Folds.  A fold takes its elements in the order of ch and combines them  *)
(* with G; iter is the function its definition chooses.                    *)
(***************************************************************************)
IsFold(iter, S, base, G, ch) ==
    \A s \in SUBSET S :
        iter[s] = IF s = {} THEN base ELSE G[<<ch[s], iter[s \ {ch[s]}]>>]

IsChoice(ch, S) == \A s \in SUBSET S : s # {} => ch[s] \in s

\* A fold over a finite set exists and has the type of its steps.
LEMMA FoldExists ==
    ASSUME NEW S, IsFiniteSet(S), NEW V, NEW base \in V,
           NEW G \in [S \X V -> V], NEW ch, IsChoice(ch, S)
    PROVE  \E iter \in [SUBSET S -> V] : IsFold(iter, S, base, G, ch)
<1> DEFINE T == {s \in SUBSET S : ~ \E f \in [SUBSET s -> V] : IsFold(f, s, base, G, ch)}
<1> SUFFICES ASSUME T # {}  PROVE FALSE
  OBVIOUS
<1>1. PICK s \in T : \A x \in s : s \ {x} \notin T
  BY SmallestSet
<1>2. \A x \in s : \E f \in [SUBSET (s \ {x}) -> V] : IsFold(f, s \ {x}, base, G, ch)
  BY <1>1
<1> DEFINE Part(x) == CHOOSE f \in [SUBSET (s \ {x}) -> V] : IsFold(f, s \ {x}, base, G, ch)
<1>3. \A x \in s : /\ Part(x) \in [SUBSET (s \ {x}) -> V]
                   /\ IsFold(Part(x), s \ {x}, base, G, ch)
  BY <1>2
<1> HIDE DEF Part
\* Any two of them agree where both are defined.
<1>4. ASSUME NEW x \in s, NEW y \in s, NEW t \in SUBSET S,
             t \subseteq s \ {x}, t \subseteq s \ {y}
      PROVE  Part(x)[t] = Part(y)[t]
  <2> DEFINE D == {u \in SUBSET S : /\ u \subseteq s \ {x} /\ u \subseteq s \ {y}
                                    /\ Part(x)[u] # Part(y)[u]}
  <2> SUFFICES ASSUME D # {}  PROVE FALSE
    BY <1>4
  <2>0. D \in SUBSET (SUBSET S)
    OBVIOUS
  <2>1. PICK u \in D : \A z \in u : u \ {z} \notin D
    <3> HIDE DEF D
    <3> QED  BY <2>0, SmallestSet
  <2>2. /\ Part(x)[u] = IF u = {} THEN base ELSE G[<<ch[u], Part(x)[u \ {ch[u]}]>>]
        /\ Part(y)[u] = IF u = {} THEN base ELSE G[<<ch[u], Part(y)[u \ {ch[u]}]>>]
    BY <1>3, <2>1 DEF IsFold
  <2>3. u # {} => Part(x)[u \ {ch[u]}] = Part(y)[u \ {ch[u]}]
    BY <2>1 DEF IsChoice
  <2> QED  BY <2>1, <2>2, <2>3
<1> DEFINE Below(t) == IF t = {} THEN base ELSE G[<<ch[t], Part(ch[t])[t \ {ch[t]}]>>]
           f == [t \in SUBSET s |-> Below(t)]
<1>5. ASSUME NEW t \in SUBSET s, t # {}
      PROVE  ch[t] \in t /\ ch[t] \in S /\ t \ {ch[t]} \in SUBSET (s \ {ch[t]})
  BY <1>1, <1>5 DEF IsChoice
<1>6. \A t \in SUBSET s : Below(t) \in V
  <2> SUFFICES ASSUME NEW t \in SUBSET s, t # {}
               PROVE  G[<<ch[t], Part(ch[t])[t \ {ch[t]}]>>] \in V
    OBVIOUS
  <2>1. Part(ch[t]) \in [SUBSET (s \ {ch[t]}) -> V]
    BY <1>3, <1>5
  <2>2. Part(ch[t])[t \ {ch[t]}] \in V
    BY <1>5, <2>1
  <2> QED  BY <1>5, <2>2
<1>7. f \in [SUBSET s -> V]
  BY <1>6
<1>8. ASSUME NEW t \in SUBSET s, t # {}
      PROVE  Part(ch[t])[t \ {ch[t]}] = f[t \ {ch[t]}]
  <2> DEFINE x == ch[t]
             u == t \ {x}
  <2>1. x \in s /\ u \in SUBSET (s \ {x}) /\ u \in SUBSET s
    BY <1>5, <1>8
  <2>2. Part(x)[u] = IF u = {} THEN base ELSE G[<<ch[u], Part(x)[u \ {ch[u]}]>>]
    BY <1>3, <2>1 DEF IsFold
  <2>3. f[u] = Below(u)
    BY <2>1
  <2>4. u # {} => Part(x)[u \ {ch[u]}] = Part(ch[u])[u \ {ch[u]}]
    <3> SUFFICES ASSUME u # {}  PROVE Part(x)[u \ {ch[u]}] = Part(ch[u])[u \ {ch[u]}]
      OBVIOUS
    <3>1. ch[u] \in s /\ u \ {ch[u]} \subseteq s \ {x} /\ u \ {ch[u]} \subseteq s \ {ch[u]}
      BY <1>5, <2>1
    <3> HIDE DEF u, x
    <3> QED  BY <1>1, <1>4, <2>1, <3>1
  <2> QED  BY <2>2, <2>3, <2>4
<1>9. IsFold(f, s, base, G, ch)
  <2> SUFFICES ASSUME NEW t \in SUBSET s
               PROVE  f[t] = IF t = {} THEN base ELSE G[<<ch[t], f[t \ {ch[t]}]>>]
    BY DEF IsFold
  <2>1. f[t] = Below(t)
    OBVIOUS
  <2> QED  BY <2>1, <1>8
<1> QED  BY <1>1, <1>7, <1>9

-----------------------------------------------------------------------------
(***************************************************************************)
(* EndOf: where the lines of a body end.                                   *)
(***************************************************************************)
IsEnd(f, b, n) == f = [j \in 0 .. n |-> IF j = 0 THEN 0 ELSE f[j - 1] + b[j].bytes]

LEMMA LineTypes ==
    ASSUME NEW b \in Seq(Lines), NEW i \in 1 .. Len(b)
    PROVE  /\ b[i] \in Lines
           /\ b[i].bytes \in Nat /\ b[i].bytes > 0
           /\ b[i].report \in Reports
<1>1. b[i] \in Lines
  OBVIOUS
<1> QED  BY <1>1 DEF Lines

\* The positions exist: one line more has one end more.
LEMMA EndExists ==
    ASSUME NEW b \in Seq(Lines), NEW n \in 0 .. Len(b)
    PROVE  \E f \in [0 .. n -> Nat] : IsEnd(f, b, n)
<1> DEFINE T == {k \in 0 .. Len(b) : ~ \E f \in [0 .. k -> Nat] : IsEnd(f, b, k)}
<1> SUFFICES ASSUME T # {}  PROVE FALSE
  OBVIOUS
<1>0. Len(b) \in Nat /\ T \in SUBSET Nat
  OBVIOUS
<1>1. PICK m \in T : \A k \in T : m <= k
  BY <1>0, LeastNat
<1>2. CASE m = 0
  <2> DEFINE f == [j \in 0 .. 0 |-> 0]
  <2>1. f \in [0 .. 0 -> Nat] /\ IsEnd(f, b, 0)
    BY DEF IsEnd
  <2> QED  BY <2>1, <1>2
<1>3. CASE m # 0
  <2>0. m \in 1 .. Len(b)
    BY <1>0, <1>3
  <2>a. m - 1 \in 0 .. Len(b) /\ ~(m <= m - 1)
    BY <2>0, <1>0
  <2>1. m - 1 \in 0 .. Len(b) /\ m - 1 \notin T
    BY <2>a, <1>1
  <2>2. PICK g \in [0 .. m - 1 -> Nat] : IsEnd(g, b, m - 1)
    BY <2>1
  <2> DEFINE f == [j \in 0 .. m |-> IF j = m THEN g[m - 1] + b[m].bytes ELSE g[j]]
  <2>3. b[m].bytes \in Nat
    BY <2>0, LineTypes
  <2>4. f \in [0 .. m -> Nat]
    BY <2>0, <2>3
  <2>5. \A j \in 0 .. m : f[j] = IF j = 0 THEN 0 ELSE f[j - 1] + b[j].bytes
    BY <2>0, <2>2, <2>3 DEF IsEnd
  <2>6. IsEnd(f, b, m)
    BY <2>5 DEF IsEnd
  <2> QED  BY <2>4, <2>6
<1> QED  BY <1>2, <1>3

\* EndOf satisfies its recursion.
LEMMA EndStep ==
    ASSUME NEW b \in Seq(Lines)
    PROVE  /\ EndOf(b, 0) = 0
           /\ \A i \in 1 .. Len(b) : EndOf(b, i) = EndOf(b, i - 1) + b[i].bytes
<1> DEFINE F == CHOOSE f : IsEnd(f, b, Len(b))
<1>0. Len(b) \in Nat
  OBVIOUS
<1>1. IsEnd(F, b, Len(b))
  BY <1>0, EndExists
<1>2. \A i : EndOf(b, i) = F[i]
  BY DEF EndOf, IsEnd
<1> HIDE DEF F
<1>3. \A j \in 0 .. Len(b) : F[j] = IF j = 0 THEN 0 ELSE F[j - 1] + b[j].bytes
  BY <1>1 DEF IsEnd
<1>4. F[0] = 0 /\ \A i \in 1 .. Len(b) : F[i] = F[i - 1] + b[i].bytes
  BY <1>0, <1>3
<1> QED  BY <1>2, <1>4

\* Ends are naturals, and the end of a later line is a later one.
LEMMA EndsGrow ==
    ASSUME NEW b \in Seq(Lines)
    PROVE  /\ \A i \in 0 .. Len(b) : EndOf(b, i) \in Nat
           /\ \A i, j \in 0 .. Len(b) : i < j => EndOf(b, i) < EndOf(b, j)
<1>0. Len(b) \in Nat
  OBVIOUS
<1>1. \A i \in 0 .. Len(b) : EndOf(b, i) \in Nat
  <2> DEFINE T == {k \in 0 .. Len(b) : EndOf(b, k) \notin Nat}
  <2> SUFFICES ASSUME T # {}  PROVE FALSE
    OBVIOUS
  <2>0. T \in SUBSET Nat
    BY <1>0
  <2>1. PICK m \in T : \A k \in T : m <= k
    BY <2>0, LeastNat
  <2>2. m # 0
    BY <2>1, EndStep
  <2>3. m - 1 \in 0 .. Len(b) /\ EndOf(b, m - 1) \in Nat
    BY <1>0, <2>1, <2>2
  <2>4. m \in 1 .. Len(b)
    BY <1>0, <2>2
  <2> QED  BY <2>3, <2>4, EndStep, LineTypes
<1>2. ASSUME NEW i \in 0 .. Len(b)
      PROVE  \A j \in 0 .. Len(b) : i < j => EndOf(b, i) < EndOf(b, j)
  <2> DEFINE T == {j \in 0 .. Len(b) : i < j /\ ~(EndOf(b, i) < EndOf(b, j))}
  <2> SUFFICES ASSUME T # {}  PROVE FALSE
    OBVIOUS
  <2>0. T \in SUBSET Nat
    BY <1>0
  <2>1. PICK m \in T : \A k \in T : m <= k
    BY <2>0, LeastNat
  <2>2. m \in 1 .. Len(b) /\ m - 1 \in 0 .. Len(b) /\ m - 1 \notin T
    BY <1>0, <2>1
  <2>3. EndOf(b, m) = EndOf(b, m - 1) + b[m].bytes /\ b[m].bytes \in Nat /\ b[m].bytes > 0
    BY <2>2, EndStep, LineTypes
  <2>4. EndOf(b, i) \in Nat /\ EndOf(b, m - 1) \in Nat /\ EndOf(b, m) \in Nat
    BY <1>1, <2>2
  <2>5. i = m - 1 \/ EndOf(b, i) < EndOf(b, m - 1)
    BY <2>1, <2>2
  <2> QED  BY <2>1, <2>3, <2>4, <2>5
<1> QED  BY <1>1, <1>2

-----------------------------------------------------------------------------
(***************************************************************************)
(* Usage: merging lines in any order gives the largest counts.             *)
(***************************************************************************)
LEMMA UsageTypes ==
    /\ NoUsage \in Usage
    /\ \A r \in Reports : usage_from_value(r) \in Usage
    /\ \A u, v \in Usage : merge(u, v) \in Usage
<1>1. 0 \in I64 /\ I64 \subseteq Int
  BY UsageAssumption DEF I64
<1>2. NoUsage \in Usage
  BY <1>1 DEF NoUsage, Usage
<1>3. \A r \in Reports : usage_from_value(r) \in Usage
  BY <1>1 DEF Reports, usage_from_value, Usage
<1>4. \A u, v \in Usage : merge(u, v) \in Usage
  BY DEF merge, Usage, Larger
<1> QED  BY <1>2, <1>3, <1>4

IsMerge(f, u, b, I) ==
    f = [s \in SUBSET I |->
            IF s = {} THEN u
            ELSE merge(f[s \ {CHOOSE x \in s : TRUE}],
                       usage_from_value(b[CHOOSE x \in s : TRUE].report))]

LEMMA MergeExists ==
    ASSUME NEW b \in Seq(Lines), NEW I \in SUBSET DOMAIN b, NEW u \in Usage
    PROVE  \E f \in [SUBSET I -> Usage] : IsMerge(f, u, b, I)
<1> DEFINE G == [p \in I \X Usage |-> merge(p[2], usage_from_value(b[p[1]].report))]
           ch == [s \in SUBSET I |-> CHOOSE x \in s : TRUE]
<1>0. \A i \in I : i \in 1 .. Len(b)
  OBVIOUS
<1>1. IsFiniteSet(I)
  <2>1. Len(b) \in Int
    OBVIOUS
  <2>2. IsFiniteSet(1 .. Len(b))
    BY <2>1, FS_Interval
  <2> QED  BY <1>0, <2>2, FS_Subset
<1>2. G \in [I \X Usage -> Usage]
  BY <1>0, LineTypes, UsageTypes
<1>3. IsChoice(ch, I)
  BY DEF IsChoice
<1> HIDE DEF G, ch
<1>4. PICK f \in [SUBSET I -> Usage] : IsFold(f, I, u, G, ch)
  BY <1>1, <1>2, <1>3, FoldExists
<1>5. ASSUME NEW s \in SUBSET I
      PROVE  f[s] = IF s = {} THEN u
                    ELSE merge(f[s \ {CHOOSE x \in s : TRUE}],
                               usage_from_value(b[CHOOSE x \in s : TRUE].report))
  <2>1. ch[s] = CHOOSE x \in s : TRUE
    BY DEF ch
  <2>2. f[s] = IF s = {} THEN u ELSE G[<<ch[s], f[s \ {ch[s]}]>>]
    BY <1>4 DEF IsFold
  <2>3. s # {} => ch[s] \in I /\ f[s \ {ch[s]}] \in Usage
    BY <1>3 DEF IsChoice
  <2>4. s # {} => G[<<ch[s], f[s \ {ch[s]}]>>] = merge(f[s \ {ch[s]}], usage_from_value(b[ch[s]].report))
    BY <2>3 DEF G
  <2> QED  BY <2>1, <2>2, <2>4
<1>6. IsMerge(f, u, b, I)
  BY <1>5 DEF IsMerge
<1> QED  BY <1>6

\* The count c that line i of b reports.
Reported(b, i, c) == usage_from_value(b[i].report)[c]

\* Merged(w, u, b, I): w has the largest of the counts of u and of the lines I.
Merged(w, u, b, I) ==
    /\ w \in Usage
    /\ \A c \in Counts :
           /\ u[c] <= w[c]
           /\ \A i \in I : Reported(b, i, c) <= w[c]
           /\ w[c] = u[c] \/ \E i \in I : w[c] = Reported(b, i, c)

LEMMA MergeLargest ==
    ASSUME NEW b \in Seq(Lines), NEW I \in SUBSET DOMAIN b, NEW u \in Usage
    PROVE  Merged(MergeLines(u, b, I), u, b, I)
<1> DEFINE F == CHOOSE f : IsMerge(f, u, b, I)
<1>1. IsMerge(F, u, b, I)
  BY MergeExists
<1>2. MergeLines(u, b, I) = F[I]
  BY DEF MergeLines, FoldSet, MapThenFoldSet, IsMerge
<1> HIDE DEF F
<1>3. \A s \in SUBSET I :
         F[s] = IF s = {} THEN u
                ELSE merge(F[s \ {CHOOSE x \in s : TRUE}],
                           usage_from_value(b[CHOOSE x \in s : TRUE].report))
  BY <1>1 DEF IsMerge
<1>4. IsFiniteSet(I)
  <2>1. Len(b) \in Int /\ I \subseteq 1 .. Len(b)
    OBVIOUS
  <2>2. IsFiniteSet(1 .. Len(b))
    BY <2>1, FS_Interval
  <2> QED  BY <2>1, <2>2, FS_Subset
<1> DEFINE T == {s \in SUBSET I : ~Merged(F[s], u, b, s)}
<1> SUFFICES ASSUME T # {}  PROVE FALSE
  BY <1>2
<1>5. PICK s \in T : \A x \in s : s \ {x} \notin T
  BY <1>4, SmallestSet
<1>6. ASSUME s = {}  PROVE FALSE
  <2>1. Merged(u, u, b, {})
    BY UsageAssumption DEF Merged, Usage, I64
  <2> QED  BY <1>3, <1>5, <1>6, <2>1
<1>7. ASSUME s # {}  PROVE FALSE
  <2> DEFINE x == CHOOSE y \in s : TRUE
             w == F[s \ {x}]
             v == usage_from_value(b[x].report)
  <2>1. x \in s
    BY <1>7
  <2>2. F[s] = merge(w, v)
    BY <1>3, <1>7
  <2>3. Merged(w, u, b, s \ {x})
    BY <1>5, <2>1
  <2>4. v \in Usage
    <3>1. x \in 1 .. Len(b)
      BY <2>1
    <3> QED  BY <3>1, LineTypes, UsageTypes
  <2>5. v = [c \in Counts |-> Reported(b, x, c)]
    BY DEF Reported, usage_from_value
  <2> HIDE DEF x, w, v
  <2>6. merge(w, v) \in Usage
    BY <2>3, <2>4, UsageTypes DEF Merged
  <2>7. ASSUME NEW c \in Counts
        PROVE  /\ u[c] <= merge(w, v)[c]
               /\ \A i \in s : Reported(b, i, c) <= merge(w, v)[c]
               /\ \/ merge(w, v)[c] = u[c]
                  \/ \E i \in s : merge(w, v)[c] = Reported(b, i, c)
    <3>1. w[c] \in Int /\ v[c] \in Int /\ u[c] \in Int
      BY <2>3, <2>4, UsageAssumption DEF Merged, Usage, I64
    <3>2. merge(w, v)[c] = IF w[c] >= v[c] THEN w[c] ELSE v[c]
      BY DEF merge, Larger
    <3>3. /\ u[c] <= w[c]
          /\ \A i \in s \ {x} : Reported(b, i, c) <= w[c]
          /\ w[c] = u[c] \/ \E i \in s \ {x} : w[c] = Reported(b, i, c)
      BY <2>3 DEF Merged
    <3>4. v[c] = Reported(b, x, c)
      BY <2>5
    <3>5. ASSUME NEW i \in s  PROVE Reported(b, i, c) \in Int
      <4>1. i \in 1 .. Len(b)
        OBVIOUS
      <4> QED  BY <4>1, LineTypes, UsageTypes, UsageAssumption DEF Reported, Usage, I64
    <3>6. \A i \in s : Reported(b, i, c) <= merge(w, v)[c]
      BY <3>1, <3>2, <3>3, <3>4, <3>5
    <3> QED  BY <2>1, <3>1, <3>2, <3>3, <3>4, <3>6
  <2>8. Merged(F[s], u, b, s)
    BY <2>2, <2>6, <2>7 DEF Merged
  <2> QED  BY <1>5, <2>8
<1> QED  BY <1>6, <1>7

-----------------------------------------------------------------------------
(***************************************************************************)
(* Prices.                                                                 *)
(***************************************************************************)
Rates == Nat \X Nat \X Nat \X Nat

HasRates(row) == row[2] \in Rates /\ row[3] \in Rates \cup {None}

IsTable(t) ==
    /\ t \in Seq({t[i] : i \in DOMAIN t})
    /\ \A i \in DOMAIN t : HasRates(t[i])

LEMMA JoinTables ==
    ASSUME NEW s, NEW t, IsTable(s), IsTable(t)
    PROVE  IsTable(s \o t)
<1> DEFINE S == {s[i] : i \in DOMAIN s} \cup {t[i] : i \in DOMAIN t}
<1>1. s \in Seq(S) /\ t \in Seq(S)
  BY DEF IsTable
<1>2. s \o t \in Seq(S)
  BY <1>1
<1>3. \A w \in Seq(S) : w \in Seq({w[i] : i \in DOMAIN w})
  OBVIOUS
<1>4. \A i \in DOMAIN (s \o t) : HasRates((s \o t)[i])
  BY <1>1 DEF IsTable
<1> QED  BY <1>2, <1>3, <1>4 DEF IsTable

LEMMA TableTypes == IsTable(TOKEN_PRICING)
<1>1. IsTable(Gpt54To56Pricing)
  BY DEF Gpt54To56Pricing, IsTable, HasRates, Rates
<1>2. IsTable(Gpt5To53Pricing)
  BY DEF Gpt5To53Pricing, IsTable, HasRates, Rates
<1>3. IsTable(OlderPricing)
  BY DEF OlderPricing, IsTable, HasRates, Rates
<1> QED  BY <1>1, <1>2, <1>3, JoinTables DEF TOKEN_PRICING

\* Every model of the table has rates, for every number of tokens.
LEMMA RatesTypes ==
    ASSUME NEW m \in PricedModels, NEW n \in Int
    PROVE  rates(PricingOf(m), n) \in Rates
<1>1. \E i \in DOMAIN TOKEN_PRICING : TOKEN_PRICING[i][1] = m
  BY DEF PricedModels
<1>2. HasRates(PricingOf(m))
  <2> DEFINE k == CHOOSE i \in DOMAIN TOKEN_PRICING : TOKEN_PRICING[i][1] = m
  <2>1. k \in DOMAIN TOKEN_PRICING
    BY <1>1
  <2>2. PricingOf(m) = TOKEN_PRICING[k]
    BY DEF PricingOf
  <2> HIDE DEF k
  <2> QED  BY <2>1, <2>2, TableTypes DEF IsTable
<1> QED  BY <1>2 DEF HasRates, rates

\* Saturating after each step of a sum of naturals is saturating once.
LEMMA SaturatingSum ==
    ASSUME NEW a \in Nat, NEW b \in Nat, NEW c \in Nat, NEW d \in Nat
    PROVE  Saturating(Saturating(Saturating(Saturating(a) + Saturating(b)) + Saturating(c))
                      + Saturating(d))
           = Saturating(a + b + c + d)
<1>1. \A x \in Nat : Saturating(x) = IF x <= I64_MAX THEN x ELSE I64_MAX
  BY UsageAssumption DEF Saturating, Larger, Smaller
<1>2. \A x, y \in Nat : /\ Saturating(Saturating(x) + Saturating(y)) = Saturating(x + y)
                        /\ Saturating(x) \in Nat
                        /\ Saturating(Saturating(x)) = Saturating(x)
  BY <1>1, UsageAssumption
<1> DEFINE ab == Saturating(Saturating(a) + Saturating(b))
           abc == Saturating(ab + Saturating(c))
           two == a + b
<1>3. ab = Saturating(two) /\ two \in Nat
  BY <1>2
<1>4. abc = Saturating(a + b + c)
  <2> HIDE DEF ab, two
  <2>1. abc = Saturating(two + c)
    BY <1>2, <1>3
  <2> QED  BY <2>1 DEF two
<1> DEFINE sum == a + b + c
<1>5. sum \in Nat /\ abc = Saturating(sum)
  BY <1>4
<1> HIDE DEF sum, abc
<1>6. Saturating(abc + Saturating(d)) = Saturating(sum + d)
  BY <1>2, <1>5
<1> QED  BY <1>6 DEF sum, abc

LEMMA ProductNat == \A x, y \in Nat : x * y \in Nat
OBVIOUS

LEMMA SaturatingType == \A x \in Int : Saturating(x) \in I64
  BY UsageAssumption DEF Saturating, Larger, Smaller, I64

\* The three parts of the input.
LEMMA InputParts ==
    ASSUME NEW u \in Usage, u.input_tokens >= 0, NEW rate \in Nat
    PROVE  /\ CachedTokens(u) \in 0 .. Smaller(u.input_tokens, Larger(0, u.cached_tokens))
           /\ UncachedTokens(u) = u.input_tokens - CachedTokens(u)
           /\ UncachedTokens(u) \in Nat
           /\ CacheWriteTokens(u, rate)
                  \in 0 .. Smaller(UncachedTokens(u), Larger(0, u.cache_write_tokens))
           /\ rate # 0 \/ CacheWriteTokens(u, rate) = 0
           /\ Saturating(UncachedTokens(u) - CacheWriteTokens(u, rate))
                  = UncachedTokens(u) - CacheWriteTokens(u, rate)
<1>1. /\ u.input_tokens \in I64 /\ u.cached_tokens \in I64 /\ u.cache_write_tokens \in I64
  BY DEF Usage, Counts
<1>2. u.input_tokens \in 0 .. I64_MAX /\ u.cached_tokens \in Int /\ u.cache_write_tokens \in Int
  BY <1>1, UsageAssumption DEF I64
<1>3. \A x \in 0 .. I64_MAX : Saturating(x) = x
  BY UsageAssumption DEF Saturating, Larger, Smaller
<1>4. CachedTokens(u) \in 0 .. Smaller(u.input_tokens, Larger(0, u.cached_tokens))
  BY <1>2, UsageAssumption DEF CachedTokens, Clamp, Larger, Smaller
<1>5. u.input_tokens - CachedTokens(u) \in 0 .. I64_MAX
  BY <1>2, <1>4, UsageAssumption DEF Smaller, Larger
<1>6. UncachedTokens(u) = u.input_tokens - CachedTokens(u)
  BY <1>3, <1>5 DEF UncachedTokens
<1>7. CacheWriteTokens(u, rate) \in 0 .. Smaller(UncachedTokens(u), Larger(0, u.cache_write_tokens))
  BY <1>2, <1>5, <1>6, UsageAssumption DEF CacheWriteTokens, Clamp, Larger, Smaller
<1>8. UncachedTokens(u) - CacheWriteTokens(u, rate) \in 0 .. I64_MAX
  BY <1>2, <1>5, <1>6, <1>7, UsageAssumption DEF Larger, Smaller
<1>9. rate # 0 \/ CacheWriteTokens(u, rate) = 0
  BY DEF CacheWriteTokens
<1> QED  BY <1>3, <1>4, <1>5, <1>6, <1>7, <1>8, <1>9, UsageAssumption

\* The sum of cost_usd_nanos, step by step, is the exact one cut at the limit.
LEMMA CostExact ==
    ASSUME NEW r \in Rates, NEW u \in Usage, u.input_tokens >= 0
    PROVE  CostAt(r, u) =
               Saturating((u.input_tokens - CachedTokens(u) - CacheWriteTokens(u, r[3])) * r[1]
                          + CachedTokens(u) * r[2] + CacheWriteTokens(u, r[3]) * r[3]
                          + Larger(0, u.output_tokens) * r[4])
<1> DEFINE cached == CachedTokens(u)
           writes == CacheWriteTokens(u, r[3])
           plain == UncachedTokens(u) - writes
           output == Larger(u.output_tokens, 0)
<1>1. r[1] \in Nat /\ r[2] \in Nat /\ r[3] \in Nat /\ r[4] \in Nat
  BY DEF Rates
<1>2. cached \in Nat /\ writes \in Nat /\ plain \in Nat
  <2>1. u.input_tokens \in Int /\ u.cached_tokens \in Int /\ u.cache_write_tokens \in Int
    BY UsageAssumption DEF Usage, Counts, I64
  <2> QED  BY <1>1, <2>1, InputParts DEF Smaller, Larger
<1>3. output \in Nat /\ output = Larger(0, u.output_tokens)
  <2>1. u.output_tokens \in Int
    BY UsageAssumption DEF Usage, Counts, I64
  <2> QED  BY <2>1 DEF Larger
<1>4. Saturating(plain) = plain /\ plain = u.input_tokens - cached - writes
  BY <1>1, InputParts
<1>5. CostAt(r, u) =
        Saturating(Saturating(Saturating(Saturating(plain * r[1]) + Saturating(cached * r[2]))
                              + Saturating(writes * r[3])) + Saturating(output * r[4]))
  BY <1>4 DEF CostAt
<1> HIDE DEF cached, writes, plain, output
<1> DEFINE p == plain * r[1]
           c == cached * r[2]
           w == writes * r[3]
           o == output * r[4]
<1>6. p \in Nat /\ c \in Nat /\ w \in Nat /\ o \in Nat
  BY <1>1, <1>2, <1>3, ProductNat
<1>7. CostAt(r, u) = Saturating(p + c + w + o)
  <2>1. CostAt(r, u) =
          Saturating(Saturating(Saturating(Saturating(p) + Saturating(c)) + Saturating(w))
                     + Saturating(o))
    BY <1>5
  <2> HIDE DEF p, c, w, o
  <2> QED  BY <1>6, <2>1, SaturatingSum
<1> QED  BY <1>3, <1>4, <1>7 DEF cached, writes

LEMMA CountsInt ==
    ASSUME NEW u \in Usage
    PROVE  /\ u.input_tokens \in Int /\ u.output_tokens \in Int
           /\ u.cached_tokens \in Int /\ u.cache_write_tokens \in Int
           /\ \A c \in Counts : u[c] \in Int
  BY UsageAssumption DEF Usage, Counts, I64

LEMMA CostAtType ==
    ASSUME NEW r \in Rates, NEW u \in Usage
    PROVE  CostAt(r, u) \in I64
<1> DEFINE plain == Saturating(UncachedTokens(u) - CacheWriteTokens(u, r[3]))
           input == Saturating(plain * r[1])
           read == Saturating(input + Saturating(CachedTokens(u) * r[2]))
           written == Saturating(read + Saturating(CacheWriteTokens(u, r[3]) * r[3]))
<1>1. \A x \in Int : Saturating(x) \in Int
  BY SaturatingType, UsageAssumption DEF I64
<1>2. CachedTokens(u) \in Int /\ UncachedTokens(u) \in Int /\ Larger(u.output_tokens, 0) \in Int
  BY <1>1, CountsInt DEF CachedTokens, UncachedTokens, Clamp, Larger, Smaller
<1>3. CacheWriteTokens(u, r[3]) \in Int
  BY <1>2, CountsInt DEF CacheWriteTokens, Clamp, Larger, Smaller
<1>4. r[1] \in Int /\ r[2] \in Int /\ r[3] \in Int /\ r[4] \in Int
  BY DEF Rates
<1>5. plain \in Int
  BY <1>1, <1>2, <1>3
<1>6. input \in Int
  BY <1>1, <1>4, <1>5
<1>7. read \in Int
  BY <1>1, <1>2, <1>4, <1>6
<1>8. written \in Int
  BY <1>1, <1>3, <1>4, <1>7
<1>9. Saturating(Larger(u.output_tokens, 0) * r[4]) \in Int
  BY <1>1, <1>2, <1>4
<1>10. CostAt(r, u) = Saturating(written + Saturating(Larger(u.output_tokens, 0) * r[4]))
  BY DEF CostAt
<1> HIDE DEF written
<1> QED  BY <1>8, <1>9, <1>10, SaturatingType

\* A cost is an i64 or None; computing it panics for a negative input only.
LEMMA CostTypes ==
    ASSUME NEW u \in Usage, NEW m
    PROVE  /\ cost_usd_nanos(m, u) \in I64 \cup {None, Panic}
           /\ cost_usd_nanos(m, u) = Panic => u.input_tokens < 0
           /\ cost_usd_nanos(None, u) = None
<1> DEFINE r == rates(PricingOf(m), u.input_tokens)
<1>1. m \in PricedModels => CostAt(r, u) \in I64
  BY CountsInt, CostAtType, RatesTypes
<1>2. ASSUME cost_usd_nanos(m, u) = Panic  PROVE u.input_tokens < 0
  <2>1. CostAt(r, u) \in I64 => CostAt(r, u) # Panic
    BY UsageAssumption DEF I64
  <2>2. UncachedTokens(u) < 0
    BY <1>1, <1>2, <2>1, UsageAssumption DEF cost_usd_nanos
  <2> QED  BY <2>2, CountsInt, InputParts
<1>3. cost_usd_nanos(None, u) = None
  BY NoneAssumption DEF cost_usd_nanos
<1> QED  BY <1>1, <1>2, <1>3 DEF cost_usd_nanos

-----------------------------------------------------------------------------
(***************************************************************************)
(* Images: the two folds of ImagesOf, from left to right.                  *)
(***************************************************************************)
LEMMA MaxOfIndices ==
    ASSUME NEW n \in Nat, NEW s \in SUBSET (1 .. n), s # {}
    PROVE  Max(s) \in s /\ \A x \in s : x <= Max(s)
<1>1. s \in SUBSET Int /\ n \in Int /\ \A x \in s : x <= n
  OBVIOUS
<1> QED  BY <1>1, MaxProperties

LEMMA MaxOfPrefix ==
    ASSUME NEW k \in Nat, k # 0
    PROVE  Max(1 .. k) = k /\ (1 .. k) \ {Max(1 .. k)} = 1 .. k - 1
<1>1. k \in 1 .. k
  OBVIOUS
<1>2. Max(1 .. k) \in 1 .. k /\ k <= Max(1 .. k)
  BY <1>1, MaxOfIndices
<1>3. Max(1 .. k) = k
  BY <1>2
<1> QED  BY <1>3

\* A fold over the indices of a sequence that takes the last one first.
IsLeftFold(f, n, base, G) ==
    \A s \in SUBSET (1 .. n) :
        f[s] = IF s = {} THEN base ELSE G[<<Max(s), f[s \ {Max(s)}]>>]

LEMMA LeftFold ==
    ASSUME NEW n \in Nat, NEW V, NEW base \in V, NEW G \in [(1 .. n) \X V -> V]
    PROVE  \E f \in [SUBSET (1 .. n) -> V] : IsLeftFold(f, n, base, G)
<1> DEFINE ch == [s \in SUBSET (1 .. n) |-> Max(s)]
<1>1. IsFiniteSet(1 .. n)
  BY FS_Interval
<1>2. \A s \in SUBSET (1 .. n) : ch[s] = Max(s)
  OBVIOUS
<1> HIDE DEF ch
<1>3. IsChoice(ch, 1 .. n)
  BY <1>2, MaxOfIndices DEF IsChoice
<1>4. PICK f \in [SUBSET (1 .. n) -> V] : IsFold(f, 1 .. n, base, G, ch)
  BY <1>1, <1>3, FoldExists
<1>5. \A s \in SUBSET (1 .. n) :
         f[s] = IF s = {} THEN base ELSE G[<<ch[s], f[s \ {ch[s]}]>>]
  BY <1>4, Zenon DEF IsFold
<1>6. ASSUME NEW s \in SUBSET (1 .. n)
      PROVE  f[s] = IF s = {} THEN base ELSE G[<<Max(s), f[s \ {Max(s)}]>>]
  <2>1. ch[s] = Max(s)
    BY <1>2
  <2>2. f[s] = IF s = {} THEN base ELSE G[<<ch[s], f[s \ {ch[s]}]>>]
    BY <1>5
  <2> QED  BY <2>1, <2>2, Zenon
<1> QED  BY <1>6, Zenon DEF IsLeftFold

Items == Seq(Images \cup {None})

IsItems(f, b) ==
    f = [s \in SUBSET DOMAIN b |->
            IF s = {} THEN << >> ELSE AppendImages(f[s \ {Max(s)}], b[Max(s)])]

LEMMA AppendImagesType ==
    ASSUME NEW items \in Items, NEW line \in Lines
    PROVE  AppendImages(items, line) \in Items
<1>1. line.done \in Items /\ line.output \in Items
  BY DEF Lines, Items
<1>2. items \o line.done \in Items
  BY <1>1 DEF Items
<1> QED  BY <1>1, <1>2 DEF AppendImages

LEMMA ItemsExist ==
    ASSUME NEW b \in Seq(Lines)
    PROVE  \E f \in [SUBSET DOMAIN b -> Items] : IsItems(f, b)
<1> DEFINE G == [p \in (1 .. Len(b)) \X Items |-> AppendImages(p[2], b[p[1]])]
<1>0. Len(b) \in Nat /\ DOMAIN b = 1 .. Len(b) /\ << >> \in Items
  BY DEF Items
<1>1. G \in [(1 .. Len(b)) \X Items -> Items]
  BY LineTypes, AppendImagesType
<1>2. \A i \in 1 .. Len(b), v \in Items : G[<<i, v>>] = AppendImages(v, b[i])
  OBVIOUS
<1> HIDE DEF G
<1>3. PICK f \in [SUBSET (1 .. Len(b)) -> Items] : IsLeftFold(f, Len(b), << >>, G)
  BY <1>0, <1>1, LeftFold
<1>4. ASSUME NEW s \in SUBSET (1 .. Len(b)), s # {}
      PROVE  G[<<Max(s), f[s \ {Max(s)}]>>] = AppendImages(f[s \ {Max(s)}], b[Max(s)])
  <2>1. Max(s) \in 1 .. Len(b)
    BY <1>0, <1>4, MaxOfIndices
  <2>2. f[s \ {Max(s)}] \in Items
    OBVIOUS
  <2> QED  BY <1>2, <2>1, <2>2
<1>5. IsItems(f, b)
  BY <1>0, <1>3, <1>4 DEF IsItems, IsLeftFold
<1> QED  BY <1>0, <1>5

\* No two of the items are the same image.
Different(items) ==
    \A x, y \in DOMAIN items : items[x] = items[y] => items[x] = None \/ x = y

\* Items that are done in the first k lines.
DoneIn(items, b, k) ==
    \A x \in DOMAIN items : \E i \in 1 .. k : \E l \in DOMAIN b[i].done : items[x] = b[i].done[l]

\* The items of the first k lines are done, or the response is completed.
ItemsOf(items, b, k) ==
    /\ items \in Items
    /\ Different(items)
    /\ DoneIn(items, b, k) \/ \E i \in 1 .. k : b[i].output # << >>

LEMMA ItemsStep ==
    ASSUME NEW b \in Bodies, NEW k \in 1 .. Len(b), NEW items, ItemsOf(items, b, k - 1)
    PROVE  ItemsOf(AppendImages(items, b[k]), b, k)
<1> DEFINE new == AppendImages(items, b[k])
<1>0. b \in Seq(Lines) /\ Len(b) \in Nat /\ DOMAIN b = 1 .. Len(b) /\ 1 .. k - 1 \subseteq 1 .. k
      /\ 1 .. k \subseteq DOMAIN b /\ k \in DOMAIN b /\ b[k] \in Lines
  BY ExchangeAssumption
<1>1. new \in Items
  BY <1>0, AppendImagesType DEF ItemsOf
<1>2. b[k].done \in Items /\ b[k].output \in Items
  BY <1>0 DEF Lines, Items
<1>3. ItemsOf(items, b, k)
  BY <1>0 DEF ItemsOf, DoneIn
<1>4. CASE b[k].kind # "data"
  BY <1>3, <1>4 DEF AppendImages
<1>5. CASE b[k].kind = "data" /\ items \o b[k].done = << >>
  <2>1. new = b[k].output
    BY <1>5 DEF AppendImages
  <2>2. Different(b[k].output)
    BY <1>0, UpstreamAssumption DEF Different
  <2>3. DoneIn(<< >>, b, k)
    BY DEF DoneIn
  <2> QED  BY <1>0, <1>1, <2>1, <2>2, <2>3 DEF ItemsOf
<1>6. CASE b[k].kind = "data" /\ items \o b[k].done # << >>
  <2>1. new = items \o b[k].done
    BY <1>6 DEF AppendImages
  <2>2. CASE b[k].done = << >>
    <3>1. new = items
      BY <2>1, <2>2 DEF ItemsOf, Items
    <3> QED  BY <1>3, <3>1
  <2>3. CASE b[k].done # << >>
    <3>1. \A i \in 1 .. k - 1 : b[i].output = << >>
      BY <1>0, <2>3, UpstreamAssumption
    <3>2. DoneIn(items, b, k - 1)
      BY <3>1 DEF ItemsOf
    <3>3. /\ DOMAIN new = 1 .. Len(items) + Len(b[k].done)
          /\ Len(items) \in Nat /\ Len(b[k].done) \in Nat
          /\ DOMAIN items = 1 .. Len(items)
          /\ DOMAIN b[k].done = 1 .. Len(b[k].done)
          /\ \A x \in DOMAIN new :
                 \/ x \in DOMAIN items /\ new[x] = items[x]
                 \/ x - Len(items) \in DOMAIN b[k].done /\ new[x] = b[k].done[x - Len(items)]
      BY <1>2, <2>1 DEF ItemsOf, Items
    <3> HIDE DEF new
    <3>4. DoneIn(new, b, k)
      <4> SUFFICES ASSUME NEW x \in DOMAIN new
                   PROVE  \E i \in 1 .. k : \E l \in DOMAIN b[i].done : new[x] = b[i].done[l]
        BY DEF DoneIn
      <4>1. CASE x \in DOMAIN items /\ new[x] = items[x]
        BY <1>0, <3>2, <4>1 DEF DoneIn
      <4>2. CASE x - Len(items) \in DOMAIN b[k].done /\ new[x] = b[k].done[x - Len(items)]
        <5>1. k \in 1 .. k
          BY <1>0
        <5> QED  BY <4>2, <5>1
      <4> QED  BY <3>3, <4>1, <4>2
    <3>5. ASSUME NEW x \in DOMAIN new, NEW y \in DOMAIN new, new[x] = new[y], new[x] # None
          PROVE  x = y
      <4>1. CASE x \in DOMAIN items /\ new[x] = items[x] /\ y \in DOMAIN items /\ new[y] = items[y]
        BY <3>5, <4>1 DEF ItemsOf, Different
      <4>2. CASE /\ x - Len(items) \in DOMAIN b[k].done /\ new[x] = b[k].done[x - Len(items)]
                 /\ y - Len(items) \in DOMAIN b[k].done /\ new[y] = b[k].done[y - Len(items)]
        <5> DEFINE p == x - Len(items)
                   q == y - Len(items)
        <5>0. p \in DOMAIN b[k].done /\ q \in DOMAIN b[k].done /\ b[k].done[p] = b[k].done[q]
              /\ b[k].done[p] # None
          BY <3>5, <4>2
        <5> HIDE DEF p, q
        <5>a. p = q
          BY <1>0, <5>0, UpstreamAssumption
        <5>1. x - Len(items) = y - Len(items)
          BY <5>a DEF p, q
        <5> QED  BY <3>3, <5>1
      <4>3. ASSUME NEW v \in DOMAIN items, NEW l \in DOMAIN b[k].done, items[v] = b[k].done[l],
                   items[v] # None
            PROVE  FALSE
        <5>1. PICK i \in 1 .. k - 1 : \E q \in DOMAIN b[i].done : items[v] = b[i].done[q]
          BY <3>2 DEF DoneIn
        <5>2. i \in DOMAIN b /\ i # k
          BY <1>0
        <5> QED  BY <1>0, <4>3, <5>1, <5>2, UpstreamAssumption
      <4> QED  BY <3>3, <3>5, <4>1, <4>2, <4>3
    <3> QED  BY <1>1, <3>4, <3>5 DEF ItemsOf, Different, new
  <2> QED  BY <2>2, <2>3
<1> QED  BY <1>4, <1>5, <1>6

LEMMA ItemsDifferent ==
    ASSUME NEW b \in Bodies
    PROVE  /\ FoldLeft(AppendImages, << >>, b) \in Items
           /\ Different(FoldLeft(AppendImages, << >>, b))
<1> DEFINE F == CHOOSE f : IsItems(f, b)
           P(k) == F[1 .. k]
           T == {k \in 0 .. Len(b) : ~ItemsOf(P(k), b, k)}
<1>0. b \in Seq(Lines) /\ Len(b) \in Nat /\ DOMAIN b = 1 .. Len(b)
  BY ExchangeAssumption
<1>1. IsItems(F, b)
  BY <1>0, ItemsExist
<1>2. FoldLeft(AppendImages, << >>, b) = F[DOMAIN b]
  BY DEF FoldLeft, MapThenFoldSet, IsItems
<1> HIDE DEF F
<1>3. \A s \in SUBSET DOMAIN b :
         F[s] = IF s = {} THEN << >> ELSE AppendImages(F[s \ {Max(s)}], b[Max(s)])
  BY <1>1 DEF IsItems
<1>4. P(0) = << >>
  <2>1. 1 .. 0 = {}
    OBVIOUS
  <2> QED  BY <1>3, <2>1
<1>5. ASSUME NEW k \in 1 .. Len(b)  PROVE P(k) = AppendImages(P(k - 1), b[k])
  <2>1. k \in Nat /\ k # 0 /\ k \in 1 .. k
    BY <1>0
  <2>2. 1 .. k \in SUBSET DOMAIN b
    BY <1>0, <2>1
  <2> QED  BY <1>3, <2>1, <2>2, MaxOfPrefix
<1> HIDE DEF P
<1>6. SUFFICES ASSUME T # {}  PROVE FALSE
  <2>1. ItemsOf(P(Len(b)), b, Len(b))
    BY <1>0, <1>6
  <2> QED  BY <1>0, <1>2, <2>1 DEF ItemsOf, P
<1>7. T \in SUBSET Nat
  BY <1>0
<1>8. PICK k \in T : \A j \in T : k <= j
  BY <1>6, <1>7, LeastNat
<1>9. k # 0
  <2>1. ItemsOf(<< >>, b, 0)
    BY DEF ItemsOf, Items, Different, DoneIn
  <2> QED  BY <1>4, <1>8, <2>1
<1>10. k \in 1 .. Len(b) /\ k - 1 \in 0 .. Len(b) /\ ~(k <= k - 1)
  BY <1>0, <1>9
<1>11. ItemsOf(P(k - 1), b, k - 1)
  BY <1>8, <1>10
<1> QED  BY <1>5, <1>8, <1>10, <1>11, ItemsStep

IsResults(f, t) ==
    f = [s \in SUBSET DOMAIN t |->
            IF s = {} THEN << >> ELSE AppendResult(f[s \ {Max(s)}], t[Max(s)])]

LEMMA AppendResultType ==
    ASSUME NEW images \in Seq(Images), NEW item \in Images \cup {None}
    PROVE  AppendResult(images, item) \in Seq(Images)
  BY DEF AppendResult

LEMMA ResultsExist ==
    ASSUME NEW t \in Items
    PROVE  \E f \in [SUBSET DOMAIN t -> Seq(Images)] : IsResults(f, t)
<1> DEFINE G == [p \in (1 .. Len(t)) \X Seq(Images) |-> AppendResult(p[2], t[p[1]])]
<1>0. Len(t) \in Nat /\ DOMAIN t = 1 .. Len(t) /\ << >> \in Seq(Images)
  BY DEF Items
<1>1. G \in [(1 .. Len(t)) \X Seq(Images) -> Seq(Images)]
  BY AppendResultType DEF Items
<1>2. \A i \in 1 .. Len(t), v \in Seq(Images) : G[<<i, v>>] = AppendResult(v, t[i])
  OBVIOUS
<1> HIDE DEF G
<1>3. PICK f \in [SUBSET (1 .. Len(t)) -> Seq(Images)] : IsLeftFold(f, Len(t), << >>, G)
  BY <1>0, <1>1, LeftFold
<1>4. ASSUME NEW s \in SUBSET (1 .. Len(t)), s # {}
      PROVE  G[<<Max(s), f[s \ {Max(s)}]>>] = AppendResult(f[s \ {Max(s)}], t[Max(s)])
  <2>1. Max(s) \in 1 .. Len(t)
    BY <1>0, <1>4, MaxOfIndices
  <2>2. f[s \ {Max(s)}] \in Seq(Images)
    OBVIOUS
  <2> QED  BY <1>2, <2>1, <2>2
<1>5. IsResults(f, t)
  BY <1>0, <1>3, <1>4 DEF IsResults, IsLeftFold
<1> QED  BY <1>0, <1>5

\* The images of the first k items.
ResultsOf(images, t, k) ==
    /\ images \in Seq(Images)
    /\ \A x, y \in DOMAIN images : images[x] = images[y] => x = y
    /\ \A x \in DOMAIN images : \E l \in 1 .. k : images[x] = t[l]

LEMMA ResultsStep ==
    ASSUME NEW t \in Items, Different(t), NEW k \in 1 .. Len(t), NEW images,
           ResultsOf(images, t, k - 1)
    PROVE  ResultsOf(AppendResult(images, t[k]), t, k)
<1>0. /\ Len(t) \in Nat /\ DOMAIN t = 1 .. Len(t) /\ 1 .. k - 1 \subseteq 1 .. k
      /\ k \in DOMAIN t /\ t[k] \in Images \cup {None} /\ images \in Seq(Images)
  BY DEF Items, ResultsOf
<1>1. CASE t[k] = None
  BY <1>0, <1>1 DEF ResultsOf, AppendResult
<1>2. CASE t[k] # None
  <2> DEFINE new == Append(images, t[k])
  <2>1. AppendResult(images, t[k]) = new
    BY <1>2 DEF AppendResult
  <2>2. /\ new \in Seq(Images) /\ DOMAIN new = 1 .. Len(images) + 1
        /\ Len(images) \in Nat /\ DOMAIN images = 1 .. Len(images)
        /\ \A x \in DOMAIN images : new[x] = images[x]
        /\ new[Len(images) + 1] = t[k]
    BY <1>0, <1>2
  <2> HIDE DEF new
  <2>3. \A x \in DOMAIN new : \E l \in 1 .. k : new[x] = t[l]
    BY <1>0, <2>2 DEF ResultsOf
  <2>4. ASSUME NEW x \in DOMAIN images  PROVE images[x] # t[k]
    <3>1. PICK l \in 1 .. k - 1 : images[x] = t[l]
      BY DEF ResultsOf
    <3>2. l \in DOMAIN t /\ l # k
      BY <1>0
    <3> QED  BY <1>0, <1>2, <3>1, <3>2 DEF Different
  <2>5. \A x, y \in DOMAIN new : new[x] = new[y] => x = y
    BY <2>2, <2>4 DEF ResultsOf
  <2> QED  BY <2>1, <2>2, <2>3, <2>5 DEF ResultsOf
<1> QED  BY <1>1, <1>2

\* ImagesOf: no image is there twice.
LEMMA ImagesDifferent ==
    ASSUME NEW b \in Bodies
    PROVE  /\ ImagesOf(b) \in Seq(Images)
           /\ \A x, y \in DOMAIN ImagesOf(b) : ImagesOf(b)[x] = ImagesOf(b)[y] => x = y
<1> DEFINE t == FoldLeft(AppendImages, << >>, b)
           F == CHOOSE f : IsResults(f, t)
           P(k) == F[1 .. k]
           T == {k \in 0 .. Len(t) : ~ResultsOf(P(k), t, k)}
<1>0. t \in Items /\ Different(t)
  BY ItemsDifferent
<1>1. ImagesOf(b) = FoldLeft(AppendResult, << >>, t)
  BY DEF ImagesOf
<1> HIDE DEF t
<1>2. ImagesOf(b) = F[DOMAIN t]
  BY <1>1 DEF FoldLeft, MapThenFoldSet, IsResults
<1>3. Len(t) \in Nat /\ DOMAIN t = 1 .. Len(t)
  BY <1>0 DEF Items
<1>4. IsResults(F, t)
  BY <1>0, ResultsExist
<1> HIDE DEF F
<1>5. \A s \in SUBSET DOMAIN t :
         F[s] = IF s = {} THEN << >> ELSE AppendResult(F[s \ {Max(s)}], t[Max(s)])
  BY <1>4 DEF IsResults
<1>6. P(0) = << >>
  <2>1. 1 .. 0 = {}
    OBVIOUS
  <2> QED  BY <1>5, <2>1
<1>7. ASSUME NEW k \in 1 .. Len(t)  PROVE P(k) = AppendResult(P(k - 1), t[k])
  <2>1. k \in Nat /\ k # 0 /\ k \in 1 .. k
    BY <1>3
  <2>2. 1 .. k \in SUBSET DOMAIN t
    BY <1>3, <2>1
  <2> QED  BY <1>5, <2>1, <2>2, MaxOfPrefix
<1> HIDE DEF P
<1>8. SUFFICES ASSUME T # {}  PROVE FALSE
  <2>1. ResultsOf(P(Len(t)), t, Len(t))
    BY <1>3, <1>8
  <2> QED  BY <1>2, <1>3, <2>1 DEF ResultsOf, P
<1>9. T \in SUBSET Nat
  BY <1>3
<1>10. PICK k \in T : \A j \in T : k <= j
  BY <1>8, <1>9, LeastNat
<1>11. k # 0
  <2>1. ResultsOf(<< >>, t, 0)
    BY DEF ResultsOf
  <2> QED  BY <1>6, <1>10, <2>1
<1>12. k \in 1 .. Len(t) /\ k - 1 \in 0 .. Len(t) /\ ~(k <= k - 1)
  BY <1>3, <1>11
<1>13. ResultsOf(P(k - 1), t, k - 1)
  BY <1>10, <1>12
<1> QED  BY <1>0, <1>7, <1>10, <1>12, <1>13, ResultsStep

-----------------------------------------------------------------------------
(***************************************************************************)
(* Settling.                                                               *)
(***************************************************************************)
Previews == [body : SUBSET Nat, truncated : BOOLEAN]

\* What is sent is the event, unless there is none or its cost panics.
Sent(s, m, u, failed, bytes, p) ==
    /\ event' = None <=> audit = "none" \/ cost_usd_nanos(m, u) = Panic
    /\ event' # None =>
           /\ event'.status = s /\ event'.usage = u /\ event'.error = failed
           /\ event'.bytes = bytes /\ event'.preview = p.body
           /\ event'.truncated = p.truncated
           /\ event'.cost \in I64 \cup {None}

LEMMA SettledEvent ==
    ASSUME NEW s \in Nat, NEW m, NEW u \in Usage, NEW failed \in BOOLEAN, NEW bytes \in Nat,
           NEW p \in Previews, Settled(Event(s, m, u, failed, bytes, p))
    PROVE  Sent(s, m, u, failed, bytes, p)
<1> DEFINE e == Event(s, m, u, failed, bytes, p)
<1>1. /\ e.status = s /\ e.usage = u /\ e.error = failed /\ e.bytes = bytes
      /\ e.preview = p.body /\ e.truncated = p.truncated /\ e.cost = cost_usd_nanos(m, u)
  BY DEF Event
<1>2. e.cost # Panic => e.cost \in I64 \cup {None}
  BY <1>1, CostTypes
<1>3. e.cost # Panic => e # None
  <2>1. p.body \in SUBSET Nat /\ p.truncated \in BOOLEAN
    BY DEF Previews
  <2> SUFFICES ASSUME e.cost # Panic
               PROVE  e \in [status : Nat, usage : Usage, error : BOOLEAN, bytes : Nat,
                             cost : I64 \cup {None}, preview : SUBSET Nat, truncated : BOOLEAN]
    BY NoneAssumption
  <2>2. cost_usd_nanos(m, u) \in I64 \cup {None}
    BY <1>1, <1>2
  <2> QED  BY <2>1, <2>2 DEF Event
<1>4. event' = IF audit = "none" \/ e.cost = Panic THEN None ELSE e
  BY DEF Settled
<1> HIDE DEF e
<1> QED  BY <1>1, <1>2, <1>3, <1>4 DEF Sent

LEMMA AnswerNotNone ==
    ASSUME NEW s \in Nat, NEW images \in Seq(Images)
    PROVE  [status |-> s, images |-> images] # None
  BY NoneAssumption

\* An error of the proxy: it is settled without usage, and costs nothing.
ErrorSent(s) ==
    /\ phase' = "done" /\ client' # None /\ client'.status = s /\ client'.images = << >>
    /\ event' = None <=> audit = "none"
    /\ event' # None =>
           /\ event'.status = s /\ event'.usage = NoUsage /\ event'.error = TRUE
           /\ event'.bytes = 0 /\ event'.preview = {} /\ event'.truncated = FALSE
           /\ event'.cost \in I64 \cup {None}

LEMMA ErrorSettled ==
    ASSUME NEW s \in Nat, FinishError(s)
    PROVE  ErrorSent(s)
<1> DEFINE p == [body |-> {}, truncated |-> FALSE]
<1>1. p \in Previews /\ p.body = {} /\ p.truncated = FALSE
  BY DEF Previews
<1>2. Settled(Event(s, None, NoUsage, TRUE, 0, p))
  BY DEF FinishError
<1> HIDE DEF p
<1>3. cost_usd_nanos(None, NoUsage) # Panic
  BY CostTypes, UsageTypes, UsageAssumption
<1>4. phase' = "done" /\ client' = [status |-> s, images |-> << >>] /\ << >> \in Seq(Images)
  BY DEF FinishError
<1>5. client' # None
  BY <1>4, AnswerNotNone
<1>6. Sent(s, None, NoUsage, TRUE, 0, p)
  <2>1. TRUE \in BOOLEAN /\ 0 \in Nat /\ NoUsage \in Usage
    BY UsageTypes
  <2> QED  BY <1>1, <1>2, <2>1, SettledEvent, Zenon
<1> QED  BY <1>1, <1>3, <1>4, <1>5, <1>6 DEF Sent, ErrorSent

-----------------------------------------------------------------------------
(***************************************************************************)
(* Types, and what is known in each phase.                                 *)
(***************************************************************************)
Fresh ==
    received = 0 /\ pending = 0 /\ usage = NoUsage /\ preview = {} /\ truncated = FALSE

Phases ==
    /\ phase \in {"idle", "forwarded"} => status = None /\ body = << >>
    /\ phase \in {"idle", "forwarded", "reading"} => Fresh /\ client = None
    /\ phase # "done" => event = None
    /\ phase \in {"reading", "streaming"} => status \in Statuses /\ body \in Bodies
    /\ phase = "reading" => ~IsStream(status)
    /\ phase = "streaming" =>
           IsStream(status) /\ client = [status |-> status, images |-> << >>]

EventUsage == event # None => event.usage \in Usage

TypeInv == TypeOK /\ Phases /\ EventUsage

LEMMA BodyTypes ==
    ASSUME TypeOK
    PROVE  body \in Seq(Lines) /\ Len(body) \in Nat /\ DOMAIN body = 1 .. Len(body)
<1>1. body \in Seq(Lines)
  <2>1. << >> \in Seq(Lines)
    OBVIOUS
  <2> QED  BY <2>1, ExchangeAssumption DEF TypeOK
<1> QED  BY <1>1

LEMMA BodyEnds ==
    ASSUME TypeOK
    PROVE  /\ Total(body) \in Nat
           /\ received \in Nat /\ pending \in Nat /\ pending <= received
           /\ \A i \in DOMAIN body : EndOf(body, i) \in Nat /\ EndOf(body, i) <= Total(body)
           /\ \A i \in DOMAIN body : EndOf(body, i - 1) \in Nat
<1>1. \A i \in DOMAIN body : i \in 0 .. Len(body) /\ i - 1 \in 0 .. Len(body)
  BY BodyTypes
<1>2. Len(body) \in 0 .. Len(body)
  BY BodyTypes
<1>3. \A i \in DOMAIN body : EndOf(body, i) \in Nat /\ EndOf(body, i - 1) \in Nat
  BY <1>1, BodyTypes, EndsGrow
<1>4. Total(body) \in Nat
  BY <1>2, BodyTypes, EndsGrow DEF Total
<1>5. ASSUME NEW i \in DOMAIN body  PROVE EndOf(body, i) <= Total(body)
  <2>1. i = Len(body) \/ i < Len(body)
    BY BodyTypes
  <2>2. i < Len(body) => EndOf(body, i) < EndOf(body, Len(body))
    BY <1>1, <1>2, BodyTypes, EndsGrow
  <2> QED  BY <1>3, <1>4, <2>1, <2>2 DEF Total
<1>6. received \in Nat /\ pending \in Nat /\ pending <= received
  BY <1>4 DEF TypeOK
<1> QED  BY <1>3, <1>4, <1>5, <1>6

\* Drained: the buffer begins where the last complete line ends.
LEMMA DrainedLargest ==
    ASSUME TypeOK, NEW n \in Nat
    PROVE  /\ Drained(n) \in pending .. received + n
           /\ \A i \in Completed(n) : EndOf(body, i) <= Drained(n)
           /\ Drained(n) = pending \/ \E i \in Completed(n) : Drained(n) = EndOf(body, i)
<1> DEFINE S == {pending} \cup {EndOf(body, i) : i \in Completed(n)}
<1>1. \A i \in Completed(n) : EndOf(body, i) \in Nat /\ EndOf(body, i) <= received + n
  BY BodyEnds DEF Completed
<1>2. S \in SUBSET Int /\ S # {} /\ received + n \in Int /\ \A x \in S : x <= received + n
  BY <1>1, BodyEnds
<1>3. Max(S) \in S /\ \A x \in S : x <= Max(S)
  BY <1>2, MaxProperties
<1>4. Drained(n) = Max(S)
  BY DEF Drained
<1>5. Drained(n) = pending \/ \E i \in Completed(n) : Drained(n) = EndOf(body, i)
  BY <1>3, <1>4
<1>6. pending <= Drained(n) /\ \A i \in Completed(n) : EndOf(body, i) <= Drained(n)
  BY <1>3, <1>4
<1>7. Drained(n) \in Nat /\ Drained(n) <= received + n
  BY <1>1, <1>5, BodyEnds
<1> QED  BY <1>5, <1>6, <1>7, BodyEnds

LEMMA ClearedRange ==
    ASSUME TypeOK, NEW n \in Nat
    PROVE  Cleared(n, Drained(n)) \in Drained(n) .. received + n
  BY BodyEnds, DrainedLargest DEF Cleared

LEMMA ParsedLines ==
    ASSUME TypeOK, NEW n \in Nat
    PROVE  /\ Parsed(n) \in SUBSET DOMAIN body
           /\ Merged(MergeLines(usage, body, Parsed(n)), usage, body, Parsed(n))
<1>1. Parsed(n) \in SUBSET DOMAIN body /\ usage \in Usage
  BY DEF Parsed, Completed, TypeOK
<1> QED  BY <1>1, BodyTypes, MergeLargest

LEMMA PreviewGrows ==
    ASSUME TypeOK, NEW n \in Nat, capture(n)
    PROVE  preview' \subseteq 1 .. received + n /\ truncated' \in BOOLEAN
<1>1. received \in Nat /\ preview \subseteq 1 .. received
  BY BodyEnds DEF TypeOK
<1>2. IsFiniteSet(preview) /\ Cardinality(preview) \in Nat
  <2>1. IsFiniteSet(1 .. received)
    BY <1>1, FS_Interval
  <2> QED  BY <1>1, <2>1, FS_Subset, FS_CardinalityType
<1> DEFINE copied == Smaller(Larger(0, ARCHIVE_BODY_LIMIT - Cardinality(preview)), n)
<1>3. copied \in 0 .. n
  BY <1>2, ExchangeAssumption DEF Smaller, Larger
<1>4. preview' = preview \cup (received + 1 .. received + copied)
  BY DEF capture
<1>5. truncated' \in BOOLEAN
  BY DEF capture
<1> HIDE DEF copied
<1> QED  BY <1>1, <1>3, <1>4, <1>5

LEMMA UsageOfTypes ==
    ASSUME NEW b \in Bodies
    PROVE  /\ usage_from_bytes(b) \in Usage
           /\ UsageOf(b) \in Usage /\ UsageOf(b).input_tokens >= 0
<1>0. b \in Seq(Lines) /\ Len(b) \in Nat /\ DOMAIN b = 1 .. Len(b)
  BY ExchangeAssumption
<1>1. usage_from_bytes(b) \in Usage
  <2>1. Len(b) = 1 => 1 \in 1 .. Len(b)
    BY <1>0
  <2> QED  BY <1>0, <2>1, LineTypes, UsageTypes DEF usage_from_bytes
<1> DEFINE I == {i \in DOMAIN b : b[i].kind = "data"}
<1>2. Merged(UsageOf(b), NoUsage, b, I)
  BY <1>0, MergeLargest, UsageTypes DEF UsageOf
<1>3. "input_tokens" \in Counts /\ NoUsage["input_tokens"] = 0
  BY DEF Counts, NoUsage
<1> QED  BY <1>1, <1>2, <1>3 DEF Merged

\* What each end of a call sends.
LEMMA WholePreviewTypes ==
    ASSUME NEW n \in Nat
    PROVE  /\ WholePreview(n) \in Previews
           /\ audit = "archive" =>
                  /\ WholePreview(n).body = 1 .. Smaller(n, ARCHIVE_BODY_LIMIT)
                  /\ WholePreview(n).truncated <=> n > ARCHIVE_BODY_LIMIT
<1>1. 1 .. Smaller(n, ARCHIVE_BODY_LIMIT) \in SUBSET Nat
  BY ExchangeAssumption DEF Smaller
<1>2. CASE audit = "archive"
  <2>1. /\ WholePreview(n).body = 1 .. Smaller(n, ARCHIVE_BODY_LIMIT)
        /\ WholePreview(n).truncated = (n > ARCHIVE_BODY_LIMIT)
        /\ WholePreview(n) = [body |-> 1 .. Smaller(n, ARCHIVE_BODY_LIMIT),
                             truncated |-> n > ARCHIVE_BODY_LIMIT]
    BY <1>2 DEF WholePreview, body_preview
  <2>2. (n > ARCHIVE_BODY_LIMIT) \in BOOLEAN
    OBVIOUS
  <2> QED  BY <1>1, <2>1, <2>2 DEF Previews
<1>3. CASE audit # "archive"
  BY <1>3 DEF WholePreview, Previews
<1> QED  BY <1>2, <1>3

LEMMA WholeSent ==
    ASSUME TypeInv, RelayWhole
    PROVE  Sent(status, context.model, usage_from_bytes(body), ~Success(status), Total(body),
                WholePreview(Total(body)))
<1> DEFINE p == WholePreview(Total(body))
           failed == ~Success(status)
<1>1. status \in Nat /\ body \in Bodies /\ Total(body) \in Nat
  BY ExchangeAssumption, BodyEnds DEF TypeInv, Phases, RelayWhole
<1>2. p \in Previews /\ failed \in BOOLEAN
  BY <1>1, WholePreviewTypes
<1>3. Settled(Event(status, context.model, usage_from_bytes(body), failed, Total(body), p))
  BY DEF RelayWhole
<1> HIDE DEF p, failed
<1>4. Sent(status, context.model, usage_from_bytes(body), failed, Total(body), p)
  BY <1>1, <1>2, <1>3, UsageOfTypes, SettledEvent
<1> QED  BY <1>4 DEF p, failed

LEMMA ImagesSent ==
    ASSUME TypeInv, RelayImages, ImagesOf(body) # << >>
    PROVE  /\ Sent(status, context.model, UsageOf(body), FALSE, Len(ImagesOf(body)) + 1,
                   WholePreview(Len(ImagesOf(body)) + 1))
           /\ event' = None <=> audit = "none"
           /\ phase' = "done" /\ client' = [status |-> 200, images |-> ImagesOf(body)]
           /\ client' # None
<1> DEFINE n == Len(ImagesOf(body)) + 1
           p == WholePreview(n)
           failed == FALSE
<1>1. status \in Nat /\ body \in Bodies
  BY ExchangeAssumption DEF TypeInv, Phases, RelayImages
<1>2. ImagesOf(body) \in Seq(Images)
  BY <1>1, ImagesDifferent
<1>3. n \in Nat /\ p \in Previews /\ failed \in BOOLEAN
  BY <1>2, WholePreviewTypes
<1>4. Settled(Event(status, context.model, UsageOf(body), failed, n, p))
  BY DEF RelayImages
<1> HIDE DEF n, p, failed
<1>5. Sent(status, context.model, UsageOf(body), failed, n, p)
  BY <1>1, <1>3, <1>4, UsageOfTypes, SettledEvent
<1>6. cost_usd_nanos(context.model, UsageOf(body)) # Panic
  BY <1>1, UsageOfTypes, CostTypes, CountsInt
<1>7. phase' = "done" /\ client' = [status |-> 200, images |-> ImagesOf(body)]
  BY DEF RelayImages
<1>8. client' # None
  BY <1>2, <1>7, AnswerNotNone
<1> QED  BY <1>5, <1>6, <1>7, <1>8 DEF n, p, failed, Sent

LEMMA StreamSent ==
    ASSUME TypeInv, StreamEnds
    PROVE  \/ /\ received = Total(body)
              /\ Sent(status, context.model, usage, FALSE, received,
                      [body |-> preview, truncated |-> truncated \/ FALSE])
           \/ Sent(502, context.model, usage, TRUE, received,
                   [body |-> preview, truncated |-> truncated \/ TRUE])
<1>1. status \in Nat /\ received \in Nat /\ usage \in Usage /\ preview \in SUBSET Nat
      /\ truncated \in BOOLEAN
  BY ExchangeAssumption, BodyEnds DEF TypeInv, TypeOK, Phases, StreamEnds
<1>2. ASSUME NEW failed \in BOOLEAN, NEW s \in Nat,
             Settled(Event(s, context.model, usage, failed, received,
                           [body |-> preview, truncated |-> truncated \/ failed]))
      PROVE  Sent(s, context.model, usage, failed, received,
                  [body |-> preview, truncated |-> truncated \/ failed])
  <2> DEFINE p == [body |-> preview, truncated |-> truncated \/ failed]
  <2>1. p \in Previews
    BY <1>1 DEF Previews
  <2> HIDE DEF p
  <2>2. Settled(Event(s, context.model, usage, failed, received, p))
    BY <1>2 DEF p
  <2>3. Sent(s, context.model, usage, failed, received, p)
    BY <1>1, <1>2, <2>1, <2>2, SettledEvent
  <2> QED  BY <2>3 DEF p
<1>3. CASE received = Total(body) /\ Settled(FinishStream(FALSE))
  <2>1. Settled(Event(status, context.model, usage, FALSE, received,
                      [body |-> preview, truncated |-> truncated \/ FALSE]))
    BY <1>3 DEF FinishStream
  <2> QED  BY <1>1, <1>2, <1>3, <2>1
<1>4. CASE Settled(FinishStream(TRUE))
  <2>1. Settled(Event(502, context.model, usage, TRUE, received,
                      [body |-> preview, truncated |-> truncated \/ TRUE]))
    BY <1>4 DEF FinishStream
  <2>2. 502 \in Nat
    OBVIOUS
  <2> QED  BY <1>2, <2>1, <2>2
<1> QED  BY <1>3, <1>4 DEF StreamEnds

LEMMA DropSent ==
    ASSUME TypeInv, DropBody
    PROVE  Sent(499, context.model, usage, TRUE, received, [body |-> preview, truncated |-> TRUE])
<1> DEFINE p == [body |-> preview, truncated |-> TRUE]
           s == 499
           failed == TRUE
<1>1. received \in Nat /\ usage \in Usage /\ p \in Previews /\ s \in Nat /\ failed \in BOOLEAN
  BY BodyEnds DEF TypeInv, TypeOK, Previews
<1>2. Settled(Event(s, context.model, usage, failed, received, p))
  BY DEF DropBody, CancelledStream
<1> HIDE DEF p, s, failed
<1>3. Sent(s, context.model, usage, failed, received, p)
  BY <1>1, <1>2, SettledEvent
<1> QED  BY <1>3 DEF p, s, failed

LEMMA TrackerSent ==
    ASSUME TypeInv, DropTracker
    PROVE  /\ Sent(499, None, NoUsage, TRUE, 0, [body |-> {}, truncated |-> TRUE])
           /\ event' = None <=> audit = "none"
<1> DEFINE p == [body |-> {}, truncated |-> TRUE]
           s == 499
           failed == TRUE
           n == 0
<1>1. n \in Nat /\ p \in Previews /\ s \in Nat /\ failed \in BOOLEAN
  BY DEF Previews
<1>2. Settled(Event(s, None, NoUsage, failed, n, p))
  BY DEF DropTracker
<1> HIDE DEF p, s, failed, n
<1>3. Sent(s, None, NoUsage, failed, n, p)
  BY <1>1, <1>2, UsageTypes, SettledEvent
<1>4. cost_usd_nanos(None, NoUsage) # Panic
  BY CostTypes, UsageTypes, UsageAssumption
<1> QED  BY <1>3, <1>4 DEF p, s, failed, n, Sent

LEMMA TypeInvInit == Init => TypeInv
<1> SUFFICES ASSUME Init  PROVE TypeInv
  OBVIOUS
<1>1. << >> \in Seq(Lines) /\ Len(<< >>) = 0
  OBVIOUS
<1>2. Total(<< >>) = 0
  BY <1>1, EndStep DEF Total
<1>3. TypeOK
  <2>1. /\ received \in 0 .. Total(body) /\ pending \in 0 .. received /\ preview \subseteq 1 .. received
    BY <1>2 DEF Init
  <2> QED  BY <2>1, UsageTypes DEF Init, TypeOK
<1> QED  BY <1>3 DEF Init, TypeInv, Phases, EventUsage, Fresh

LEMMA TypeInvError ==
    ASSUME TypeInv, NEW s \in Nat, FinishError(s), UNCHANGED <<audit, status, body, stream_vars>>
    PROVE  TypeInv'
<1>1. phase' = "done" /\ (event' # None => event'.cost \in I64 \cup {None} /\ event'.usage = NoUsage)
  BY ErrorSettled DEF ErrorSent
<1> QED  BY <1>1, UsageTypes DEF TypeInv, TypeOK, Phases, EventUsage, stream_vars

LEMMA TypeInvStep == TypeInv /\ [Next]_vars => TypeInv'
<1> SUFFICES ASSUME TypeInv, [Next]_vars  PROVE TypeInv'
  OBVIOUS
<1> USE DEF TypeInv
<1>0. Statuses \subseteq Nat /\ NoUsage \in Usage
  BY ExchangeAssumption, UsageTypes
<1>1. ASSUME NEW r \in Requests, Receive(r[1], r[2])  PROVE TypeInv'
  <2>1. CASE Accepted(r[1], r[2])
    BY <1>1, <2>1 DEF Receive, TypeOK, Phases, EventUsage, Fresh, IsStream, stream_vars
  <2>2. CASE ~Accepted(r[1], r[2])
    <3>1. PICK s \in {400} : FinishError(s)
      BY <1>1, <2>2 DEF Receive
    <3>2. s \in Nat /\ UNCHANGED <<audit, status, body, stream_vars>>
      BY <1>1 DEF Receive
    <3> QED  BY <3>1, <3>2, TypeInvError
  <2> QED  BY <2>1, <2>2
<1>2. ASSUME SendFails \/ ReadFails  PROVE TypeInv'
  <2>1. PICK s \in {500, 503} : FinishError(s)
    BY <1>2 DEF SendFails, ReadFails
  <2>2. s \in Nat /\ UNCHANGED <<audit, status, body, stream_vars>>
    BY <1>2 DEF SendFails, ReadFails, request_vars
  <2> QED  BY <2>1, <2>2, TypeInvError
<1>3. ASSUME NEW s \in Statuses, NEW b \in Bodies, Answer(s, b)  PROVE TypeInv'
  <2>1. Total(b) \in Nat
    <3>1. b \in Seq(Lines) /\ Len(b) \in 0 .. Len(b)
      BY ExchangeAssumption
    <3> QED  BY <3>1, EndsGrow DEF Total
  <2>2. UNCHANGED <<audit, context, received, pending, usage, preview, truncated, event>>
        /\ status' = s /\ body' = b /\ phase = "forwarded"
    BY <1>3 DEF Answer, stream_vars
  <2>3. Fresh /\ client = None /\ event = None
    BY <2>2 DEF Phases
  <2>4. TypeOK'
    BY <1>3, <2>1, <2>2, <2>3 DEF TypeOK, Answer, Fresh
  <2>5. IsStream(s) <=> IsStream(status)'
    BY <2>2 DEF IsStream
  <2>6. Phases'
    BY <1>3, <2>2, <2>3, <2>5 DEF Phases, Answer, Fresh
  <2> QED  BY <2>2, <2>4, <2>6 DEF EventUsage
\* The ends of a call leave everything but the client and the event alone.
<1>4. ASSUME RelayWhole \/ RelayImages \/ StreamEnds \/ DropBody \/ DropTracker,
             event' # None => event'.cost \in I64 \cup {None} /\ event'.usage \in Usage
      PROVE  TypeInv'
  <2>1. phase' = "done" /\ UNCHANGED <<request_vars, status, body, stream_vars>>
    BY <1>4 DEF RelayWhole, RelayImages, StreamEnds, DropBody, DropTracker, FinishError
  <2> QED  BY <1>4, <2>1 DEF TypeOK, Phases, EventUsage, request_vars, stream_vars
<1>5. CASE RelayWhole
  <2>1. body \in Bodies
    BY <1>5 DEF RelayWhole, Phases
  <2> QED  BY <1>4, <1>5, <2>1, WholeSent, UsageOfTypes DEF Sent
<1>6. CASE RelayImages
  <2>1. body \in Bodies
    BY <1>6 DEF RelayImages, Phases
  <2>2. CASE ImagesOf(body) = << >>
    <3>1. PICK s \in {502} : FinishError(s)
      BY <1>6, <2>2 DEF RelayImages
    <3>2. s \in Nat /\ UNCHANGED <<audit, status, body, stream_vars>>
      BY <1>6 DEF RelayImages, request_vars
    <3> QED  BY <3>1, <3>2, TypeInvError
  <2>3. CASE ImagesOf(body) # << >>
    BY <1>4, <1>6, <2>1, <2>3, ImagesSent, UsageOfTypes DEF Sent
  <2> QED  BY <2>2, <2>3
<1>7. CASE StreamEnds
  BY <1>4, <1>7, StreamSent DEF Sent, TypeOK
<1>8. CASE DropBody
  BY <1>4, <1>8, DropSent DEF Sent, TypeOK
<1>9. CASE DropTracker
  BY <1>0, <1>4, <1>9, TrackerSent DEF Sent
<1>10. ASSUME NEW n \in 1 .. MaxChunk, Chunk(n)  PROVE TypeInv'
  <2>1. n \in Nat /\ received \in Nat /\ Total(body) \in Nat
    BY ExchangeAssumption, BodyEnds
  <2>2. /\ phase = "streaming" /\ received + n <= Total(body) /\ received' = received + n
        /\ UNCHANGED <<phase, request_vars, status, body, client, event>>
    BY <1>10 DEF Chunk
  <2>3. usage' \in Usage /\ pending' \in 0 .. received'
    <3>1. CASE audit = "none"
      BY <1>10, <2>1, <2>2, <3>1, BodyEnds DEF Chunk, TypeOK
    <3>2. CASE audit # "none"
      <4>1. usage' = MergeLines(usage, body, Parsed(n)) /\ pending' = Cleared(n, Drained(n))
        BY <1>10, <3>2 DEF Chunk, update_sse_usage
      <4>2. usage' \in Usage
        BY <2>1, <4>1, ParsedLines DEF Merged
      <4> QED  BY <2>1, <2>2, <4>1, <4>2, ClearedRange, DrainedLargest, BodyEnds
    <3> QED  BY <3>1, <3>2
  <2>4. preview' \subseteq 1 .. received' /\ truncated' \in BOOLEAN
    <3>1. CASE audit = "archive"
      BY <1>10, <2>1, <2>2, <3>1, PreviewGrows DEF Chunk
    <3>2. CASE audit # "archive"
      <4>1. preview' = preview /\ truncated' = truncated
        BY <1>10, <3>2 DEF Chunk
      <4>2. preview \subseteq 1 .. received /\ truncated \in BOOLEAN
        BY DEF TypeOK
      <4> QED  BY <2>1, <2>2, <4>1, <4>2
    <3> QED  BY <3>1, <3>2
  <2>5. TypeOK'
    BY <2>1, <2>2, <2>3, <2>4 DEF TypeOK, request_vars
  <2>6. Phases'
    BY <2>2 DEF Phases, IsStream, request_vars
  <2> QED  BY <2>2, <2>5, <2>6 DEF EventUsage
<1>11. CASE UNCHANGED vars
  BY <1>11 DEF vars, request_vars, stream_vars, TypeOK, Phases, EventUsage, Fresh, IsStream
<1> QED  BY <1>1, <1>2, <1>3, <1>5, <1>6, <1>7, <1>8, <1>9, <1>10, <1>11 DEF Next

(***************************************************************************)
(* The types of the variables, for every behaviour; in particular a cost   *)
(* fits an i64 whatever the upstream reports.                              *)
(***************************************************************************)
THEOREM ExchangeTypes == Spec => []TypeOK
<1>1. TypeInv => TypeOK
  BY DEF TypeInv
<1> QED  BY <1>1, TypeInvInit, TypeInvStep, PTL DEF Spec

LEMMA ExchangeTypeInv == Spec => []TypeInv
  BY TypeInvInit, TypeInvStep, PTL DEF Spec

-----------------------------------------------------------------------------
(***************************************************************************)
(* The request.                                                            *)
(***************************************************************************)
LEMMA ImageKept ==
    ASSUME NEW object, ImageAccepted(object)
    PROVE  ImageFieldsKept(object, ImageCall(object))
<1> DEFINE call == ImageCall(object)
<1> USE DEF Has
<1>1. validate_image_request(object)
  BY DEF ImageAccepted
<1>2. call.content.text = object.prompt
  BY DEF ImageCall
<1>3. Has(object, "reference_images") => call.content.images = object.reference_images[2]
  BY DEF ImageCall, reference_image_inputs
<1>4. ASSUME NEW f \in DOMAIN object \cap ImageParameters  PROVE call.tool[f] = object[f]
  <2>1. CASE f \in {"model", "size"}
    <3>1. IsStr(object[f])
      BY <1>1, <1>4, <2>1 DEF validate_image_request
    <3> QED  BY <1>4, <2>1, <3>1 DEF ImageCall, StrOr
  <2>2. CASE f \in {"quality", "background", "output_format", "moderation"}
    <3>1. object[f][1] = "string"
      BY <1>1, <1>4, <2>2 DEF validate_image_request, validate_enum
    <3>2. IsStr(object[f])
      BY <3>1 DEF IsStr
    <3> QED  BY <1>4, <2>2, <3>2 DEF ImageCall, StrOr
  <2>3. CASE f = "output_compression"
    <3>1. IsInt(object[f]) /\ object[f][2] \in 0 .. 100
      BY <1>1, <1>4, <2>3 DEF validate_image_request, ValidCompression
    <3> QED  BY <1>4, <2>3, <3>1 DEF ImageCall, NatOr
  <2> QED  BY <1>4, <2>1, <2>2, <2>3 DEF ImageParameters
<1>5. ASSUME NEW f \in DOMAIN object \cap DOMAIN Implied  PROVE object[f] = Implied[f]
  <2>1. f \in {"n", "stream", "response_format"}
    BY <1>5 DEF Implied
  <2>2. /\ Implied["n"] = <<"int", 1>> /\ Implied["stream"] = <<"bool", FALSE>>
        /\ Implied["response_format"] = <<"string", "b64_json">>
    BY DEF Implied
  <2>3. CASE f = "n"
    BY <1>1, <1>5, <2>2, <2>3 DEF validate_image_request
  <2>4. CASE f = "stream"
    BY <1>1, <1>5, <2>2, <2>4 DEF validate_image_request
  <2>5. CASE f = "response_format"
    BY <1>1, <1>5, <2>2, <2>5 DEF validate_image_request
  <2> QED  BY <2>1, <2>3, <2>4, <2>5
<1> QED  BY <1>2, <1>3, <1>4, <1>5 DEF ImageFieldsKept

LEMMA ResponsesKept ==
    ASSUME NEW object, NEW path \in {"responses", "compact"}
    PROVE  ResponsesFieldsKept(path, object, ResponsesCall(path, object))
<1>1. CASE path = "responses"
  BY <1>1 DEF ResponsesFieldsKept, ResponsesCall, Stripped, Has
<1>2. CASE path = "compact"
  BY <1>2 DEF ResponsesFieldsKept, ResponsesCall, Stripped, Has
<1> QED  BY <1>1, <1>2

(***************************************************************************)
(* transform_request, for requests with any fields of any types: in an     *)
(* accepted image request the prompt, the reference images and the         *)
(* parameters of the tool go upstream with the client's values and n,      *)
(* stream and response_format have the value they stand for; a Responses   *)
(* request loses max_output_tokens and temperature, has store replaced and *)
(* may get instructions, and a compact one only the last.                  *)
(***************************************************************************)
THEOREM RequestsKept == Spec => []FieldsAccountedFor
<1>1. Init => FieldsAccountedFor
  BY DEF Init, FieldsAccountedFor
<1>2. FieldsAccountedFor /\ [Next]_vars => FieldsAccountedFor'
  <2> SUFFICES ASSUME FieldsAccountedFor, [Next]_vars, phase' = "forwarded"
               PROVE  FieldsAccountedFor'
    BY DEF FieldsAccountedFor
  <2>1. ASSUME NEW r \in Requests, Receive(r[1], r[2])  PROVE FieldsAccountedFor'
    <3> DEFINE path == r[1]
               object == r[2]
    <3>1. path \in {"images", "responses", "compact"}
      BY ExchangeAssumption
    <3>2. /\ Accepted(path, object)
          /\ request' = <<path, object>> /\ forwarded' = Transformed(path, object)
      BY <2>1 DEF Receive, FinishError
    <3> HIDE DEF path, object
    <3>3. CASE path = "images"
      <4>1. ImageAccepted(object) /\ forwarded' = ImageCall(object)
        BY <3>2, <3>3 DEF Accepted, Transformed
      <4>2. ImageFieldsKept(object, forwarded')
        BY <4>1, ImageKept
      <4> QED  BY <3>2, <3>3, <4>2 DEF FieldsAccountedFor
    <3>4. CASE path \in {"responses", "compact"}
      <4>1. forwarded' = ResponsesCall(path, object)
        BY <3>2, <3>4 DEF Transformed
      <4>2. ResponsesFieldsKept(path, object, forwarded')
        BY <3>4, <4>1, ResponsesKept
      <4> QED  BY <3>2, <3>4, <4>2 DEF FieldsAccountedFor
    <3> QED  BY <3>1, <3>3, <3>4
  <2>2. CASE UNCHANGED vars
    BY <2>2 DEF vars, request_vars, FieldsAccountedFor
  <2>3. ASSUME \/ SendFails \/ ReadFails \/ RelayWhole \/ RelayImages \/ StreamEnds
               \/ DropBody \/ DropTracker
               \/ \E s \in Statuses, b \in Bodies : Answer(s, b)
               \/ \E n \in 1 .. MaxChunk : Chunk(n)
        PROVE  FALSE
    BY <2>3 DEF SendFails, ReadFails, RelayWhole, RelayImages, StreamEnds, DropBody, DropTracker,
                Answer, Chunk, FinishError
  <2> QED  BY <2>1, <2>2, <2>3 DEF Next
<1> QED  BY <1>1, <1>2, PTL DEF Spec

-----------------------------------------------------------------------------
(***************************************************************************)
(* A stream.  Of the line that is still incomplete the buffer has the      *)
(* beginning, unless more than PENDING_LIMIT bytes of it have arrived; so  *)
(* a line that is not longer is parsed when its newline arrives.           *)
(***************************************************************************)
BufferInv ==
    phase = "streaming" /\ audit # "none" =>
        \A i \in DOMAIN body :
            EndOf(body, i - 1) <= received /\ received < EndOf(body, i) =>
                \/ pending = EndOf(body, i - 1)
                \/ received - EndOf(body, i - 1) > PENDING_LIMIT

\* The usage has the largest counts: at least those of the lines that fit,
\* and none but those of lines that have arrived.
UsageInv ==
    phase = "streaming" /\ audit # "none" =>
        \A c \in Counts :
            /\ usage[c] >= 0
            /\ \A i \in LinesUpTo(PENDING_LIMIT + 1) : Reported(body, i, c) <= usage[c]
            /\ \/ usage[c] = 0
               \/ \E i \in LinesUpTo(Total(body)) : usage[c] = Reported(body, i, c)

PreviewInv ==
    phase = "streaming" /\ audit = "archive" =>
        /\ preview = 1 .. Smaller(received, ARCHIVE_BODY_LIMIT)
        /\ truncated <=> received > ARCHIVE_BODY_LIMIT

StreamInv == BufferInv /\ UsageInv /\ PreviewInv

\* The ends of two lines, and the size of a line.
LEMMA LineEnds ==
    ASSUME TypeOK, NEW i \in DOMAIN body
    PROVE  /\ EndOf(body, i) = EndOf(body, i - 1) + body[i].bytes
           /\ body[i].bytes \in Nat /\ body[i].bytes > 0
           /\ EndOf(body, i) \in Nat /\ EndOf(body, i - 1) \in Nat
           /\ i = 1 => EndOf(body, i - 1) = 0
           /\ \A j \in DOMAIN body : j < i => EndOf(body, j) <= EndOf(body, i - 1)
           /\ \A j \in DOMAIN body : EndOf(body, j) < EndOf(body, i) => j < i
<1>1. i \in 1 .. Len(body) /\ Len(body) \in Nat /\ body \in Seq(Lines)
  BY BodyTypes
<1>2. /\ EndOf(body, i) = EndOf(body, i - 1) + body[i].bytes
      /\ body[i].bytes \in Nat /\ body[i].bytes > 0
  BY <1>1, EndStep, LineTypes
<1>3. EndOf(body, i) \in Nat /\ EndOf(body, i - 1) \in Nat
  BY BodyEnds
<1>4. i = 1 => EndOf(body, i - 1) = 0
  <2>1. EndOf(body, 0) = 0
    BY <1>1, EndStep
  <2>2. i = 1 => i - 1 = 0
    OBVIOUS
  <2> QED  BY <2>1, <2>2
<1>5. ASSUME NEW j \in DOMAIN body
      PROVE  /\ j < i => EndOf(body, j) <= EndOf(body, i - 1)
             /\ EndOf(body, j) < EndOf(body, i) => j < i
  <2>1. j \in 1 .. Len(body) /\ j \in 0 .. Len(body)
    BY BodyTypes
  <2>2. i - 1 \in 0 .. Len(body) /\ i \in 0 .. Len(body)
    BY <1>1
  <2>3. j < i - 1 => EndOf(body, j) < EndOf(body, i - 1)
    BY <1>1, <2>1, <2>2, EndsGrow
  <2>4. i < j => EndOf(body, i) < EndOf(body, j)
    BY <1>1, <2>1, <2>2, EndsGrow
  <2>5. EndOf(body, j) \in Nat
    BY BodyEnds
  <2>6. ASSUME j < i  PROVE EndOf(body, j) <= EndOf(body, i - 1)
    <3>1. j = i - 1 \/ j < i - 1
      BY <1>1, <2>1, <2>6
    <3> QED  BY <1>3, <2>3, <2>5, <3>1
  <2>7. ASSUME EndOf(body, j) < EndOf(body, i)  PROVE j < i
    <3>1. j # i /\ ~(i < j)
      BY <1>3, <2>4, <2>5, <2>7
    <3> QED  BY <1>1, <2>1, <3>1
  <2> QED  BY <2>6, <2>7
<1> QED  BY <1>2, <1>3, <1>4, <1>5

\* A chunk moves the buffer to the beginning of the incomplete line, or, when
\* too much of it is there, to its own end.
LEMMA BufferStep ==
    ASSUME TypeInv, BufferInv, NEW n \in Nat, n > 0, phase = "streaming", audit # "none",
           NEW i \in DOMAIN body,
           EndOf(body, i - 1) <= received + n, received + n < EndOf(body, i)
    PROVE  \/ Cleared(n, Drained(n)) = EndOf(body, i - 1)
           \/ received + n - EndOf(body, i - 1) > PENDING_LIMIT
<1> DEFINE start == EndOf(body, i - 1)
<1>0. TypeOK
  BY DEF TypeInv
<1>1. /\ received \in Nat /\ pending \in Nat /\ pending <= received /\ start \in Nat
      /\ EndOf(body, i) \in Nat /\ PENDING_LIMIT \in Nat
  BY <1>0, BodyEnds, ExchangeAssumption
<1>2. Drained(n) \in Nat
  BY <1>0, <1>1, DrainedLargest
<1>3. CASE start <= received
  <2>1. ASSUME NEW j \in Completed(n)  PROVE FALSE
    <3>1. j \in DOMAIN body /\ EndOf(body, j) \in Nat
          /\ EndOf(body, j) <= received + n /\ EndOf(body, j) > received
      BY <1>0, <1>1, BodyEnds DEF Completed
    <3>2. EndOf(body, j) < EndOf(body, i)
      BY <1>1, <3>1
    <3>3. j < i
      BY <1>0, <3>1, <3>2, LineEnds
    <3>4. EndOf(body, j) <= start
      BY <1>0, <3>1, <3>3, LineEnds
    <3> QED  BY <1>1, <1>3, <3>1, <3>4
  <2>2. Drained(n) = pending
    BY <1>0, <2>1, DrainedLargest
  <2>3. pending = start \/ received - start > PENDING_LIMIT
    <3>1. received < EndOf(body, i)
      BY <1>1
    <3> QED  BY <1>3, <3>1 DEF BufferInv
  <2> HIDE DEF start
  <2>4. Cleared(n, Drained(n)) = start \/ received + n - start > PENDING_LIMIT
    BY <1>1, <1>2, <2>2, <2>3 DEF Cleared
  <2> QED  BY <2>4 DEF start
<1>4. CASE start > received
  <2>1. i # 1 /\ i \in 1 .. Len(body) /\ Len(body) \in Nat
    BY <1>0, <1>1, <1>4, LineEnds, BodyTypes
  <2>2. i - 1 \in DOMAIN body
    BY <1>0, <2>1, BodyTypes
  <2>3. i - 1 \in Completed(n)
    BY <1>1, <1>4, <2>2 DEF Completed
  <2>4. start <= Drained(n) /\ Drained(n) # pending
    BY <1>0, <1>1, <1>2, <1>4, <2>3, DrainedLargest
  <2>5. PICK j \in Completed(n) : Drained(n) = EndOf(body, j)
    BY <1>0, <2>4, DrainedLargest
  <2>6. j \in DOMAIN body /\ EndOf(body, j) \in Nat /\ EndOf(body, j) <= received + n
    BY <1>0, <1>1, BodyEnds DEF Completed
  <2>7. EndOf(body, j) < EndOf(body, i)
    BY <1>1, <2>6
  <2>8. EndOf(body, j) <= start
    BY <1>0, <2>6, <2>7, LineEnds
  <2>9. Drained(n) = start
    BY <1>1, <1>2, <2>4, <2>5, <2>8
  <2> HIDE DEF start
  <2>10. Cleared(n, Drained(n)) = start \/ received + n - start > PENDING_LIMIT
    BY <1>1, <2>9 DEF Cleared
  <2> QED  BY <2>10 DEF start
<1> QED  BY <1>1, <1>3, <1>4

\* A data line that fits is parsed when it is complete.
LEMMA FittingParsed ==
    ASSUME TypeInv, BufferInv, NEW n \in Nat, phase = "streaming", audit # "none",
           NEW i \in Completed(n), body[i].kind = "data", body[i].bytes <= PENDING_LIMIT + 1
    PROVE  i \in Parsed(n)
<1> DEFINE start == EndOf(body, i - 1)
<1>0. TypeOK /\ i \in DOMAIN body
  BY DEF TypeInv, Completed
<1>1. /\ received \in Nat /\ pending \in Nat /\ pending <= received /\ PENDING_LIMIT \in Nat
  BY <1>0, BodyEnds, ExchangeAssumption
<1>2. /\ EndOf(body, i) = start + body[i].bytes /\ body[i].bytes \in Nat
      /\ start \in Nat /\ EndOf(body, i) \in Nat
  BY <1>0, LineEnds
<1>3. EndOf(body, i) > received
  BY <1>1, <1>2 DEF Completed
<1>4. CASE start > received
  BY <1>1, <1>2, <1>4 DEF Parsed
<1>5. CASE start <= received
  <2>1. pending = start \/ received - start > PENDING_LIMIT
    BY <1>0, <1>3, <1>5 DEF BufferInv
  <2>2. ~(received - start > PENDING_LIMIT)
    BY <1>1, <1>2, <1>3
  <2> QED  BY <1>2, <2>1, <2>2 DEF Parsed
<1> QED  BY <1>1, <1>2, <1>4, <1>5

\* A chunk brings the lines it completes, and merges their counts.
LEMMA UsageStep ==
    ASSUME TypeInv, BufferInv, UsageInv, NEW n \in Nat, phase = "streaming", audit # "none",
           body' = body, received' = received + n,
           usage' = MergeLines(usage, body, Parsed(n)), NEW c \in Counts
    PROVE  /\ usage'[c] >= 0
           /\ \A i \in LinesUpTo(PENDING_LIMIT + 1)' : Reported(body, i, c) <= usage'[c]
           /\ \/ usage'[c] = 0
              \/ \E i \in LinesUpTo(Total(body))' : usage'[c] = Reported(body, i, c)
<1>0. TypeOK /\ received \in Nat /\ usage \in Usage
  BY BodyEnds DEF TypeInv, TypeOK
<1>1. Merged(usage', usage, body, Parsed(n))
  BY <1>0, ParsedLines
<1>2. /\ usage[c] \in Int /\ usage'[c] \in Int /\ usage[c] <= usage'[c]
      /\ \A i \in Parsed(n) : Reported(body, i, c) <= usage'[c]
      /\ usage'[c] = usage[c] \/ \E i \in Parsed(n) : usage'[c] = Reported(body, i, c)
  BY <1>0, <1>1, CountsInt DEF Merged
<1>3. /\ usage[c] >= 0
      /\ \A i \in LinesUpTo(PENDING_LIMIT + 1) : Reported(body, i, c) <= usage[c]
      /\ \/ usage[c] = 0
         \/ \E i \in LinesUpTo(Total(body)) : usage[c] = Reported(body, i, c)
  BY DEF UsageInv
<1>4. ASSUME NEW i \in LinesUpTo(PENDING_LIMIT + 1)'  PROVE Reported(body, i, c) <= usage'[c]
  <2>1. /\ i \in DOMAIN body /\ EndOf(body, i) <= received + n /\ body[i].kind = "data"
        /\ body[i].bytes <= PENDING_LIMIT + 1 /\ EndOf(body, i) \in Nat
    BY <1>0, BodyEnds DEF LinesUpTo
  <2>2. CASE EndOf(body, i) <= received
    <3>1. i \in LinesUpTo(PENDING_LIMIT + 1)
      BY <2>1, <2>2 DEF LinesUpTo
    <3>2. Reported(body, i, c) \in Int
      <4>1. i \in 1 .. Len(body) /\ body \in Seq(Lines)
        BY <1>0, <2>1, BodyTypes
      <4>2. usage_from_value(body[i].report) \in Usage
        BY <4>1, LineTypes, UsageTypes
      <4> QED  BY <4>2, CountsInt DEF Reported
    <3> QED  BY <1>2, <1>3, <3>1, <3>2
  <2>3. CASE EndOf(body, i) > received
    <3>1. i \in Completed(n)
      BY <1>0, <2>1, <2>3 DEF Completed
    <3>2. i \in Parsed(n)
      BY <2>1, <3>1, FittingParsed
    <3> QED  BY <1>2, <3>2
  <2> QED  BY <1>0, <2>1, <2>2, <2>3
<1>5. LinesUpTo(Total(body)) \subseteq LinesUpTo(Total(body))'
  BY <1>0, BodyEnds DEF LinesUpTo
<1>6. Parsed(n) \subseteq LinesUpTo(Total(body))'
  <2> SUFFICES ASSUME NEW i \in Parsed(n)  PROVE i \in LinesUpTo(Total(body))'
    OBVIOUS
  <2>1. i \in DOMAIN body /\ body[i].kind = "data" /\ EndOf(body, i) <= received + n
    BY <1>0 DEF Parsed, Completed
  <2>2. body[i].bytes <= Total(body)
    <3>1. /\ EndOf(body, i) = EndOf(body, i - 1) + body[i].bytes /\ body[i].bytes \in Nat
          /\ EndOf(body, i - 1) \in Nat
      BY <1>0, <2>1, LineEnds
    <3>2. EndOf(body, i) \in Nat /\ EndOf(body, i) <= Total(body) /\ Total(body) \in Nat
      BY <1>0, <2>1, BodyEnds
    <3> QED  BY <3>1, <3>2
  <2> QED  BY <2>1, <2>2 DEF LinesUpTo
<1> QED  BY <1>2, <1>3, <1>4, <1>5, <1>6

\* capture copies until the limit is reached, in the middle of a chunk too.
LEMMA PreviewStep ==
    ASSUME TypeInv, PreviewInv, NEW n \in Nat, n > 0, phase = "streaming", audit = "archive",
           capture(n)
    PROVE  /\ preview' = 1 .. Smaller(received + n, ARCHIVE_BODY_LIMIT)
           /\ truncated' <=> received + n > ARCHIVE_BODY_LIMIT
<1> DEFINE k == Smaller(received, ARCHIVE_BODY_LIMIT)
           copied == Smaller(Larger(0, ARCHIVE_BODY_LIMIT - k), n)
<1>1. received \in Nat /\ ARCHIVE_BODY_LIMIT \in Nat
  BY BodyEnds, ExchangeAssumption DEF TypeInv
<1>2. preview = 1 .. k /\ (truncated <=> received > ARCHIVE_BODY_LIMIT) /\ truncated \in BOOLEAN
  BY DEF PreviewInv, TypeInv, TypeOK
<1>3. k \in Nat /\ copied \in Nat
  BY <1>1 DEF Smaller, Larger
<1>4. Cardinality(preview) = k
  <2> HIDE DEF k
  <2>1. 1 \in Int /\ k \in Int /\ ~(1 > k) => Cardinality(1 .. k) = k - 1 + 1
    BY FS_Interval
  <2>2. 1 > k => 1 .. k = {} /\ k = 0
    BY <1>3
  <2> QED  BY <1>2, <1>3, <2>1, <2>2, FS_EmptySet
<1>5. preview' = (1 .. k) \cup (received + 1 .. received + copied)
      /\ (truncated' <=> truncated \/ copied < n)
  BY <1>2, <1>4 DEF capture
<1>6. CASE received <= ARCHIVE_BODY_LIMIT
  <2>1. k = received /\ received + copied = Smaller(received + n, ARCHIVE_BODY_LIMIT)
    BY <1>1, <1>6 DEF Smaller, Larger
  <2>2. (1 .. received) \cup (received + 1 .. received + copied) = 1 .. received + copied
    BY <1>1, <1>3
  <2> HIDE DEF copied, k
  <2>3. copied < n <=> received + n > ARCHIVE_BODY_LIMIT
    BY <1>1, <1>3, <2>1 DEF Smaller
  <2> QED  BY <1>1, <1>2, <1>5, <1>6, <2>1, <2>2, <2>3
<1>7. CASE received > ARCHIVE_BODY_LIMIT
  <2>1. copied = 0 /\ k = Smaller(received + n, ARCHIVE_BODY_LIMIT)
    BY <1>1, <1>7 DEF Smaller, Larger
  <2>2. received + 1 .. received + 0 = {}
    BY <1>1
  <2> HIDE DEF copied, k
  <2> QED  BY <1>1, <1>2, <1>5, <1>7, <2>1, <2>2
<1> QED  BY <1>1, <1>6, <1>7

LEMMA StreamInvInit == Init => StreamInv
  BY DEF Init, StreamInv, BufferInv, UsageInv, PreviewInv

\* The answer begins: nothing has arrived, and no line is complete.
LEMMA StreamBegins ==
    ASSUME TypeInv, NEW s \in Statuses, NEW b \in Bodies, Answer(s, b)
    PROVE  StreamInv'
<1>1. /\ phase = "forwarded" /\ received' = 0 /\ pending' = 0 /\ usage' = NoUsage
      /\ preview' = {} /\ truncated' = FALSE /\ ARCHIVE_BODY_LIMIT \in Nat
  BY ExchangeAssumption DEF TypeInv, Phases, Fresh, Answer, stream_vars
<1>2. ASSUME NEW i \in DOMAIN b
      PROVE  EndOf(b, i) \in Nat /\ EndOf(b, i - 1) \in Nat /\ EndOf(b, i) > 0
  <2>1. b \in Seq(Lines) /\ i \in 1 .. Len(b) /\ i \in 0 .. Len(b) /\ i - 1 \in 0 .. Len(b)
    BY ExchangeAssumption
  <2>2. EndOf(b, i) \in Nat /\ EndOf(b, i - 1) \in Nat
    BY <2>1, EndsGrow
  <2>3. EndOf(b, i) = EndOf(b, i - 1) + b[i].bytes /\ b[i].bytes \in Nat /\ b[i].bytes > 0
    BY <2>1, EndStep, LineTypes
  <2> QED  BY <2>2, <2>3
<1>3. body' = b
  BY DEF Answer
<1>4. BufferInv'
  <2> SUFFICES ASSUME NEW i \in DOMAIN b, EndOf(b, i - 1) <= 0
               PROVE  EndOf(b, i - 1) = 0
    BY <1>1, <1>3 DEF BufferInv
  <2> QED  BY <1>2
<1>5. UsageInv'
  <2>1. LinesUpTo(PENDING_LIMIT + 1)' = {}
    BY <1>1, <1>2, <1>3 DEF LinesUpTo
  <2>2. \A c \in Counts : usage'[c] = 0
    BY <1>1 DEF NoUsage
  <2> QED  BY <2>1, <2>2 DEF UsageInv
<1>6. PreviewInv'
  <2>1. Smaller(0, ARCHIVE_BODY_LIMIT) = 0 /\ 1 .. 0 = {} /\ ~(0 > ARCHIVE_BODY_LIMIT)
    BY <1>1 DEF Smaller
  <2> QED  BY <1>1, <2>1 DEF PreviewInv
<1> QED  BY <1>4, <1>5, <1>6 DEF StreamInv

LEMMA StreamInvStep == TypeInv /\ StreamInv /\ [Next]_vars => StreamInv'
<1> SUFFICES ASSUME TypeInv, StreamInv, [Next]_vars  PROVE StreamInv'
  OBVIOUS
<1> USE DEF StreamInv
<1>1. ASSUME phase' # "streaming"  PROVE StreamInv'
  BY <1>1 DEF BufferInv, UsageInv, PreviewInv
<1>2. ASSUME NEW s \in Statuses, NEW b \in Bodies, Answer(s, b)  PROVE StreamInv'
  BY <1>2, StreamBegins
<1>3. ASSUME NEW n \in 1 .. MaxChunk, Chunk(n)  PROVE StreamInv'
  <2>1. n \in Nat /\ n > 0
    BY ExchangeAssumption
  <2>2. /\ phase = "streaming" /\ audit' = audit /\ body' = body /\ received' = received + n
    BY <1>3 DEF Chunk, request_vars
  <2>3. audit # "none" =>
            usage' = MergeLines(usage, body, Parsed(n)) /\ pending' = Cleared(n, Drained(n))
    BY <1>3 DEF Chunk, update_sse_usage
  <2>4. audit = "archive" => capture(n)
    BY <1>3 DEF Chunk
  <2>5. BufferInv'
    <3>1. ASSUME audit # "none", NEW i \in DOMAIN body,
                 EndOf(body, i - 1) <= received + n, received + n < EndOf(body, i)
          PROVE  \/ pending' = EndOf(body, i - 1)
                 \/ received + n - EndOf(body, i - 1) > PENDING_LIMIT
      BY <2>1, <2>2, <2>3, <3>1, BufferStep
    <3>2. audit' # "none" =>
            \A i \in DOMAIN body' :
                EndOf(body', i - 1) <= received' /\ received' < EndOf(body', i) =>
                    \/ pending' = EndOf(body', i - 1)
                    \/ received' - EndOf(body', i - 1) > PENDING_LIMIT
      <4>1. received \in Nat /\ \A i \in DOMAIN body : EndOf(body, i - 1) \in Nat
        BY BodyEnds DEF TypeInv
      <4> QED  BY <2>1, <2>2, <3>1, <4>1, ExchangeAssumption
    <3> QED  BY <3>2, Zenon DEF BufferInv
  <2>6. UsageInv'
    BY <2>1, <2>2, <2>3, UsageStep DEF UsageInv
  <2>7. PreviewInv'
    BY <2>1, <2>2, <2>4, PreviewStep DEF PreviewInv
  <2> QED  BY <2>5, <2>6, <2>7
<1>4. CASE UNCHANGED vars
  BY <1>4 DEF vars, request_vars, stream_vars, BufferInv, UsageInv, PreviewInv, LinesUpTo
<1>5. ASSUME \/ \E r \in Requests : Receive(r[1], r[2])
             \/ SendFails \/ ReadFails \/ RelayWhole \/ RelayImages \/ StreamEnds
             \/ DropBody \/ DropTracker
      PROVE  phase' # "streaming"
  <2>1. \A s : FinishError(s) => phase' = "done"
    BY DEF FinishError
  <2>2. CASE \E r \in Requests : Receive(r[1], r[2])
    BY <2>1, <2>2 DEF Receive
  <2>3. CASE SendFails \/ ReadFails \/ RelayImages
    BY <2>1, <2>3 DEF SendFails, ReadFails, RelayImages
  <2>4. CASE RelayWhole \/ StreamEnds \/ DropBody \/ DropTracker
    BY <2>4 DEF RelayWhole, StreamEnds, DropBody, DropTracker
  <2> QED  BY <1>5, <2>2, <2>3, <2>4
<1> QED  BY <1>1, <1>2, <1>3, <1>4, <1>5 DEF Next

LEMMA ExchangeStreamInv == Spec => []StreamInv
  BY ExchangeTypeInv, StreamInvInit, StreamInvStep, PTL DEF Spec

\* Highest of some lines that have arrived.
LEMMA HighestCount ==
    ASSUME TypeOK, NEW I \in SUBSET DOMAIN body, NEW c \in Counts
    PROVE  /\ Highest(I, c) \in Int /\ Highest(I, c) >= 0
           /\ \A i \in I : Reported(body, i, c) <= Highest(I, c)
           /\ Highest(I, c) = 0 \/ \E i \in I : Highest(I, c) = Reported(body, i, c)
<1> DEFINE S == {0} \cup {Reported(body, i, c) : i \in I}
<1>1. ASSUME NEW i \in I  PROVE Reported(body, i, c) \in Int /\ Reported(body, i, c) <= I64_MAX
  <2>1. i \in 1 .. Len(body) /\ body \in Seq(Lines)
    BY BodyTypes
  <2>2. usage_from_value(body[i].report) \in Usage
    BY <2>1, LineTypes, UsageTypes
  <2>3. Reported(body, i, c) \in I64
    BY <2>2 DEF Reported, Usage
  <2> QED  BY <2>3, UsageAssumption DEF I64
<1>2. S \in SUBSET Int /\ S # {} /\ I64_MAX \in Int /\ \A x \in S : x <= I64_MAX
  BY <1>1, UsageAssumption
<1>3. Highest(I, c) = Max(S)
  BY DEF Highest, Reported
<1>4. Highest(I, c) \in S /\ \A x \in S : x <= Highest(I, c)
  <2> HIDE DEF S
  <2> QED  BY <1>2, <1>3, MaxProperties
<1>5. Highest(I, c) = 0 \/ \E i \in I : Highest(I, c) = Reported(body, i, c)
  BY <1>4
<1>6. 0 \in S /\ \A i \in I : Reported(body, i, c) \in S
  OBVIOUS
<1> HIDE DEF S
<1> QED  BY <1>2, <1>4, <1>5, <1>6

(***************************************************************************)
(* capture_sse: for streams of any lines, cut into chunks of any sizes,    *)
(* the usage that is recorded is the highest of the lines that arrived.    *)
(***************************************************************************)
THEOREM StreamUsage == Spec => []UsageExact
<1>1. TypeInv /\ StreamInv => UsageExact
  <2> SUFFICES ASSUME TypeInv, StreamInv, phase = "streaming", audit # "none", NEW c \in Counts
               PROVE  usage[c] \in Highest(LinesUpTo(PENDING_LIMIT + 1), c)
                                    .. Highest(LinesUpTo(Total(body)), c)
    BY DEF UsageExact
  <2> DEFINE fit == LinesUpTo(PENDING_LIMIT + 1)
             arrived == LinesUpTo(Total(body))
  <2>0. TypeOK /\ usage[c] \in Int
    BY CountsInt DEF TypeInv, TypeOK
  <2>1. fit \in SUBSET DOMAIN body /\ arrived \in SUBSET DOMAIN body
    BY DEF LinesUpTo
  <2>2. /\ usage[c] >= 0 /\ \A i \in fit : Reported(body, i, c) <= usage[c]
        /\ usage[c] = 0 \/ \E i \in arrived : usage[c] = Reported(body, i, c)
    BY DEF StreamInv, UsageInv
  <2> HIDE DEF fit, arrived
  <2>3. Highest(fit, c) \in Int /\ Highest(fit, c) <= usage[c]
    BY <2>0, <2>1, <2>2, HighestCount
  <2>4. Highest(arrived, c) \in Int /\ usage[c] <= Highest(arrived, c)
    BY <2>0, <2>1, <2>2, HighestCount
  <2>5. usage[c] \in Highest(fit, c) .. Highest(arrived, c)
    BY <2>0, <2>3, <2>4
  <2> QED  BY <2>5 DEF fit, arrived
<1> QED  BY <1>1, ExchangeTypeInv, ExchangeStreamInv, PTL

-----------------------------------------------------------------------------
(***************************************************************************)
(* The ends of a call: what is settled at each of them.                    *)
(***************************************************************************)
\* The call ends with an error of the proxy's own, s.
EndsInError(s) == ErrorSent(s) /\ ~Streamed'

LEMMA CallEnds ==
    ASSUME TypeInv, [Next]_vars, phase # "done", phase' = "done"
    PROVE  /\ UNCHANGED <<audit, context, status, body>>
           /\ \/ \E s \in {400, 500, 502, 503} : EndsInError(s)
              \/ RelayWhole /\ ~Streamed'
              \/ RelayImages /\ ImagesOf(body) # << >> /\ ~Streamed'
              \/ StreamEnds /\ Streamed'
              \/ DropBody /\ Streamed'
              \/ DropTracker /\ ~Streamed' /\ client' = None
<1> USE DEF TypeInv, Phases
<1>0. ASSUME UNCHANGED <<context, status>>  PROVE Streamed' <=> Streamed
  BY <1>0 DEF Streamed, IsStream
<1>1. ASSUME NEW s \in {400, 500, 502, 503}, FinishError(s)  PROVE ErrorSent(s)
  <2>1. s \in Nat
    OBVIOUS
  <2> QED  BY <1>1, <2>1, ErrorSettled
<1>2. ASSUME NEW r \in Requests, Receive(r[1], r[2])
      PROVE  /\ UNCHANGED <<audit, context, status, body>>
             /\ \E s \in {400, 500, 502, 503} : EndsInError(s)
  <2>1. PICK s \in {400} : FinishError(s)
    BY <1>2 DEF Receive
  <2>2. UNCHANGED <<audit, context, status, body>> /\ status = None
    BY <1>2 DEF Receive
  <2>3. ~Streamed'
    BY <2>2 DEF Streamed
  <2>4. EndsInError(s) /\ s \in {400, 500, 502, 503}
    BY <1>1, <2>1, <2>3 DEF EndsInError
  <2> QED  BY <2>2, <2>4
<1>3. ASSUME SendFails
      PROVE  /\ UNCHANGED <<audit, context, status, body>>
             /\ \E s \in {400, 500, 502, 503} : EndsInError(s)
  <2>1. PICK s \in {500, 503} : FinishError(s)
    BY <1>3 DEF SendFails
  <2>2. UNCHANGED <<audit, context, status, body>> /\ status = None
    BY <1>3 DEF SendFails, request_vars
  <2>3. ~Streamed'
    BY <2>2 DEF Streamed
  <2>4. EndsInError(s) /\ s \in {400, 500, 502, 503}
    BY <1>1, <2>1, <2>3 DEF EndsInError
  <2> QED  BY <2>2, <2>4
<1>4. ASSUME ReadFails \/ (RelayImages /\ ImagesOf(body) = << >>)
      PROVE  /\ UNCHANGED <<audit, context, status, body>>
             /\ \E s \in {400, 500, 502, 503} : EndsInError(s)
  <2>1. PICK s \in {500, 502} : FinishError(s)
    <3>1. CASE ReadFails
      BY <3>1 DEF ReadFails
    <3>2. CASE RelayImages /\ ImagesOf(body) = << >>
      BY <3>2 DEF RelayImages
    <3> QED  BY <1>4, <3>1, <3>2
  <2>2. UNCHANGED <<audit, context, status, body>> /\ phase = "reading"
    BY <1>4 DEF ReadFails, RelayImages, request_vars
  <2>3. ~Streamed'
    BY <1>0, <2>2 DEF Streamed
  <2>4. EndsInError(s) /\ s \in {400, 500, 502, 503}
    BY <1>1, <2>1, <2>3 DEF EndsInError
  <2> QED  BY <2>2, <2>4
<1>5. ASSUME RelayWhole \/ RelayImages
      PROVE  UNCHANGED <<audit, context, status, body>> /\ ~Streamed'
  <2>1. UNCHANGED <<audit, context, status, body>> /\ phase = "reading"
    BY <1>5 DEF RelayWhole, RelayImages, request_vars
  <2> QED  BY <1>0, <2>1 DEF Streamed
<1>6. ASSUME StreamEnds \/ DropBody
      PROVE  UNCHANGED <<audit, context, status, body>> /\ Streamed'
  <2>1. UNCHANGED <<audit, context, status, body>> /\ phase = "streaming"
    BY <1>6 DEF StreamEnds, DropBody, request_vars
  <2>2. status \in Statuses /\ IsStream(status)
    BY <2>1
  <2>3. status # None
    BY <2>2, ExchangeAssumption, UsageAssumption
  <2> QED  BY <1>0, <2>1, <2>2, <2>3 DEF Streamed
<1>7. ASSUME DropTracker
      PROVE  UNCHANGED <<audit, context, status, body>> /\ ~Streamed' /\ client' = None
  <2>1. UNCHANGED <<audit, context, status, body, client>> /\ phase \in {"forwarded", "reading"}
    BY <1>7 DEF DropTracker, request_vars
  <2> QED  BY <1>0, <2>1 DEF Streamed
<1>8. ASSUME \/ \E s \in Statuses, b \in Bodies : Answer(s, b)
             \/ \E n \in 1 .. MaxChunk : Chunk(n)
             \/ UNCHANGED vars
      PROVE  FALSE
  BY <1>8 DEF Answer, Chunk, vars
<1> HIDE DEF TypeInv, Phases
<1>9. \/ \E r \in Requests : Receive(r[1], r[2])
      \/ SendFails \/ ReadFails \/ (RelayImages /\ ImagesOf(body) = << >>)
      \/ RelayWhole \/ (RelayImages /\ ImagesOf(body) # << >>)
      \/ StreamEnds \/ DropBody \/ DropTracker
  BY <1>8 DEF Next
<1> QED  BY <1>2, <1>3, <1>4, <1>5, <1>6, <1>7, <1>9

\* Nothing happens after the end.
LEMMA DoneStays ==
    ASSUME [Next]_vars, phase = "done"
    PROVE  UNCHANGED vars
  BY DEF Next, Receive, SendFails, Answer, ReadFails, RelayWhole, RelayImages, Chunk, StreamEnds,
         DropBody, DropTracker

\* An answer that is relayed as a whole reaches the client, if it is settled.
LEMMA WholeReaches ==
    ASSUME TypeInv, RelayWhole, event' # None
    PROVE  client' = [status |-> status, images |-> << >>] /\ client' # None
<1>1. cost_usd_nanos(context.model, usage_from_bytes(body)) # Panic
  BY WholeSent DEF Sent
<1>2. client' = [status |-> status, images |-> << >>]
  BY <1>1 DEF RelayWhole, Event
<1>3. status \in Nat
  BY ExchangeAssumption DEF TypeInv, Phases, RelayWhole
<1>4. << >> \in Seq(Images)
  OBVIOUS
<1> QED  BY <1>2, <1>3, <1>4, AnswerNotNone

\* The client of a stream has the beginning of the answer.
LEMMA StreamReaches ==
    ASSUME TypeInv, StreamEnds \/ DropBody
    PROVE  /\ client' = [status |-> status, images |-> << >>] /\ client' # None
           /\ Success(status) /\ received \in Nat /\ phase = "streaming"
<1>1. /\ client' = client /\ phase = "streaming"
  BY DEF StreamEnds, DropBody
<1>2. client = [status |-> status, images |-> << >>] /\ IsStream(status) /\ status \in Nat
      /\ << >> \in Seq(Images)
  BY <1>1, ExchangeAssumption DEF TypeInv, Phases
<1>3. client # None
  BY <1>2, AnswerNotNone
<1> QED  BY <1>1, <1>2, <1>3, BodyEnds DEF IsStream, TypeInv

(***************************************************************************)
(* settle: an event has an error exactly if its status is no success, and  *)
(* the status is the one the client was given; or 499 when nothing was     *)
(* given; or 499 or 502 for a stream that was cut off; or, for images,     *)
(* which the client gets with a 200, the status of the upstream's answer.  *)
(***************************************************************************)
THEOREM OutcomesRecorded == Spec => []OutcomeRecorded
<1>1. Init => OutcomeRecorded
  BY DEF Init, OutcomeRecorded
<1>2. TypeInv /\ TypeInv' /\ OutcomeRecorded /\ [Next]_vars => OutcomeRecorded'
  <2> SUFFICES ASSUME TypeInv, TypeInv', OutcomeRecorded, [Next]_vars, event' # None
               PROVE  OutcomeRecorded'
    BY DEF OutcomeRecorded
  <2>0. phase' = "done"
    BY DEF TypeInv, Phases
  <2>1. CASE phase = "done"
    BY <2>1, DoneStays DEF vars, request_vars, OutcomeRecorded, Streamed, IsStream
  <2>2. CASE phase # "done"
    <3>1. ASSUME NEW s \in {400, 500, 502, 503}, EndsInError(s)  PROVE OutcomeRecorded'
      <4>1. s \in Nat /\ ~Success(s)
        BY DEF Success
      <4>2. /\ client' # None /\ client'.status = s
            /\ event'.status = s /\ event'.error = TRUE
        BY <3>1 DEF EndsInError, ErrorSent
      <4> QED  BY <4>1, <4>2 DEF OutcomeRecorded
    <3>2. CASE RelayWhole
      <4>1. client'.status = status /\ client' # None
        BY <3>2, WholeReaches
      <4>2. event'.status = status /\ event'.error = ~Success(status)
        BY <3>2, WholeSent DEF Sent
      <4> QED  BY <4>1, <4>2 DEF OutcomeRecorded
    <3>3. CASE RelayImages /\ ImagesOf(body) # << >>
      <4>1. /\ event'.status = status /\ event'.error = FALSE /\ client' # None
            /\ client' = [status |-> 200, images |-> ImagesOf(body)]
        BY <3>3, ImagesSent DEF Sent
      <4>2. /\ Success(status) /\ client'.images # << >> /\ client'.status = 200
            /\ context'.path = "images" /\ status' = status
        BY <3>3, <4>1 DEF RelayImages, request_vars
      <4> QED  BY <4>1, <4>2 DEF OutcomeRecorded
    <3>4. CASE (StreamEnds \/ DropBody) /\ Streamed'
      <4>1. client' # None /\ client'.status = status /\ Success(status)
        BY <3>4, StreamReaches
      <4>2. \/ event'.status = status /\ event'.error = FALSE
            \/ event'.status = 502 /\ event'.error = TRUE
            \/ event'.status = 499 /\ event'.error = TRUE
        BY <3>4, StreamSent, DropSent DEF Sent
      <4>3. ~Success(502) /\ ~Success(499)
        BY DEF Success
      <4> QED  BY <3>4, <4>1, <4>2, <4>3 DEF OutcomeRecorded
    <3>5. CASE DropTracker /\ client' = None
      <4>1. event'.status = 499 /\ event'.error = TRUE
        BY <3>5, TrackerSent DEF Sent
      <4>2. ~Success(499)
        BY DEF Success
      <4> QED  BY <3>5, <4>1, <4>2 DEF OutcomeRecorded
    <3> QED  BY <2>0, <2>2, <3>1, <3>2, <3>3, <3>4, <3>5, CallEnds
  <2> QED  BY <2>1, <2>2
<1> QED  BY <1>1, <1>2, ExchangeTypeInv, PTL DEF Spec

(***************************************************************************)
(* StreamingPreview and body_preview: what is archived is never more than  *)
(* it claims to be, for bodies and chunks of any size around the limit.    *)
(***************************************************************************)
THEOREM ArchivesHonest == Spec => []ArchiveHonest
<1>1. Init => ArchiveHonest
  BY DEF Init, ArchiveHonest
<1>2. TypeInv /\ TypeInv' /\ StreamInv /\ ArchiveHonest /\ [Next]_vars => ArchiveHonest'
  <2> SUFFICES ASSUME TypeInv, TypeInv', StreamInv, ArchiveHonest, [Next]_vars,
                      event' # None, audit' = "archive"
               PROVE  ArchiveHonest'
    BY DEF ArchiveHonest
  <2>0. phase' = "done" /\ ARCHIVE_BODY_LIMIT \in Nat
    BY ExchangeAssumption DEF TypeInv, Phases
  <2>1. CASE phase = "done"
    BY <2>1, DoneStays DEF vars, request_vars, ArchiveHonest, Streamed, IsStream
  <2>2. CASE phase # "done"
    <3>0. audit = "archive" /\ status' = status /\ body' = body
      BY <2>0, <2>2, CallEnds
    <3>1. ASSUME NEW s \in {400, 500, 502, 503}, EndsInError(s)  PROVE ArchiveHonest'
      <4>1. /\ client' # None /\ event'.bytes = 0 /\ event'.preview = {} /\ ~Streamed'
        BY <3>1 DEF EndsInError, ErrorSent
      <4>2. 1 .. Smaller(0, ARCHIVE_BODY_LIMIT) = {} /\ 0 <= ARCHIVE_BODY_LIMIT
        BY <2>0 DEF Smaller
      <4> QED  BY <4>1, <4>2 DEF ArchiveHonest
    <3>2. CASE RelayWhole /\ ~Streamed'
      <4> DEFINE n == Total(body)
      <4>1. client' # None /\ n \in Nat
        BY <3>2, WholeReaches, BodyEnds DEF TypeInv
      <4>2. /\ event'.bytes = n /\ event'.preview = WholePreview(n).body
            /\ event'.truncated = WholePreview(n).truncated
        BY <3>2, WholeSent DEF Sent
      <4> HIDE DEF n
      <4>3. /\ WholePreview(n).body = 1 .. Smaller(n, ARCHIVE_BODY_LIMIT)
            /\ WholePreview(n).truncated <=> n > ARCHIVE_BODY_LIMIT
        BY <3>0, <4>1, WholePreviewTypes
      <4> QED  BY <2>0, <3>2, <4>1, <4>2, <4>3 DEF ArchiveHonest
    <3>3. CASE RelayImages /\ ImagesOf(body) # << >> /\ ~Streamed'
      <4> DEFINE n == Len(ImagesOf(body)) + 1
      <4>1. /\ client' # None /\ event'.bytes = n /\ event'.preview = WholePreview(n).body
            /\ event'.truncated = WholePreview(n).truncated
        BY <3>3, ImagesSent DEF Sent
      <4>2. n \in Nat
        <5>1. body \in Bodies
          BY <3>3 DEF RelayImages, TypeInv, Phases
        <5> QED  BY <5>1, ImagesDifferent
      <4> HIDE DEF n
      <4>3. /\ WholePreview(n).body = 1 .. Smaller(n, ARCHIVE_BODY_LIMIT)
            /\ WholePreview(n).truncated <=> n > ARCHIVE_BODY_LIMIT
        BY <3>0, <4>2, WholePreviewTypes
      <4> QED  BY <2>0, <3>3, <4>1, <4>2, <4>3 DEF ArchiveHonest
    <3>4. CASE StreamEnds \/ DropBody
      <4>1. client' # None /\ received \in Nat /\ phase = "streaming" /\ truncated \in BOOLEAN
        BY <3>4, StreamReaches DEF TypeInv, TypeOK
      <4>2. /\ preview = 1 .. Smaller(received, ARCHIVE_BODY_LIMIT)
            /\ truncated <=> received > ARCHIVE_BODY_LIMIT
        BY <3>0, <4>1 DEF StreamInv, PreviewInv
      <4>3. event'.bytes = received /\ event'.preview = preview
        BY <3>4, StreamSent, DropSent DEF Sent
      <4>4. \/ event'.truncated = TRUE
            \/ /\ event'.truncated = truncated
               /\ received = Total(body) /\ event'.status = status
        <5>1. (truncated \/ FALSE) = truncated /\ (truncated \/ TRUE) = TRUE
          BY <4>1
        <5> QED  BY <3>4, <5>1, StreamSent, DropSent DEF Sent
      <4> QED  BY <2>0, <3>0, <4>1, <4>2, <4>3, <4>4 DEF ArchiveHonest
    <3>5. CASE DropTracker
      <4>1. event'.bytes = 0 /\ event'.preview = {} /\ event'.truncated = TRUE
        BY <3>5, TrackerSent DEF Sent
      <4>2. 1 .. Smaller(0, ARCHIVE_BODY_LIMIT) = {}
        BY <2>0 DEF Smaller
      <4> QED  BY <4>1, <4>2 DEF ArchiveHonest
    <3> QED  BY <2>0, <2>2, <3>1, <3>2, <3>3, <3>4, <3>5, CallEnds
  <2> QED  BY <2>1, <2>2
<1> QED  BY <1>1, <1>2, ExchangeTypeInv, ExchangeStreamInv, PTL DEF Spec

(***************************************************************************)
(* image_response: for every stream that shows an image once by itself and *)
(* once in the completed response, the client gets it once.                *)
(***************************************************************************)
THEOREM ImagesDelivered == Spec => []ImagesOnce
<1>1. Init => ImagesOnce
  BY DEF Init, ImagesOnce
<1>2. TypeInv /\ TypeInv' /\ ImagesOnce /\ [Next]_vars => ImagesOnce'
  <2> SUFFICES ASSUME TypeInv, TypeInv', ImagesOnce, [Next]_vars, client' # None
               PROVE  ImagesOnce'
    BY DEF ImagesOnce
  \* An answer without images is no success of the images path.
  <2>0. ASSUME client'.images = << >>, context'.path = "images" => client'.status # 200
        PROVE  ImagesOnce'
    BY <2>0 DEF ImagesOnce
  <2>1. CASE phase = "done"
    BY <2>1, DoneStays DEF vars, request_vars, ImagesOnce
  <2>2. CASE phase # "done" /\ phase' = "done"
    <3>0. context' = context
      BY <2>2, CallEnds
    <3>1. ASSUME NEW s \in {400, 500, 502, 503}, EndsInError(s)  PROVE ImagesOnce'
      BY <2>0, <3>1 DEF EndsInError, ErrorSent
    <3>2. CASE RelayWhole
      <4>1. client' = [status |-> status, images |-> << >>]
        BY <3>2 DEF RelayWhole
      <4>2. context.path = "images" => status # 200
        BY <3>2 DEF RelayWhole, Success
      <4> QED  BY <2>0, <3>0, <4>1, <4>2
    <3>3. CASE RelayImages /\ ImagesOf(body) # << >>
      <4>1. body \in Bodies /\ client'.images = ImagesOf(body)
        BY <3>3, ImagesSent DEF RelayImages, TypeInv, Phases
      <4> QED  BY <3>3, <4>1, ImagesDifferent DEF ImagesOnce
    <3>4. CASE StreamEnds \/ DropBody
      <4>1. client' = [status |-> status, images |-> << >>] /\ phase = "streaming"
        BY <3>4, StreamReaches
      <4>2. context.path # "images"
        BY <4>1 DEF TypeInv, Phases, IsStream
      <4> QED  BY <2>0, <3>0, <4>1, <4>2
    <3> QED  BY <2>2, <3>1, <3>2, <3>3, <3>4, CallEnds
  <2>3. CASE phase' # "done"
    <3>1. phase' = "streaming"
      BY <2>3 DEF TypeInv, TypeOK, Phases
    <3>2. client' = [status |-> status', images |-> << >>] /\ context'.path # "images"
      BY <3>1 DEF TypeInv, Phases, IsStream
    <3> QED  BY <2>0, <3>2
  <2> QED  BY <2>1, <2>2, <2>3
<1> QED  BY <1>1, <1>2, ExchangeTypeInv, PTL DEF Spec

(***************************************************************************)
(* Whatever numbers an upstream puts into its lines, computing the cost of *)
(* a streamed answer or of images does not panic, and its event is sent.   *)
(***************************************************************************)
THEOREM StreamsAreSettled == Spec => []StreamsSettled
<1>1. Init => StreamsSettled
  BY DEF Init, StreamsSettled
<1>2. TypeInv /\ StreamInv /\ StreamsSettled /\ [Next]_vars => StreamsSettled'
  <2> SUFFICES ASSUME TypeInv, StreamInv, StreamsSettled, [Next]_vars,
                      phase' = "done", audit' # "none"
               PROVE  StreamsSettled'
    BY DEF StreamsSettled
  <2>0. ASSUME event' # None  PROVE StreamsSettled'
    BY <2>0 DEF StreamsSettled
  <2>1. CASE phase = "done"
    BY <2>1, DoneStays DEF vars, request_vars, StreamsSettled, Streamed, IsStream
  <2>2. CASE phase # "done"
    <3>0. UNCHANGED <<audit, context, status, body>>
      BY <2>2, CallEnds
    <3>1. ASSUME NEW s \in {400, 500, 502, 503}, EndsInError(s)  PROVE StreamsSettled'
      BY <2>0, <3>0, <3>1 DEF EndsInError, ErrorSent
    <3>2. CASE RelayWhole /\ ~Streamed'
      <4> DEFINE u == usage_from_bytes(body)
      <4>1. body \in Bodies
        BY <3>2 DEF RelayWhole, TypeInv, Phases
      <4>2. u \in Usage
        BY <4>1, UsageOfTypes
      <4>3. event' = None => cost_usd_nanos(context.model, u) = Panic
        BY <3>0, <3>2, WholeSent DEF Sent
      <4>4. event' = None => u.input_tokens < 0
        BY <4>2, <4>3, CostTypes
      <4>5. context.path = "images" => ~Success(status)
        BY <3>2 DEF RelayWhole
      <4> QED  BY <3>0, <3>2, <4>4, <4>5 DEF StreamsSettled
    <3>3. CASE RelayImages /\ ImagesOf(body) # << >>
      BY <2>0, <3>0, <3>3, ImagesSent
    <3>4. CASE StreamEnds \/ DropBody
      <4>1. phase = "streaming" /\ usage \in Usage /\ "input_tokens" \in Counts
        BY <3>4 DEF StreamEnds, DropBody, TypeInv, TypeOK, Counts
      <4>2. usage.input_tokens >= 0 /\ usage.input_tokens \in Int
        BY <3>0, <4>1, CountsInt DEF StreamInv, UsageInv
      <4>3. cost_usd_nanos(context.model, usage) # Panic
        BY <4>1, <4>2, CostTypes
      <4>4. event' # None
        BY <3>0, <3>4, <4>3, StreamSent, DropSent DEF Sent
      <4> QED  BY <2>0, <4>4
    <3>5. CASE DropTracker
      BY <2>0, <3>0, <3>5, TrackerSent
    <3> QED  BY <2>2, <3>1, <3>2, <3>3, <3>4, <3>5, CallEnds
  <2> QED  BY <2>1, <2>2
<1> QED  BY <1>1, <1>2, ExchangeTypeInv, ExchangeStreamInv, PTL DEF Spec

(***************************************************************************)
(* cost_usd_nanos: with the code's price table, for every usage that is    *)
(* not negative, the three parts of the input add up to it, and the sum    *)
(* that saturates at each step is the exact one cut at the limit.          *)
(***************************************************************************)
THEOREM TokensPriced == Spec => []TokensPricedOnce
<1>1. TypeInv => TokensPricedOnce
  <2> SUFFICES ASSUME event # None, event.usage \in Usage, event.usage.input_tokens >= 0,
                      NEW m \in PricedModels
               PROVE  LET u == event.usage
                          r == rates(PricingOf(m), u.input_tokens)
                      IN  \E cached \in 0 .. Smaller(u.input_tokens, Larger(0, u.cached_tokens)) :
                          \E written \in 0 .. Smaller(u.input_tokens - cached,
                                                      Larger(0, u.cache_write_tokens)) :
                              cost_usd_nanos(m, u) =
                                  Saturating((u.input_tokens - cached - written) * r[1]
                                             + cached * r[2] + written * r[3]
                                             + Larger(0, u.output_tokens) * r[4])
    BY DEF TypeInv, EventUsage, TokensPricedOnce
  <2> DEFINE u == event.usage
             r == rates(PricingOf(m), u.input_tokens)
             c == CachedTokens(u)
             w == CacheWriteTokens(u, r[3])
  <2>1. u.input_tokens \in Int /\ r \in Rates
    BY CountsInt, RatesTypes
  <2>2. r[3] \in Nat
    BY <2>1 DEF Rates
  <2> HIDE DEF r
  <2>3. /\ c \in 0 .. Smaller(u.input_tokens, Larger(0, u.cached_tokens))
        /\ w \in 0 .. Smaller(u.input_tokens - c, Larger(0, u.cache_write_tokens))
        /\ UncachedTokens(u) \in Nat
    BY <2>2, InputParts
  <2>4. cost_usd_nanos(m, u) = CostAt(r, u)
    BY <2>3 DEF cost_usd_nanos, r
  <2>5. CostAt(r, u) = Saturating((u.input_tokens - c - w) * r[1] + c * r[2] + w * r[3]
                                  + Larger(0, u.output_tokens) * r[4])
    BY <2>1, CostExact
  <2> HIDE DEF c, w, u
  <2>6. \E cached \in 0 .. Smaller(u.input_tokens, Larger(0, u.cached_tokens)) :
        \E written \in 0 .. Smaller(u.input_tokens - cached, Larger(0, u.cache_write_tokens)) :
            cost_usd_nanos(m, u) =
                Saturating((u.input_tokens - cached - written) * r[1] + cached * r[2]
                           + written * r[3] + Larger(0, u.output_tokens) * r[4])
    <3> USE <2>3
    <3> WITNESS c \in 0 .. Smaller(u.input_tokens, Larger(0, u.cached_tokens))
    <3> WITNESS w \in 0 .. Smaller(u.input_tokens - c, Larger(0, u.cache_write_tokens))
    <3> QED  BY <2>4, <2>5
  <2> QED  BY <2>6 DEF u, r
<1> QED  BY <1>1, ExchangeTypeInv, PTL
=============================================================================
