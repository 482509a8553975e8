---------------------------- MODULE TotalsProofs ----------------------------
(***************************************************************************)
(* What the sums of the models are worth, for every finite set of rows.    *)
(* The fold they are taken with is a recursive function over subsets; that *)
(* it exists, and that the order of the rows does not matter, is shown     *)
(* with a smallest set for which it fails.                                 *)
(***************************************************************************)
EXTENDS Totals, FiniteSetTheorems, TLAPS

First(s) == CHOOSE x \in s : TRUE

(* What the fold's function says of a set, given what it says of smaller   *)
(* ones, and the function as the fold chooses it.                          *)
IsTable(g, f, S) ==
    g = [s \in SUBSET S |-> IF s = {} THEN 0
                            ELSE f[CHOOSE x \in s : TRUE] + g[s \ {CHOOSE x \in s : TRUE}]]

Table(f, S) ==
    CHOOSE g : g = [s \in SUBSET S |->
                        IF s = {} THEN 0
                        ELSE f[CHOOSE x \in s : TRUE] + g[s \ {CHOOSE x \in s : TRUE}]]

SumOver(f, S) == MapThenSumSet(LAMBDA x : f[x], S)

LEMMA SumOverUnfolds == \A f, S : SumOver(f, S) = Table(f, S)[S]
BY DEF SumOver, MapThenSumSet, MapThenFoldSet, Table

LEMMA IsTableMeans ==
    ASSUME NEW g, NEW f, NEW S
    PROVE  IsTable(g, f, S) <=>
             /\ g = [s \in SUBSET S |-> g[s]]
             /\ \A s \in SUBSET S :
                    g[s] = IF s = {} THEN 0 ELSE f[First(s)] + g[s \ {First(s)}]
<1>1. ASSUME IsTable(g, f, S) 
      PROVE  /\ g = [s \in SUBSET S |-> g[s]]
             /\ \A s \in SUBSET S :
                    g[s] = IF s = {} THEN 0 ELSE f[First(s)] + g[s \ {First(s)}]
    <2>1. g = [s \in SUBSET S |-> IF s = {} THEN 0 ELSE f[First(s)] + g[s \ {First(s)}]]
        BY <1>1 DEF IsTable, First
    <2>2. DOMAIN g = SUBSET S
        BY <2>1
    <2> QED
        BY <2>1, <2>2
<1>2. ASSUME g = [s \in SUBSET S |-> g[s]],
             \A s \in SUBSET S :
                    g[s] = IF s = {} THEN 0 ELSE f[First(s)] + g[s \ {First(s)}]
      PROVE  IsTable(g, f, S)
    <2>1. [s \in SUBSET S |-> g[s]] 
            = [s \in SUBSET S |-> IF s = {} THEN 0 ELSE f[First(s)] + g[s \ {First(s)}]]
        BY <1>2
    <2> QED
        BY <1>2, <2>1 DEF IsTable, First
<1> QED
    BY <1>1, <1>2

LEMMA FirstIn == \A s : s # {} => First(s) \in s
BY DEF First

(* Among the subsets of a finite set with some property there is one all   *)
(* of whose proper subsets do not have it.                                 *)
LEMMA SmallestSubset ==
    ASSUME NEW S, IsFiniteSet(S), NEW Bad, Bad \subseteq SUBSET S, Bad # {}
    PROVE  \E T \in Bad : \A U \in SUBSET T : U # T => U \notin Bad
<1>1. IsWellFoundedOn(StrictSubsetOrdering(S), SUBSET S)
    BY FS_StrictSubsetOrderingWellFounded, FS_FiniteSubsetsOfFinite
<1>2. PICK T \in Bad : \A U \in Bad : <<U, T>> \notin StrictSubsetOrdering(S)
    BY <1>1, WFMin
<1>3. ASSUME NEW U \in SUBSET T, U # T PROVE U \notin Bad
    BY <1>2, <1>3 DEF StrictSubsetOrdering
<1> QED
    BY <1>3

(* Two tables agree wherever both are defined.                             *)
LEMMA TablesAgree ==
    ASSUME NEW f, NEW S, NEW T, IsFiniteSet(T), T \subseteq S,
           NEW g, NEW h, IsTable(g, f, S), IsTable(h, f, T)
    PROVE  g[T] = h[T]
<1> DEFINE Bad == {s \in SUBSET T : g[s] # h[s]}
<1> SUFFICES ASSUME Bad # {} PROVE FALSE
    OBVIOUS
<1>1. PICK s \in Bad : \A u \in SUBSET s : u # s => u \notin Bad
    <2> HIDE DEF Bad
    <2>1. Bad \subseteq SUBSET T
        BY DEF Bad
    <2> QED
        BY <2>1, SmallestSubset
<1>2. /\ g[s] = IF s = {} THEN 0 ELSE f[First(s)] + g[s \ {First(s)}]
      /\ h[s] = IF s = {} THEN 0 ELSE f[First(s)] + h[s \ {First(s)}]
    <2>1. s \in SUBSET T /\ s \in SUBSET S
        OBVIOUS
    <2>2. \A u \in SUBSET S : g[u] = IF u = {} THEN 0 ELSE f[First(u)] + g[u \ {First(u)}]
        BY IsTableMeans
    <2>3. \A u \in SUBSET T : h[u] = IF u = {} THEN 0 ELSE f[First(u)] + h[u \ {First(u)}]
        BY IsTableMeans
    <2> QED
        BY <2>1, <2>2, <2>3
<1>3. s # {} => g[s \ {First(s)}] = h[s \ {First(s)}]
    BY <1>1, FirstIn
<1> QED
    BY <1>1, <1>2, <1>3

(* The fold's function exists.                                             *)
LEMMA TableExists ==
    ASSUME NEW f, NEW S, IsFiniteSet(S)
    PROVE  IsTable(Table(f, S), f, S)
<1> DEFINE Bad == {T \in SUBSET S : ~ \E g : IsTable(g, f, T)}
<1>1. \A T : (\E g : IsTable(g, f, T)) => IsTable(Table(f, T), f, T)
    BY DEF IsTable, Table
<1>2. Bad = {}
    <2> SUFFICES ASSUME Bad # {} PROVE FALSE
        OBVIOUS
    <2>1. PICK T \in Bad : \A U \in SUBSET T : U # T => U \notin Bad
        <3> HIDE DEF Bad
        <3>1. Bad \subseteq SUBSET S
            BY DEF Bad
        <3> QED
            BY <3>1, SmallestSubset
    <2> DEFINE tab(u) == Table(f, u)
               whole == IF T = {} THEN 0
                        ELSE f[First(T)] + tab(T \ {First(T)})[T \ {First(T)}]
               g == [s \in SUBSET T |-> IF s = T THEN whole ELSE tab(s)[s]]
    <2>2. \A U \in SUBSET T : U # T => IsTable(tab(U), f, U)
        BY <1>1, <2>1
    <2>3. \A s \in SUBSET T :
                g[s] = IF s = {} THEN 0 ELSE f[First(s)] + g[s \ {First(s)}]
        <3> SUFFICES ASSUME NEW s \in SUBSET T
                     PROVE  g[s] = IF s = {} THEN 0 ELSE f[First(s)] + g[s \ {First(s)}]
            OBVIOUS
        <3> DEFINE r == s \ {First(s)}
        <3>1. s # {} => r \in SUBSET T /\ r # T /\ g[r] = tab(r)[r]
            BY FirstIn
        <3>2. CASE s = T
            BY <3>1, <3>2
        <3>3. CASE s # T
            <4>1. IsTable(tab(s), f, s) /\ g[s] = tab(s)[s]
                BY <2>2, <3>3
            <4>2. tab(s)[s] = IF s = {} THEN 0 ELSE f[First(s)] + tab(s)[r]
                BY <4>1, IsTableMeans
            <4>3. s # {} => tab(s)[r] = tab(r)[r]
                <5> SUFFICES ASSUME s # {} PROVE tab(s)[r] = tab(r)[r]
                    OBVIOUS
                <5>1. IsTable(tab(r), f, r) /\ r \subseteq s
                    BY <2>2, <3>1
                <5>2. IsFiniteSet(r)
                    BY FS_Subset
                <5> HIDE DEF r, tab
                <5> QED
                    BY <4>1, <5>1, <5>2, TablesAgree
            <4> QED
                BY <3>1, <4>1, <4>2, <4>3
        <3> QED
            BY <3>2, <3>3
    <2>4. g = [s \in SUBSET T |-> g[s]]
        OBVIOUS
    <2>5. IsTable(g, f, T)
        <3> HIDE DEF g
        <3> QED
            BY <2>3, <2>4, IsTableMeans
    <2> QED
        BY <2>5
<1> QED
    BY <1>1, <1>2

LEMMA SumOverRecursion ==
    ASSUME NEW f, NEW S, IsFiniteSet(S)
    PROVE  SumOver(f, S) = IF S = {} THEN 0
                           ELSE f[First(S)] + SumOver(f, S \ {First(S)})
<1> DEFINE r == S \ {First(S)}
<1>1. IsFiniteSet(r)
    BY FS_Subset
<1>2. IsTable(Table(f, S), f, S) /\ IsTable(Table(f, r), f, r)
    BY <1>1, TableExists
<1>3. Table(f, S)[S] = IF S = {} THEN 0 ELSE f[First(S)] + Table(f, S)[r]
    BY <1>2, IsTableMeans
<1>4. Table(f, S)[r] = Table(f, r)[r]
    <2> HIDE DEF r
    <2> QED
        BY <1>1, <1>2, TablesAgree DEF r
<1> QED
    BY <1>3, <1>4, SumOverUnfolds

-----------------------------------------------------------------------------
(* Sums over one set of rows after another.                                *)

(* The rows may be added up in any order.                                  *)
LEMMA SumOverAny ==
    ASSUME NEW S, IsFiniteSet(S), NEW f, \A x \in S : f[x] \in Int
    PROVE  \A T \in SUBSET S :
                /\ SumOver(f, T) \in Int
                /\ \A x \in T : SumOver(f, T) = f[x] + SumOver(f, T \ {x})
<1> DEFINE Good(T) == /\ SumOver(f, T) \in Int
                      /\ \A x \in T : SumOver(f, T) = f[x] + SumOver(f, T \ {x})
           Bad == {T \in SUBSET S : ~Good(T)}
<1> SUFFICES ASSUME Bad # {} PROVE FALSE
    OBVIOUS
<1>1. PICK T \in Bad : \A U \in SUBSET T : U # T => U \notin Bad
    <2>1. Bad \subseteq SUBSET S
        OBVIOUS
    <2> HIDE DEF Bad
    <2> QED
        BY <2>1, SmallestSubset
<1>2. \A U \in SUBSET T : U # T => Good(U)
    BY <1>1
<1>3. \A U \in SUBSET S : SumOver(f, U) = IF U = {} THEN 0
                                ELSE f[First(U)] + SumOver(f, U \ {First(U)})
    BY SumOverRecursion, FS_Subset
<1>4. T \in SUBSET S /\ ~Good(T)
    BY <1>1
<1>5. CASE T = {}
    <2>1. SumOver(f, T) = 0
        BY <1>3, <1>4, <1>5
    <2> QED
        BY <1>4, <1>5, <2>1
<1>6. CASE T # {}
    <2> DEFINE c == First(T)
               r == T \ {First(T)}
    <2>1. c \in T /\ r \in SUBSET T /\ r # T
        BY <1>6, FirstIn
    <2>2. SumOver(f, T) = f[c] + SumOver(f, r)
        BY <1>3, <1>4, <1>6
    <2>3. SumOver(f, r) \in Int /\ f[c] \in Int
        BY <1>2, <1>4, <2>1
    <2>4. ASSUME NEW x \in T, x # c PROVE SumOver(f, T) = f[x] + SumOver(f, T \ {x})
        <3>1. SumOver(f, r) = f[x] + SumOver(f, r \ {x}) /\ x \in r
            BY <1>2, <2>1, <2>4
        <3>2. /\ T \ {x} \in SUBSET T /\ T \ {x} # T
              /\ c \in T \ {x} /\ (T \ {x}) \ {c} = r \ {x}
            BY <2>1, <2>4
        <3>3. SumOver(f, T \ {x}) = f[c] + SumOver(f, r \ {x})
            BY <1>2, <3>2
        <3>4. r \ {x} \in SUBSET T /\ r \ {x} # T
            BY <2>1
        <3>5. SumOver(f, r \ {x}) \in Int /\ f[x] \in Int
            BY <1>2, <1>4, <3>4
        <3> HIDE DEF r, c
        <3> QED
            BY <2>2, <2>3, <3>1, <3>3, <3>5
    <2>5. SumOver(f, T) \in Int
        BY <2>2, <2>3
    <2> QED
        BY <1>4, <2>2, <2>4, <2>5
<1> QED
    BY <1>5, <1>6

(* A property of sums that holds of no rows, and of one row more whenever  *)
(* it holds of some, holds of all.                                         *)
LEMMA RowByRow ==
    ASSUME NEW S, IsFiniteSet(S), NEW P, {} \in P,
           \A T \in SUBSET S : \A x \in S \ T : T \in P => T \cup {x} \in P
    PROVE  S \in P
<1> DEFINE Bad == (SUBSET S) \ P
<1> SUFFICES ASSUME Bad # {} PROVE S \in P
    OBVIOUS
<1>1. PICK T \in Bad : \A U \in SUBSET T : U # T => U \notin Bad
    <2>1. Bad \subseteq SUBSET S
        OBVIOUS
    <2> HIDE DEF Bad
    <2> QED
        BY <2>1, SmallestSubset
<1>2. PICK x \in T : TRUE
    BY <1>1
<1>3. T \ {x} \in P
    BY <1>1, <1>2
<1> QED
    BY <1>1, <1>3

LEMMA SumOverNone == \A f : SumOver(f, {}) = 0
BY SumOverRecursion, FS_EmptySet

LEMMA SumOverOneMore ==
    ASSUME NEW S, IsFiniteSet(S), NEW f, \A x \in S : f[x] \in Int,
           NEW T \in SUBSET S, NEW x \in S \ T
    PROVE  /\ SumOver(f, T) \in Int
           /\ SumOver(f, T \cup {x}) = f[x] + SumOver(f, T)
<1>1. T \cup {x} \in SUBSET S /\ (T \cup {x}) \ {x} = T
    OBVIOUS
<1> QED
    BY <1>1, SumOverAny

LEMMA SumOverGrows ==
    ASSUME NEW S, IsFiniteSet(S), NEW f, \A x \in S : f[x] \in Int
    PROVE  \A T \in SUBSET S : \A x \in S \ T :
                SumOver(f, T) \in Int /\ SumOver(f, T \cup {x}) = f[x] + SumOver(f, T)
BY SumOverOneMore

(* Sums of sums: each of the two functions on rows adds up on its own.     *)
LEMMA SumOverLinear ==
    ASSUME NEW S, IsFiniteSet(S), NEW f, NEW g, NEW h, NEW k \in Int,
           \A x \in S : f[x] \in Int /\ g[x] \in Int /\ h[x] = f[x] + k * g[x]
    PROVE  SumOver(h, S) = SumOver(f, S) + k * SumOver(g, S)
<1>f. \A T \in SUBSET S : \A x \in S \ T :
        SumOver(f, T) \in Int /\ SumOver(f, T \cup {x}) = f[x] + SumOver(f, T)
    <2>1. \A x \in S : f[x] \in Int
        OBVIOUS
    <2> QED
        BY <2>1, SumOverGrows, ZenonT(60)
<1>g. \A T \in SUBSET S : \A x \in S \ T :
        SumOver(g, T) \in Int /\ SumOver(g, T \cup {x}) = g[x] + SumOver(g, T)
    <2>1. \A x \in S : g[x] \in Int
        OBVIOUS
    <2> QED
        BY <2>1, SumOverGrows, ZenonT(60)
<1> DEFINE P == {T \in SUBSET S : SumOver(h, T) = SumOver(f, T) + k * SumOver(g, T)}
<1>1. {} \in P
    BY SumOverNone
<1>2. ASSUME NEW T \in SUBSET S, NEW x \in S \ T, T \in P PROVE T \cup {x} \in P
    <2>1. /\ SumOver(f, T) \in Int /\ SumOver(f, T \cup {x}) = f[x] + SumOver(f, T)
          /\ SumOver(g, T) \in Int /\ SumOver(g, T \cup {x}) = g[x] + SumOver(g, T)
        BY <1>f, <1>g
    <2>2. SumOver(h, T) \in Int /\ SumOver(h, T \cup {x}) = h[x] + SumOver(h, T)
        BY SumOverOneMore
    <2>3. h[x] = f[x] + k * g[x] /\ f[x] \in Int /\ g[x] \in Int
        OBVIOUS
    <2>4. SumOver(h, T) = SumOver(f, T) + k * SumOver(g, T)
        BY <1>2
    <2>5. k * (g[x] + SumOver(g, T)) = k * g[x] + k * SumOver(g, T)
        BY <2>1, <2>3
    <2>6. k * g[x] \in Int /\ k * SumOver(g, T) \in Int
        BY <2>1, <2>3
    <2> QED
        BY <2>1, <2>2, <2>3, <2>4, <2>5, <2>6
<1>3. S \in P
    <2> HIDE DEF P
    <2> QED
        BY <1>1, <1>2, RowByRow
<1> QED
    BY <1>3

LEMMA SumOverAtMost ==
    ASSUME NEW S, IsFiniteSet(S), NEW f, NEW g,
           \A x \in S : f[x] \in Int /\ g[x] \in Int /\ f[x] <= g[x]
    PROVE  SumOver(f, S) <= SumOver(g, S)
<1>f. \A T \in SUBSET S : \A x \in S \ T :
        SumOver(f, T) \in Int /\ SumOver(f, T \cup {x}) = f[x] + SumOver(f, T)
    <2>1. \A x \in S : f[x] \in Int
        OBVIOUS
    <2> QED
        BY <2>1, SumOverGrows
<1>g. \A T \in SUBSET S : \A x \in S \ T :
        SumOver(g, T) \in Int /\ SumOver(g, T \cup {x}) = g[x] + SumOver(g, T)
    <2>1. \A x \in S : g[x] \in Int
        OBVIOUS
    <2> QED
        BY <2>1, SumOverGrows
<1> DEFINE P == {T \in SUBSET S : SumOver(f, T) <= SumOver(g, T)}
<1>1. {} \in P
    BY SumOverNone
<1>2. ASSUME NEW T \in SUBSET S, NEW x \in S \ T, T \in P PROVE T \cup {x} \in P
    <2>1. /\ SumOver(f, T) \in Int /\ SumOver(f, T \cup {x}) = f[x] + SumOver(f, T)
          /\ SumOver(g, T) \in Int /\ SumOver(g, T \cup {x}) = g[x] + SumOver(g, T)
        BY <1>f, <1>g
    <2> QED
        BY <1>2, <2>1
<1>3. S \in P
    <2> HIDE DEF P
    <2> QED
        BY <1>1, <1>2, RowByRow
<1> QED
    BY <1>3

LEMMA SumOverZero ==
    ASSUME NEW S, IsFiniteSet(S), NEW f, \A x \in S : f[x] = 0
    PROVE  SumOver(f, S) = 0
<1> DEFINE P == {T \in SUBSET S : SumOver(f, T) = 0}
<1>1. {} \in P
    BY SumOverNone
<1>2. ASSUME NEW T \in SUBSET S, NEW x \in S \ T, T \in P PROVE T \cup {x} \in P
    BY <1>2, SumOverOneMore
<1>3. S \in P
    <2> HIDE DEF P
    <2> QED
        BY <1>1, <1>2, RowByRow
<1> QED
    BY <1>3

(* Rows that count for nothing may be left out.                            *)
LEMMA SumOverRest ==
    ASSUME NEW S, IsFiniteSet(S), NEW R \in SUBSET S, NEW f, \A x \in S : f[x] \in Int,
           \A x \in S \ R : f[x] = 0
    PROVE  SumOver(f, S) = SumOver(f, R)
<1> DEFINE P == {T \in SUBSET (S \ R) : SumOver(f, R \cup T) = SumOver(f, R)}
<1>1. {} \in P
    OBVIOUS
<1>2. ASSUME NEW T \in SUBSET (S \ R), NEW x \in (S \ R) \ T, T \in P PROVE T \cup {x} \in P
    <2> DEFINE U == R \cup T
    <2>1. U \in SUBSET S /\ x \in S \ U /\ f[x] = 0 /\ R \cup (T \cup {x}) = U \cup {x}
        OBVIOUS
    <2>2. SumOver(f, U) = SumOver(f, R)
        BY <1>2
    <2>3. SumOver(f, U \cup {x}) = SumOver(f, U)
        <3> HIDE DEF U, P
        <3>1. SumOver(f, U) \in Int /\ SumOver(f, U \cup {x}) = f[x] + SumOver(f, U)
            BY <2>1, SumOverOneMore
        <3> QED
            BY <2>1, <3>1
    <2> QED
        BY <2>1, <2>2, <2>3
<1>3. S \ R \in P
    <2>1. IsFiniteSet(S \ R)
        BY FS_Subset
    <2> HIDE DEF P
    <2> QED
        BY <1>1, <1>2, <2>1, RowByRow
<1>4. R \cup (S \ R) = S
    OBVIOUS
<1> QED
    BY <1>3, <1>4

-----------------------------------------------------------------------------

-----------------------------------------------------------------------------
(* The same of Total, whose rows are the domain of the function.           *)
LEMMA TotalIsSumOver == \A f : Total(f) = SumOver(f, DOMAIN f)
BY DEF Total, SumOver

LEMMA SumOverIsTotal ==
    ASSUME NEW S, IsFiniteSet(S), NEW f, \A x \in S : f[x] \in Int
    PROVE  SumOver(f, S) = Total([x \in S |-> f[x]])
<1> DEFINE g == [x \in S |-> f[x]]
<1>1. \A x \in S : f[x] \in Int /\ g[x] \in Int /\ f[x] <= g[x] /\ g[x] <= f[x]
    OBVIOUS
<1>2. SumOver(f, S) \in Int /\ SumOver(g, S) \in Int
    BY <1>1, SumOverAny
<1>3. SumOver(f, S) <= SumOver(g, S) /\ SumOver(g, S) <= SumOver(f, S)
    <2>1. (\A x \in S : f[x] \in Int /\ g[x] \in Int /\ f[x] <= g[x])
            /\ (\A x \in S : g[x] \in Int /\ f[x] \in Int /\ g[x] <= f[x])
        BY <1>1
    <2> HIDE DEF g
    <2> QED
        BY <2>1, SumOverAtMost
<1>4. SumOver(g, S) = Total(g)
    BY TotalIsSumOver
<1> QED
    BY <1>2, <1>3, <1>4

LEMMA TotalType ==
    ASSUME NEW S, IsFiniteSet(S), NEW f \in [S -> Int]
    PROVE  Total(f) \in Int
BY SumOverAny, TotalIsSumOver

LEMMA TotalZero ==
    ASSUME NEW S, IsFiniteSet(S), NEW f, DOMAIN f = S, \A x \in S : f[x] = 0
    PROVE  Total(f) = 0
BY SumOverZero, TotalIsSumOver

(* One row changes.                                                        *)
LEMMA TotalChange ==
    ASSUME NEW S, IsFiniteSet(S), NEW f \in [S -> Int], NEW g \in [S -> Int],
           NEW x \in S, \A y \in S \ {x} : g[y] = f[y]
    PROVE  Total(g) = Total(f) + (g[x] - f[x])
<1>1. /\ SumOver(f, S) \in Int /\ SumOver(f, S) = f[x] + SumOver(f, S \ {x})
      /\ SumOver(g, S) \in Int /\ SumOver(g, S) = g[x] + SumOver(g, S \ {x})
    <2>1. (\A y \in S : f[y] \in Int) /\ (\A y \in S : g[y] \in Int)
        OBVIOUS
    <2> QED
        BY <2>1, SumOverAny
<1>2. SumOver(f, S \ {x}) = SumOver(g, S \ {x})
    <2>1. IsFiniteSet(S \ {x})
        BY FS_Subset
    <2>2. [y \in S \ {x} |-> f[y]] = [y \in S \ {x} |-> g[y]]
        OBVIOUS
    <2>3. (\A y \in S \ {x} : f[y] \in Int) /\ (\A y \in S \ {x} : g[y] \in Int)
        OBVIOUS
    <2> QED
        BY <2>1, <2>2, <2>3, SumOverIsTotal
<1>3. SumOver(f, S \ {x}) \in Int
    <2>1. S \ {x} \in SUBSET S /\ \A y \in S : f[y] \in Int
        OBVIOUS
    <2> QED
        BY <2>1, SumOverAny
<1>4. f[x] \in Int /\ g[x] \in Int
    OBVIOUS
<1>5. DOMAIN f = S /\ DOMAIN g = S
    OBVIOUS
<1> QED
    BY <1>1, <1>2, <1>3, <1>4, <1>5, TotalIsSumOver

(* One row is all there is to add up.                                      *)
LEMMA TotalOfOne ==
    ASSUME NEW S, IsFiniteSet(S), NEW f \in [S -> Int], NEW x \in S,
           \A y \in S \ {x} : f[y] = 0
    PROVE  Total(f) = f[x]
<1> DEFINE g == [y \in S |-> 0]
<1>1. Total(g) = 0
    BY TotalZero
<1>2. Total(f) = Total(g) + (f[x] - g[x])
    <2>1. g \in [S -> Int] /\ \A y \in S \ {x} : f[y] = g[y]
        OBVIOUS
    <2> HIDE DEF g
    <2> QED
        BY <2>1, TotalChange
<1>3. g[x] = 0 /\ f[x] \in Int
    OBVIOUS
<1> QED
    BY <1>1, <1>2, <1>3

LEMMA TotalLinear ==
    ASSUME NEW S, IsFiniteSet(S), NEW f \in [S -> Int], NEW g \in [S -> Int],
           NEW h \in [S -> Int], NEW k \in Int, \A x \in S : h[x] = f[x] + k * g[x]
    PROVE  Total(h) = Total(f) + k * Total(g)
<1>1. \A x \in S : f[x] \in Int /\ g[x] \in Int /\ h[x] = f[x] + k * g[x]
    OBVIOUS
<1>2. DOMAIN f = S /\ DOMAIN g = S /\ DOMAIN h = S
    OBVIOUS
<1> QED
    BY <1>1, <1>2, SumOverLinear, TotalIsSumOver

LEMMA TotalAtMost ==
    ASSUME NEW S, IsFiniteSet(S), NEW f \in [S -> Int], NEW g \in [S -> Int],
           \A x \in S : f[x] <= g[x]
    PROVE  Total(f) <= Total(g)
<1>1. \A x \in S : f[x] \in Int /\ g[x] \in Int /\ f[x] <= g[x]
    OBVIOUS
<1>2. DOMAIN f = S /\ DOMAIN g = S
    OBVIOUS
<1> QED
    BY <1>1, <1>2, SumOverAtMost, TotalIsSumOver

LEMMA TotalNat ==
    ASSUME NEW S, IsFiniteSet(S), NEW f \in [S -> Nat]
    PROVE  Total(f) \in Nat
<1> DEFINE g == [x \in S |-> 0]
<1>1. Total(g) = 0
    BY TotalZero
<1>2. g \in [S -> Int] /\ f \in [S -> Int] /\ \A x \in S : g[x] <= f[x]
    OBVIOUS
<1>3. Total(g) <= Total(f) /\ Total(f) \in Int
    <2> HIDE DEF g
    <2> QED
        BY <1>2, TotalAtMost, TotalType
<1> QED
    BY <1>1, <1>3

LEMMA TotalRest ==
    ASSUME NEW S, IsFiniteSet(S), NEW f \in [S -> Int], NEW R \in SUBSET S,
           \A x \in S \ R : f[x] = 0
    PROVE  Total(f) = Total([x \in R |-> f[x]])
<1>1. SumOver(f, S) = SumOver(f, R)
    BY SumOverRest
<1>2. IsFiniteSet(R) /\ \A x \in R : f[x] \in Int
    BY FS_Subset
<1>3. SumOver(f, R) = Total([x \in R |-> f[x]])
    BY <1>2, SumOverIsTotal
<1> QED
    BY <1>1, <1>3, TotalIsSumOver

-----------------------------------------------------------------------------

(* One row counted apart from the others.                                  *)
LEMMA TotalSplit ==
    ASSUME NEW S, IsFiniteSet(S), NEW f \in [S -> Int], NEW x \in S
    PROVE  /\ Total([y \in S \ {x} |-> f[y]]) \in Int
           /\ Total(f) = f[x] + Total([y \in S \ {x} |-> f[y]])
<1> DEFINE R == S \ {x}
<1>1. \A y \in S : f[y] \in Int
    OBVIOUS
<1>2. SumOver(f, S) = f[x] + SumOver(f, R) /\ SumOver(f, R) \in Int
    <2>1. S \in SUBSET S /\ R \in SUBSET S
        OBVIOUS
    <2> QED
        BY <1>1, <2>1, SumOverAny
<1>3. SumOver(f, R) = Total([y \in R |-> f[y]])
    <2>1. IsFiniteSet(R) /\ \A y \in R : f[y] \in Int
        BY <1>1, FS_Subset
    <2> HIDE DEF R
    <2> QED
        BY <2>1, SumOverIsTotal
<1> QED
    BY <1>2, <1>3, TotalIsSumOver

(* Fewer rows, none of them negative, add up to no more.                   *)
LEMMA TotalFewer ==
    ASSUME NEW S, IsFiniteSet(S), NEW f \in [S -> Nat], NEW R \in SUBSET S
    PROVE  Total([x \in R |-> f[x]]) <= Total(f)
<1> DEFINE g == [x \in S |-> IF x \in R THEN f[x] ELSE 0]
<1>1. g \in [S -> Int] /\ f \in [S -> Int]
      /\ (\A x \in S : g[x] <= f[x]) /\ (\A x \in S \ R : g[x] = 0)
    OBVIOUS
<1>2. [x \in R |-> g[x]] = [x \in R |-> f[x]]
    OBVIOUS
<1>3. Total(g) <= Total(f) /\ Total(g) = Total([x \in R |-> g[x]])
    <2> HIDE DEF g
    <2> QED
        BY <1>1, TotalAtMost, TotalRest
<1> QED
    BY <1>2, <1>3

=============================================================================
