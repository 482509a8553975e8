-------------------------- MODULE FormWidgetsProofs --------------------------
(***************************************************************************)
(* What the widgets of a change form keep of the data of that form, proved *)
(* for any choices and any number of rows: the two boxes of SelectBox.js   *)
(* and SelectFilter2.js hold every choice once, and the rows of inlines.js *)
(* are numbered as the server counts them. Both rest on what a filter      *)
(* leaves of a list, which is told by counting places.                     *)
(***************************************************************************)
EXTENDS AdminPages, FiniteSetTheorems, SequenceTheorems, TLAPS

(* A step of the pages is a step of one widget, and leaves the others      *)
(* alone.                                                                  *)
LEMMA OneWidgetMoves ==
    [Next]_vars =>
        /\ [List!Next]_listVars /\ [Boxes!Next]_boxesVars /\ [Inlines!Next]_inlinesVars
        /\ [Dates!Next]_datesVars /\ [Popups!Next]_popupsVars /\ [Stored!Next]_storedVars
BY DEF Next, vars, OnList, OnBoxes, OnInlines, OnDates, OnPopups, OnStored

-----------------------------------------------------------------------------
(* Filters.                                                                *)

LEMMA SameCardinality ==
    \A S : Boxes!Cardinality(S) = Cardinality(S) /\ Inlines!Cardinality(S) = Cardinality(S)
BY DEF Boxes!Cardinality, Inlines!Cardinality, Cardinality

(* How many of the places there are up to k.                               *)
Rank(places, k) == Cardinality({j \in places : j <= k})

LEMMA PlacesAreFinite ==
    ASSUME NEW n \in Int, NEW places, places \subseteq 1..n
    PROVE  IsFiniteSet(places) /\ Cardinality(places) \in Nat
<1>1. IsFiniteSet(1..n) /\ places \in SUBSET (1..n)
    BY FS_Interval
<1> QED
    BY <1>1, FS_Subset, FS_CardinalityType

LEMMA RankRises ==
    ASSUME NEW n \in Int, NEW places, places \subseteq 1..n,
           NEW k \in places, NEW h \in places
    PROVE  /\ Rank(places, k) \in 1..Cardinality(places)
           /\ k < h => Rank(places, k) < Rank(places, h)
<1> DEFINE upTo(x) == {j \in places : j <= x}
<1>1. IsFiniteSet(places) /\ Cardinality(places) \in Nat
    BY PlacesAreFinite
<1>2. \A x \in places : /\ IsFiniteSet(upTo(x)) /\ Cardinality(upTo(x)) \in Nat
                        /\ Cardinality(upTo(x)) <= Cardinality(places)
                        /\ Cardinality(upTo(x)) # 0
    <2> TAKE x \in places
    <2>1. upTo(x) \in SUBSET places /\ x \in upTo(x)
        BY FS_Interval
    <2> HIDE DEF upTo
    <2> QED
        BY <1>1, <2>1, FS_Subset, FS_CardinalityType, FS_EmptySet
<1>3. ASSUME k < h PROVE Rank(places, k) < Rank(places, h)
    <2>1. \A x \in places : x \in Int
        OBVIOUS
    <2>2. upTo(k) \in SUBSET upTo(h) /\ h \in upTo(h) /\ h \notin upTo(k)
        <3>1. \A x \in places : x <= k => x <= h
            BY <1>3, <2>1
        <3>2. h <= h /\ ~(h <= k)
            BY <1>3, <2>1
        <3> QED
            BY <3>1, <3>2
    <2>3. /\ Cardinality(upTo(k)) <= Cardinality(upTo(h))
          /\ Cardinality(upTo(k)) # Cardinality(upTo(h))
        <3> HIDE DEF upTo
        <3> QED
            BY <1>2, <2>2, FS_Subset
    <2> QED
        BY <1>2, <2>3 DEF Rank
<1> QED
    BY <1>1, <1>2, <1>3 DEF Rank

(* The i-th place is there, and there is only one.                         *)
LEMMA PlaceExists ==
    ASSUME NEW n \in Int, NEW places, places \subseteq 1..n,
           NEW i \in 1..Cardinality(places)
    PROVE  \E k \in places : Rank(places, k) = i
<1> DEFINE c == Cardinality(places)
           f == [k \in places |-> Rank(places, k)]
<1>1. IsFiniteSet(places) /\ c \in Nat
    BY PlacesAreFinite
<1>2. f \in [places -> 1..c]
    BY RankRises
<1>3. \A k, h \in places : f[k] = f[h] => k = h
    <2>1. ASSUME NEW k \in places, NEW h \in places, k < h PROVE f[k] # f[h]
        <3>1. \A x \in places : Rank(places, x) \in 1..c
            BY RankRises
        <3>2. Rank(places, k) < Rank(places, h)
            BY <2>1, RankRises
        <3> QED
            BY <1>1, <3>1, <3>2
    <2>2. \A k, h \in places : k < h \/ h < k \/ k = h
        OBVIOUS
    <2> HIDE DEF f
    <2> QED
        BY <2>1, <2>2
<1>4. f \in Injection(places, 1..c)
    <2> HIDE DEF f
    <2> QED
        BY <1>2, <1>3 DEF Injection, IsInjective
<1>5. IsFiniteSet(1..c) /\ Cardinality(1..c) = c
    BY <1>1, FS_Interval
<1>6. f \in Surjection(places, 1..c)
    <2> HIDE DEF f
    <2> QED
        BY <1>1, <1>4, <1>5, FS_Injection
<1> QED
    BY <1>6 DEF Surjection

(* An i-th place for every i takes each place once, and in order.          *)
LEMMA PlacesInOrder ==
    ASSUME NEW n \in Int, NEW places, places \subseteq 1..n,
           NEW at \in [1..Cardinality(places) -> places],
           \A i \in 1..Cardinality(places) : Rank(places, at[i]) = i
    PROVE  /\ \A i, j \in 1..Cardinality(places) : i < j => at[i] < at[j]
           /\ \A k \in places : \E i \in 1..Cardinality(places) : at[i] = k
<1> DEFINE c == Cardinality(places)
<1>1. c \in Nat /\ \A k \in places : k \in Int
    <2>1. c \in Nat
        BY PlacesAreFinite
    <2> QED
        BY <2>1
<1>2. /\ \A k \in places : Rank(places, k) \in 1..c
      /\ \A k, h \in places : k < h => Rank(places, k) < Rank(places, h)
    BY RankRises
<1>3. \A k, h \in places : k < h \/ h < k \/ k = h
    BY <1>1
<1>4. \A k, h \in places : Rank(places, k) = Rank(places, h) => k = h
    BY <1>1, <1>2, <1>3
<1>5. ASSUME NEW k \in places PROVE \E i \in 1..c : at[i] = k
    <2>1. Rank(places, k) \in 1..c
        BY <1>2
    <2> QED
        BY <1>4, <2>1
<1>6. ASSUME NEW i \in 1..c, NEW j \in 1..c, i < j PROVE at[i] < at[j]
    <2>1. /\ at[i] \in places /\ Rank(places, at[i]) = i
          /\ at[j] \in places /\ Rank(places, at[j]) = j
        OBVIOUS
    <2>2. at[j] < at[i] => Rank(places, at[j]) < Rank(places, at[i])
        BY <1>2, <2>1
    <2>3. ~(at[j] < at[i]) /\ at[i] # at[j]
        BY <1>1, <1>6, <2>1, <2>2
    <2> QED
        BY <1>3, <2>1, <2>3
<1> QED
    BY <1>5, <1>6

LEMMA BoxesPlace ==
    ASSUME NEW n \in Int, NEW places, places \subseteq 1..n,
           NEW i \in 1..Cardinality(places)
    PROVE  Boxes!Place(places, i) \in places /\ Rank(places, Boxes!Place(places, i)) = i
<1>1. PICK k \in places : Rank(places, k) = i
    BY PlaceExists
<1>2. \A h : Boxes!Cardinality({j \in places : j <= h}) = Rank(places, h)
    BY SameCardinality DEF Rank
<1> QED
    BY <1>1, <1>2 DEF Boxes!Place

LEMMA InlinesPlace ==
    ASSUME NEW n \in Int, NEW places, places \subseteq 1..n,
           NEW i \in 1..Cardinality(places)
    PROVE  Inlines!Place(places, i) \in places /\ Rank(places, Inlines!Place(places, i)) = i
<1>1. PICK k \in places : Rank(places, k) = i
    BY PlaceExists
<1>2. \A h : Inlines!Cardinality({j \in places : j <= h}) = Rank(places, h)
    BY SameCardinality DEF Rank
<1> QED
    BY <1>1, <1>2 DEF Inlines!Place

(* What the boxes keep of a list.                                          *)
LEMMA BoxesPicked ==
    ASSUME NEW S, NEW s \in Seq(S), NEW places, places \subseteq DOMAIN s
    PROVE  LET c == Cardinality(places)
               at == [i \in 1..c |-> Boxes!Place(places, i)]
               r == Boxes!Picked(s, places)
           IN  /\ IsFiniteSet(places) /\ c \in Nat
               /\ r \in Seq(S) /\ Len(r) = c /\ DOMAIN r = 1..c
               /\ at \in [1..c -> places]
               /\ \A i \in 1..c : r[i] = s[at[i]]
               /\ \A i, j \in 1..c : i < j => at[i] < at[j]
               /\ \A k \in places : \E i \in 1..c : at[i] = k
<1> DEFINE c == Cardinality(places)
           at == [i \in 1..c |-> Boxes!Place(places, i)]
           r == Boxes!Picked(s, places)
<1>1. DOMAIN s = 1..Len(s) /\ Len(s) \in Int
    OBVIOUS
<1>2. IsFiniteSet(places) /\ c \in Nat
    BY <1>1, PlacesAreFinite
<1>3. \A i \in 1..c : at[i] \in places /\ Rank(places, at[i]) = i
    BY <1>1, BoxesPlace
<1>4. at \in [1..c -> places]
    BY <1>3
<1>5. /\ \A i, j \in 1..c : i < j => at[i] < at[j]
      /\ \A k \in places : \E i \in 1..c : at[i] = k
    <2> HIDE DEF at
    <2> QED
        BY <1>1, <1>3, <1>4, PlacesInOrder, ZenonT(30)
<1>6. r = [i \in 1..c |-> s[at[i]]]
    BY SameCardinality DEF Boxes!Picked
<1>7. \A i \in 1..c : s[at[i]] \in S
    BY <1>4
<1>8. r \in Seq(S) /\ Len(r) = c /\ DOMAIN r = 1..c
    <2> HIDE DEF at, r
    <2> QED
        BY <1>2, <1>6, <1>7
<1> QED
    BY <1>2, <1>4, <1>5, <1>6, <1>8
-----------------------------------------------------------------------------
(* The two boxes.                                                          *)

LEMMA NodesOf ==
    ASSUME NEW s \in Seq(Boxes!Node)
    PROVE  /\ DOMAIN s = 1..Len(s) /\ Len(s) \in Nat
           /\ IsFiniteSet(DOMAIN s) /\ Cardinality(DOMAIN s) = Len(s)
           /\ \A k \in DOMAIN s : s[k] \in Boxes!Node
           /\ Boxes!Values(s) \subseteq Items
           /\ IsFiniteSet(Boxes!Hidden(s)) /\ Cardinality(Boxes!Hidden(s)) \in Nat
<1>1. DOMAIN s = 1..Len(s) /\ Len(s) \in Nat /\ \A k \in DOMAIN s : s[k] \in Boxes!Node
    OBVIOUS
<1>2. IsFiniteSet(1..Len(s)) /\ Cardinality(1..Len(s)) = Len(s)
    BY <1>1, FS_Interval
<1>3. Boxes!Values(s) \subseteq Items
    BY <1>1 DEF Boxes!Values, Boxes!Node
<1>4. Boxes!Hidden(s) \in SUBSET (1..Len(s))
    BY <1>1 DEF Boxes!Hidden
<1>5. IsFiniteSet(Boxes!Hidden(s)) /\ Cardinality(Boxes!Hidden(s)) \in Nat
    BY <1>2, <1>4, FS_Subset, FS_CardinalityType
<1> QED
    BY <1>1, <1>2, <1>3, <1>5

(* What is picked and the rest are the whole list, once.                   *)
LEMMA PickedAndRest ==
    ASSUME NEW s \in Seq(Boxes!Node), NEW moving, moving \subseteq DOMAIN s
    PROVE  LET taken == Boxes!Picked(s, moving)
               rest == Boxes!Picked(s, DOMAIN s \ moving)
           IN  /\ taken \in Seq(Boxes!Node) /\ rest \in Seq(Boxes!Node)
               /\ Len(taken) + Len(rest) = Len(s)
               /\ Boxes!Values(taken) \cup Boxes!Values(rest) = Boxes!Values(s)
<1> DEFINE others == DOMAIN s \ moving
           taken == Boxes!Picked(s, moving)
           rest == Boxes!Picked(s, others)
           c == Cardinality(moving)
           d == Cardinality(others)
           at == [i \in 1..c |-> Boxes!Place(moving, i)]
           away == [i \in 1..d |-> Boxes!Place(others, i)]
<1>1. /\ IsFiniteSet(moving) /\ c \in Nat
      /\ taken \in Seq(Boxes!Node) /\ Len(taken) = c /\ DOMAIN taken = 1..c
      /\ at \in [1..c -> moving] /\ \A i \in 1..c : taken[i] = s[at[i]]
      /\ \A k \in moving : \E i \in 1..c : at[i] = k
    BY BoxesPicked
<1>2. /\ IsFiniteSet(others) /\ d \in Nat
      /\ rest \in Seq(Boxes!Node) /\ Len(rest) = d /\ DOMAIN rest = 1..d
      /\ away \in [1..d -> others] /\ \A i \in 1..d : rest[i] = s[away[i]]
      /\ \A k \in others : \E i \in 1..d : away[i] = k
    <2>1. others \subseteq DOMAIN s
        OBVIOUS
    <2> HIDE DEF others
    <2> QED
        BY <2>1, BoxesPicked
<1> HIDE DEF taken, rest, c, d, at, away
<1>3. c + d = Len(s)
    <2>1. IsFiniteSet(DOMAIN s) /\ Cardinality(DOMAIN s) = Len(s)
        BY NodesOf
    <2>2. Cardinality(DOMAIN s \ moving)
            = Cardinality(DOMAIN s) - Cardinality(DOMAIN s \cap moving)
        BY <2>1, FS_Difference
    <2>3. DOMAIN s \cap moving = moving
        OBVIOUS
    <2>4. d = Len(s) - c
        BY <2>1, <2>2, <2>3 DEF c, d
    <2> QED
        BY <1>1, <2>4
<1>4. Boxes!Values(taken) = {s[k].value : k \in moving}
    <2>1. \A i \in 1..c : at[i] \in moving /\ taken[i].value = s[at[i]].value
        BY <1>1
    <2>2. \A k \in moving : \E i \in 1..c : taken[i].value = s[k].value
        BY <1>1
    <2>3. Boxes!Values(taken) = {taken[i].value : i \in 1..c}
        BY <1>1 DEF Boxes!Values
    <2> QED
        BY <2>1, <2>2, <2>3
<1>5. Boxes!Values(rest) = {s[k].value : k \in others}
    <2>1. \A i \in 1..d : away[i] \in others /\ rest[i].value = s[away[i]].value
        BY <1>2
    <2>2. \A k \in others : \E i \in 1..d : rest[i].value = s[k].value
        BY <1>2
    <2>3. Boxes!Values(rest) = {rest[i].value : i \in 1..d}
        BY <1>2 DEF Boxes!Values
    <2> HIDE DEF others
    <2> QED
        BY <2>1, <2>2, <2>3
<1>6. Boxes!Values(taken) \cup Boxes!Values(rest) = Boxes!Values(s)
    BY <1>4, <1>5 DEF Boxes!Values
<1> QED
    BY <1>1, <1>2, <1>3, <1>6 DEF taken, rest

(* The rest hides as many as the list when only options are taken.         *)
LEMMA RestHidesTheSame ==
    ASSUME NEW s \in Seq(Boxes!Node), NEW places, places \subseteq DOMAIN s,
           Boxes!Hidden(s) \subseteq places
    PROVE  Cardinality(Boxes!Hidden(Boxes!Picked(s, places))) = Cardinality(Boxes!Hidden(s))
<1> DEFINE c == Cardinality(places)
           r == Boxes!Picked(s, places)
           at == [i \in 1..c |-> Boxes!Place(places, i)]
           H == Boxes!Hidden(r)
           f == [i \in H |-> at[i]]
<1>1. /\ c \in Nat /\ r \in Seq(Boxes!Node) /\ DOMAIN r = 1..c
      /\ at \in [1..c -> places] /\ \A i \in 1..c : r[i] = s[at[i]]
      /\ \A i, j \in 1..c : i < j => at[i] < at[j]
      /\ \A k \in places : \E i \in 1..c : at[i] = k
    BY BoxesPicked
<1>2. IsFiniteSet(H)
    BY <1>1, NodesOf
<1> HIDE DEF at, r, c
<1>3. H = {i \in 1..c : ~s[at[i]].displayed}
    BY <1>1 DEF Boxes!Hidden
<1>4. f \in [H -> Boxes!Hidden(s)]
    BY <1>1, <1>3 DEF Boxes!Hidden
<1>5. \A i, j \in H : f[i] = f[j] => i = j
    <2> SUFFICES ASSUME NEW i \in H, NEW j \in H, i # j PROVE at[i] # at[j]
        OBVIOUS
    <2>1. i \in 1..c /\ j \in 1..c /\ (i < j \/ j < i)
        BY <1>1, <1>3
    <2>2. at[i] \in Int /\ at[j] \in Int
        BY <1>1, <2>1
    <2> QED
        BY <1>1, <2>1, <2>2
<1>6. \A k \in Boxes!Hidden(s) : \E i \in H : f[i] = k
    BY <1>1, <1>3 DEF Boxes!Hidden
<1> HIDE DEF f
<1>7. f \in Bijection(H, Boxes!Hidden(s))
    BY <1>4, <1>5, <1>6 DEF Bijection, Injection, Surjection, IsInjective
<1>8. ExistsBijection(H, Boxes!Hidden(s))
    BY <1>7 DEF ExistsBijection
<1> QED
    BY <1>2, <1>8, FS_Bijection DEF r

(* Options that are added to a list.                                       *)
LEMMA ListsTogether ==
    ASSUME NEW s \in Seq(Boxes!Node), NEW t \in Seq(Boxes!Node)
    PROVE  /\ s \o t \in Seq(Boxes!Node)
           /\ Len(s \o t) = Len(s) + Len(t)
           /\ Boxes!Values(s \o t) = Boxes!Values(s) \cup Boxes!Values(t)
           /\ (\A k \in DOMAIN t : t[k].displayed) => Boxes!Hidden(s \o t) = Boxes!Hidden(s)
<1>1. /\ s \o t \in Seq(Boxes!Node)
      /\ Len(s \o t) = Len(s) + Len(t) /\ Len(s) \in Nat /\ Len(t) \in Nat
      /\ DOMAIN (s \o t) = 1..Len(s) + Len(t)
      /\ DOMAIN s = 1..Len(s) /\ DOMAIN t = 1..Len(t)
    OBVIOUS
<1>2. \A k \in DOMAIN (s \o t) :
        \/ k \in DOMAIN s /\ (s \o t)[k] = s[k]
        \/ k - Len(s) \in DOMAIN t /\ k \notin DOMAIN s /\ (s \o t)[k] = t[k - Len(s)]
    BY <1>1
<1>3. \A k \in DOMAIN s : k \in DOMAIN (s \o t) /\ (s \o t)[k] = s[k]
    BY <1>1
<1>4. \A k \in DOMAIN t : k + Len(s) \in DOMAIN (s \o t) /\ (s \o t)[k + Len(s)] = t[k]
    BY <1>1
<1>5. Boxes!Values(s \o t) = Boxes!Values(s) \cup Boxes!Values(t)
    <2>1. Boxes!Values(s \o t) \subseteq Boxes!Values(s) \cup Boxes!Values(t)
        BY <1>2 DEF Boxes!Values
    <2>2. Boxes!Values(s) \subseteq Boxes!Values(s \o t)
        BY <1>3 DEF Boxes!Values
    <2>3. Boxes!Values(t) \subseteq Boxes!Values(s \o t)
        BY <1>4 DEF Boxes!Values
    <2> QED
        BY <2>1, <2>2, <2>3
<1>6. ASSUME \A k \in DOMAIN t : t[k].displayed
      PROVE  Boxes!Hidden(s \o t) = Boxes!Hidden(s)
    BY <1>2, <1>3, <1>6 DEF Boxes!Hidden
<1> QED
    BY <1>1, <1>5, <1>6

(* Boxes that hold every choice once between them.                         *)
HoldAll(boxes) ==
    /\ boxes \in [Boxes!Boxes -> Seq(Boxes!Node)]
    /\ Boxes!Values(boxes["from"]) \cup Boxes!Values(boxes["to"]) = known
    /\ Len(boxes["from"]) + Len(boxes["to"]) = Cardinality(known)

LEMMA MoveHoldsAll ==
    ASSUME HoldAll(cache), NEW b \in Boxes!Boxes, NEW values
    PROVE  /\ HoldAll(Boxes!Move(b, values))
           /\ Boxes!HiddenChosen(Boxes!Move(b, values)) = Boxes!HiddenChosen(cache)
<1> DEFINE o == Boxes!Other(b)
           moving == Boxes!Moving(cache[b], values)
           taken == Boxes!Picked(cache[b], moving)
           rest == Boxes!Picked(cache[b], DOMAIN cache[b] \ moving)
           m == Boxes!Move(b, values)
<1>1. /\ o \in Boxes!Boxes /\ o # b /\ Boxes!Boxes = {b, o} /\ "to" \in {b, o}
      /\ (b = "from" /\ o = "to") \/ (b = "to" /\ o = "from")
    BY DEF Boxes!Other, Boxes!Boxes
<1>2. cache[b] \in Seq(Boxes!Node) /\ cache[o] \in Seq(Boxes!Node)
    BY <1>1 DEF HoldAll
<1>3. moving \subseteq DOMAIN cache[b] /\ \A k \in moving : cache[b][k].displayed
    BY DEF Boxes!Moving
<1>4. /\ taken \in Seq(Boxes!Node) /\ rest \in Seq(Boxes!Node)
      /\ Len(taken) + Len(rest) = Len(cache[b])
      /\ Boxes!Values(taken) \cup Boxes!Values(rest) = Boxes!Values(cache[b])
    <2> HIDE DEF moving
    <2> QED
        BY <1>2, <1>3, PickedAndRest
<1>5. \A k \in DOMAIN taken : taken[k].displayed
    <2> DEFINE at == [i \in 1..Cardinality(moving) |-> Boxes!Place(moving, i)]
    <2>1. /\ DOMAIN taken = 1..Cardinality(moving)
          /\ at \in [1..Cardinality(moving) -> moving]
          /\ \A i \in 1..Cardinality(moving) : taken[i] = cache[b][at[i]]
        <3> HIDE DEF moving
        <3> QED
            BY <1>2, <1>3, BoxesPicked
    <2> HIDE DEF at, taken, moving
    <2> QED
        BY <1>3, <2>1
<1>6. /\ m = [cache EXCEPT ![b] = rest, ![o] = @ \o taken]
    BY DEF Boxes!Move
<1> HIDE DEF taken, rest, m
<1>7. m[b] = rest /\ m[o] = cache[o] \o taken /\ m \in [Boxes!Boxes -> Seq(Boxes!Node)]
    <2>1. cache[o] \o taken \in Seq(Boxes!Node)
        BY <1>2, <1>4
    <2>2. m \in [Boxes!Boxes -> Seq(Boxes!Node)]
        BY <1>1, <1>4, <1>6, <2>1 DEF HoldAll
    <2>3. m[b] = rest /\ m[o] = cache[o] \o taken
        BY <1>1, <1>6 DEF HoldAll
    <2> QED
        BY <2>2, <2>3
<1>8. /\ Len(m[o]) = Len(cache[o]) + Len(taken)
      /\ Boxes!Values(m[o]) = Boxes!Values(cache[o]) \cup Boxes!Values(taken)
      /\ Boxes!Hidden(m[o]) = Boxes!Hidden(cache[o])
    BY <1>2, <1>4, <1>5, <1>7, ListsTogether
<1>9. Boxes!Values(m["from"]) \cup Boxes!Values(m["to"]) = known
    BY <1>1, <1>4, <1>7, <1>8 DEF HoldAll
<1>10. Len(m["from"]) + Len(m["to"]) = Cardinality(known)
    <2>1. /\ Len(cache[b]) \in Nat /\ Len(cache[o]) \in Nat
          /\ Len(taken) \in Nat /\ Len(rest) \in Nat
        BY <1>2, <1>4
    <2>2. Len(m[b]) = Len(rest) /\ Len(m[o]) = Len(cache[o]) + Len(taken)
        BY <1>7, <1>8
    <2>3. Len(m[b]) + Len(m[o]) = Len(cache[b]) + Len(cache[o])
        <3> HIDE DEF o, moving
        <3>1. \A v, w, y \in Nat : w + (y + v) = (v + w) + y
            OBVIOUS
        <3>2. Len(rest) + (Len(cache[o]) + Len(taken))
                = (Len(taken) + Len(rest)) + Len(cache[o])
            BY ONLY <2>1, <3>1
        <3> QED
            BY <1>4, <2>2, <3>2
    <2>4. /\ Len(cache["from"]) + Len(cache["to"]) = Cardinality(known)
          /\ Len(m[b]) \in Nat /\ Len(m[o]) \in Nat
        <3> HIDE DEF o, moving
        <3>1. \A x, y \in Nat : x + y \in Nat
            OBVIOUS
        <3>2. Len(m[b]) \in Nat /\ Len(m[o]) \in Nat
            BY <2>1, <2>2, <3>1, Zenon
        <3> QED
            BY <3>2 DEF HoldAll
    <2>5. \A x, y \in Nat : x + y = y + x
        OBVIOUS
    <2> QED
        BY <1>1, <2>1, <2>3, <2>4, <2>5
<1>11. Cardinality(Boxes!Hidden(m[b])) = Cardinality(Boxes!Hidden(cache[b]))
    <2>1. Boxes!Hidden(cache[b]) \subseteq DOMAIN cache[b] \ moving
        BY <1>3 DEF Boxes!Hidden
    <2> HIDE DEF moving
    <2> QED
        BY <1>2, <1>7, <2>1, RestHidesTheSame DEF rest
<1>12. Boxes!HiddenChosen(m) = Boxes!HiddenChosen(cache)
    BY <1>1, <1>8, <1>11, SameCardinality DEF Boxes!HiddenChosen
<1> QED
    BY <1>7, <1>9, <1>10, <1>12 DEF HoldAll, m

(* A filter hides and shows, and changes nothing else.                     *)
LEMMA FilterHoldsAll ==
    ASSUME NEW s \in Seq(Boxes!Node), NEW w
    PROVE  /\ Boxes!Filter(s, w) \in Seq(Boxes!Node)
           /\ Len(Boxes!Filter(s, w)) = Len(s)
           /\ Boxes!Values(Boxes!Filter(s, w)) = Boxes!Values(s)
           /\ \A k \in DOMAIN Boxes!Filter(s, "") : Boxes!Filter(s, "")[k].displayed
<1> DEFINE t == Boxes!Filter(s, w)
<1>1. /\ DOMAIN s = 1..Len(s) /\ Len(s) \in Nat
      /\ \A k \in DOMAIN s : s[k] \in Boxes!Node
    OBVIOUS
<1>2. /\ DOMAIN t = DOMAIN s
      /\ \A k \in DOMAIN s :
            t[k] = [s[k] EXCEPT !.displayed = (w = "" \/ s[k].value \in Match[w])]
    BY DEF Boxes!Filter
<1>3. \A k \in DOMAIN s : t[k] \in Boxes!Node /\ t[k].value = s[k].value
    BY <1>1, <1>2 DEF Boxes!Node
<1>4. t = [k \in 1..Len(s) |-> t[k]]
    BY <1>1 DEF Boxes!Filter
<1> HIDE DEF t
<1>5. t \in Seq(Boxes!Node) /\ Len(t) = Len(s)
    BY <1>1, <1>3, <1>4
<1>6. Boxes!Values(t) = Boxes!Values(s)
    BY <1>2, <1>3 DEF Boxes!Values
<1>7. \A k \in DOMAIN Boxes!Filter(s, "") : Boxes!Filter(s, "")[k].displayed
    BY <1>1 DEF Boxes!Filter, Boxes!Node
<1> QED
    BY <1>5, <1>6, <1>7 DEF t

(* The page as it is loaded: every choice in the box it belongs to, shown. *)
LEMMA ListedOnce ==
    ASSUME NEW S, S \subseteq Items
    PROVE  /\ Boxes!SetToSeq(S) \in [1..Cardinality(S) -> S]
           /\ Cardinality(S) \in Nat
           /\ \A x \in S : \E k \in 1..Cardinality(S) : Boxes!SetToSeq(S)[k] = x
<1>1. IsFiniteSet(S) /\ Cardinality(S) \in Nat /\ ExistsBijection(1..Cardinality(S), S)
    BY ChoicesAreRows, FS_Subset, FS_CardinalityType
<1>2. \E f \in [1..Cardinality(S) -> S] : Boxes!IsInjective(f)
    BY <1>1 DEF ExistsBijection, Bijection, Injection, IsInjective, Boxes!IsInjective
<1> DEFINE f == Boxes!SetToSeq(S)
<1>3. f \in [1..Cardinality(S) -> S] /\ Boxes!IsInjective(f)
    BY <1>2, SameCardinality DEF Boxes!SetToSeq
<1> HIDE DEF f
<1>4. f \in Injection(1..Cardinality(S), S)
    BY <1>3 DEF Injection, IsInjective, Boxes!IsInjective
<1>5. IsFiniteSet(1..Cardinality(S)) /\ Cardinality(1..Cardinality(S)) = Cardinality(S)
    BY <1>1, FS_Interval
<1>6. f \in Surjection(1..Cardinality(S), S)
    BY <1>1, <1>4, <1>5, FS_Injection
<1> QED
    BY <1>1, <1>3, <1>6 DEF f, Surjection

LEMMA LoadedHoldsAll ==
    ASSUME NEW all, all \subseteq Items, NEW S, S \subseteq all
    PROVE  LET boxes == Boxes!Loaded(all, S).cache
           IN  /\ boxes \in [Boxes!Boxes -> Seq(Boxes!Node)]
               /\ Boxes!Values(boxes["from"]) \cup Boxes!Values(boxes["to"]) = all
               /\ Len(boxes["from"]) + Len(boxes["to"]) = Cardinality(all)
               /\ Boxes!HiddenChosen(boxes) = 0
<1> DEFINE boxes == Boxes!Loaded(all, S).cache
           nodes(T) == [k \in 1..Cardinality(T) |->
                            [value |-> Boxes!SetToSeq(T)[k], displayed |-> TRUE]]
<1>1. boxes = [b \in Boxes!Boxes |-> IF b = "to" THEN nodes(S) ELSE nodes(all \ S)]
    BY SameCardinality DEF Boxes!Loaded
<1>2. ASSUME NEW T, T \subseteq all
      PROVE  /\ nodes(T) \in Seq(Boxes!Node) /\ Len(nodes(T)) = Cardinality(T)
             /\ Boxes!Values(nodes(T)) = T
             /\ Boxes!Hidden(nodes(T)) = {}
    <2> DEFINE c == Cardinality(T)
               f == Boxes!SetToSeq(T)
               t == nodes(T)
    <2>1. /\ f \in [1..c -> T] /\ c \in Nat /\ \A x \in T : \E k \in 1..c : f[k] = x
        BY <1>2, ListedOnce
    <2>2. DOMAIN t = 1..c /\ \A k \in 1..c : t[k] = [value |-> f[k], displayed |-> TRUE]
        OBVIOUS
    <2>3. t = [k \in 1..c |-> t[k]]
        OBVIOUS
    <2> HIDE DEF t, f, c
    <2>4. \A k \in 1..c : t[k] \in Boxes!Node /\ t[k].value = f[k] /\ t[k].displayed
        <3> TAKE k \in 1..c
        <3>1. f[k] \in Items
            BY <1>2, <2>1
        <3>2. t[k] = [value |-> f[k], displayed |-> TRUE]
            BY <2>2
        <3> QED
            BY <3>1, <3>2 DEF Boxes!Node
    <2>5. t \in Seq(Boxes!Node) /\ Len(t) = c
        BY <2>1, <2>3, <2>4
    <2>6. Boxes!Values(t) = T
        BY <2>1, <2>2, <2>4 DEF Boxes!Values
    <2>7. Boxes!Hidden(t) = {}
        BY <2>2, <2>4 DEF Boxes!Hidden
    <2> QED
        BY <2>5, <2>6, <2>7 DEF t, c
<1> HIDE DEF nodes, boxes
<1>3. boxes["from"] = nodes(all \ S) /\ boxes["to"] = nodes(S)
    BY <1>1 DEF Boxes!Boxes
<1>4. /\ all \ S \subseteq all
      /\ nodes(S) \in Seq(Boxes!Node) /\ nodes(all \ S) \in Seq(Boxes!Node)
    BY <1>2
<1>5. boxes \in [Boxes!Boxes -> Seq(Boxes!Node)]
    BY <1>1, <1>4
<1>6. Boxes!Values(boxes["from"]) \cup Boxes!Values(boxes["to"]) = all
    BY <1>2, <1>3, <1>4
<1>7. Cardinality(all) = Cardinality(all \ S) + Cardinality(S)
    <2>1. IsFiniteSet(all) /\ Cardinality(all) \in Nat /\ Cardinality(S) \in Nat
        BY ChoicesAreRows, FS_Subset, FS_CardinalityType
    <2>2. Cardinality(all \ S) = Cardinality(all) - Cardinality(all \cap S)
        BY <2>1, FS_Difference
    <2>3. all \cap S = S
        OBVIOUS
    <2> QED
        BY <2>1, <2>2, <2>3
<1>8. Len(boxes["from"]) + Len(boxes["to"]) = Cardinality(all)
    BY <1>2, <1>3, <1>4, <1>7
<1>9. Boxes!HiddenChosen(boxes) = 0
    BY <1>2, <1>3, SameCardinality, FS_EmptySet DEF Boxes!HiddenChosen
<1> QED
    BY <1>5, <1>6, <1>8, <1>9 DEF boxes

ChoicesInv ==
    /\ Boxes!TypeOK
    /\ HoldAll(cache)
    /\ IF Boxes!Open THEN warned = Boxes!HiddenChosen(cache)
                     ELSE form.values = Boxes!Values(cache["to"])

LEMMA PageOfChoices ==
    ASSUME NEW all, all \subseteq Items, NEW S, S \subseteq all,
           cache' = Boxes!Loaded(all, S).cache, enabled' = Boxes!Loaded(all, S).enabled,
           selected' = Boxes!Unselected, text' = [b \in Boxes!Boxes |-> ""],
           warned' = 0, form' = Boxes!NotSent, known' = all
    PROVE  ChoicesInv'
<1>1. HoldAll(cache)' /\ Boxes!HiddenChosen(cache)' = 0
    BY LoadedHoldsAll DEF HoldAll
<1>2. enabled' \subseteq Boxes!Buttons
    BY DEF Boxes!Loaded, Boxes!Icons
<1>3. Boxes!Open'
    BY DEF Boxes!Open
<1>4. Boxes!TypeOK'
    BY <1>1, <1>2 DEF Boxes!TypeOK, HoldAll, Boxes!Unselected, Boxes!Texts
<1> QED
    BY <1>1, <1>3, <1>4 DEF ChoicesInv

(* What the box on the right hides is a number.                            *)
LEMMA HiddenIsNumber ==
    ASSUME NEW boxes, boxes \in [Boxes!Boxes -> Seq(Boxes!Node)]
    PROVE  Boxes!HiddenChosen(boxes) \in Nat
<1>1. boxes["to"] \in Seq(Boxes!Node)
    BY DEF Boxes!Boxes
<1> QED
    BY <1>1, NodesOf, SameCardinality DEF Boxes!HiddenChosen

LEMMA SelectedAreItems ==
    ASSUME NEW s \in Seq(Boxes!Node)
    PROVE  /\ Boxes!AllOptions(s) \subseteq Items
           /\ \A k : Boxes!OptionAt(s, k) \subseteq Items
<1> DEFINE P == {k \in DOMAIN s : s[k].displayed}
           r == Boxes!Options(s)
<1>1. r \in Seq(Boxes!Node)
    BY BoxesPicked DEF Boxes!Options
<1> HIDE DEF r
<1>2. Boxes!Values(r) \subseteq Items
    BY <1>1, NodesOf
<1>3. \A k \in DOMAIN r : r[k].value \in Items
    BY <1>2 DEF Boxes!Values
<1> QED
    BY <1>2, <1>3 DEF Boxes!AllOptions, Boxes!OptionAt, r

LEMMA OneFilterHoldsAll ==
    ASSUME HoldAll(cache), NEW b \in Boxes!Boxes, NEW w
    PROVE  HoldAll([cache EXCEPT ![b] = Boxes!Filter(@, w)])
<1> DEFINE m == [cache EXCEPT ![b] = Boxes!Filter(@, w)]
<1>1. cache \in [Boxes!Boxes -> Seq(Boxes!Node)]
    BY DEF HoldAll
<1>2. /\ Boxes!Filter(cache[b], w) \in Seq(Boxes!Node)
      /\ Len(Boxes!Filter(cache[b], w)) = Len(cache[b])
      /\ Boxes!Values(Boxes!Filter(cache[b], w)) = Boxes!Values(cache[b])
    BY <1>1, FilterHoldsAll
<1>3. m \in [Boxes!Boxes -> Seq(Boxes!Node)]
    BY <1>1, <1>2
<1>4. \A x \in Boxes!Boxes :
            Len(m[x]) = Len(cache[x]) /\ Boxes!Values(m[x]) = Boxes!Values(cache[x])
    BY <1>1, <1>2
<1> HIDE DEF m
<1> QED
    BY <1>3, <1>4 DEF HoldAll, Boxes!Boxes, m

LEMMA FiltersHoldAll ==
    ASSUME NEW boxes, HoldAll(boxes)
    PROVE  HoldAll(Boxes!FilterBoth(boxes))
<1> DEFINE m == Boxes!FilterBoth(boxes)
<1>1. boxes \in [Boxes!Boxes -> Seq(Boxes!Node)]
    BY DEF HoldAll
<1>2. \A x \in Boxes!Boxes :
            /\ m[x] \in Seq(Boxes!Node) /\ Len(m[x]) = Len(boxes[x])
            /\ Boxes!Values(m[x]) = Boxes!Values(boxes[x])
    BY <1>1, FilterHoldsAll DEF Boxes!FilterBoth
<1>3. m \in [Boxes!Boxes -> Seq(Boxes!Node)]
    BY <1>2 DEF Boxes!FilterBoth
<1> HIDE DEF m
<1> QED
    BY <1>2, <1>3 DEF HoldAll, Boxes!Boxes, m

LEMMA ChoicesKeep == ChoicesInv /\ [Boxes!Next]_boxesVars => ChoicesInv'
<1> SUFFICES ASSUME ChoicesInv, [Boxes!Next]_boxesVars PROVE ChoicesInv'
    OBVIOUS
<1>1. /\ Boxes!TypeOK /\ HoldAll(cache) /\ cache \in [Boxes!Boxes -> Seq(Boxes!Node)]
      /\ Boxes!Open => warned = Boxes!HiddenChosen(cache)
      /\ ~Boxes!Open => form.values = Boxes!Values(cache["to"])
      /\ "to" \in Boxes!Boxes /\ "from" \in Boxes!Boxes
    BY DEF ChoicesInv, HoldAll, Boxes!Boxes
<1>2. /\ selected \in [Boxes!Boxes -> SUBSET Items] /\ text \in [Boxes!Boxes -> Boxes!Texts]
      /\ enabled \subseteq Boxes!Buttons /\ "" \in Boxes!Texts
      /\ \A nodes, values : Boxes!Icons(nodes, values) \subseteq Boxes!Buttons
      /\ Boxes!Unselected \in [Boxes!Boxes -> SUBSET Items]
    BY <1>1 DEF Boxes!TypeOK, Boxes!Icons, Boxes!Unselected, Boxes!Texts
<1>3. ASSUME Boxes!Open, UNCHANGED <<form, known>>, HoldAll(cache'),
             warned' = Boxes!HiddenChosen(cache'),
             selected' \in [Boxes!Boxes -> SUBSET Items],
             text' \in [Boxes!Boxes -> Boxes!Texts], enabled' \subseteq Boxes!Buttons
      PROVE  ChoicesInv'
    <2>1. warned' \in Nat
        BY <1>3, HiddenIsNumber DEF HoldAll
    <2>2. Boxes!Open' /\ known' \subseteq Items
        BY <1>1, <1>3 DEF Boxes!Open, Boxes!TypeOK
    <2>3. HoldAll(cache)'
        BY <1>3 DEF HoldAll
    <2>4. Boxes!TypeOK'
        BY <1>1, <1>3, <2>1, <2>2, <2>3 DEF Boxes!TypeOK, HoldAll
    <2> QED
        BY <1>3, <2>2, <2>3, <2>4 DEF ChoicesInv
<1>4. ASSUME NEW b \in Boxes!Boxes,
             NEW picked \in SUBSET Boxes!Values(Boxes!Options(cache[b])),
             Boxes!Pick(b, picked)
      PROVE  ChoicesInv'
    <2>1. picked \subseteq Items
        BY <1>1, SelectedAreItems DEF Boxes!AllOptions
    <2> QED
        BY <1>1, <1>2, <1>3, <1>4, <2>1 DEF Boxes!Pick
<1>5. ASSUME NEW b \in Boxes!Boxes, NEW button, NEW picked,
             Boxes!MoveSelection(b, button, picked)
      PROVE  ChoicesInv'
    <2>1. HoldAll(cache')
        BY <1>1, <1>5, MoveHoldsAll, FiltersHoldAll DEF Boxes!MoveSelection
    <2> QED
        BY <1>2, <1>3, <1>5, <2>1 DEF Boxes!MoveSelection
<1>6. ASSUME NEW b \in Boxes!Boxes, NEW c, Boxes!DoubleClick(b, c)
      PROVE  ChoicesInv'
    <2>1. HoldAll(cache') /\ Boxes!HiddenChosen(cache') = Boxes!HiddenChosen(cache)
        BY <1>1, <1>6, MoveHoldsAll DEF Boxes!DoubleClick
    <2> QED
        BY <1>1, <1>2, <1>3, <1>6, <2>1 DEF Boxes!DoubleClick
<1>7. ASSUME NEW b \in Boxes!Boxes, NEW w \in Boxes!Texts, Boxes!Input(b, w)
      PROVE  ChoicesInv'
    BY <1>1, <1>2, <1>3, <1>7 DEF Boxes!Input
<1>8. ASSUME NEW b \in Boxes!Boxes, HoldAll(cache'), NEW k, NEW old,
             old \in [Boxes!Boxes -> SUBSET Items],
             selected' = [old EXCEPT ![b] = Boxes!OptionAt(cache'[b], k)]
      PROVE  selected' \in [Boxes!Boxes -> SUBSET Items]
    <2>1. Boxes!OptionAt(cache'[b], k) \subseteq Items
        BY <1>8, SelectedAreItems DEF HoldAll
    <2> QED
        BY <1>8, <2>1
<1>9. ASSUME NEW b \in Boxes!Boxes, Boxes!KeyUp(b)
      PROVE  ChoicesInv'
    <2>1. HoldAll(cache')
        BY <1>1, <1>9, OneFilterHoldsAll DEF Boxes!KeyUp
    <2>2. selected' \in [Boxes!Boxes -> SUBSET Items]
        BY <1>2, <1>8, <1>9, <2>1 DEF Boxes!KeyUp
    <2> QED
        BY <1>2, <1>3, <1>9, <2>1, <2>2 DEF Boxes!KeyUp
<1>10. ASSUME NEW b \in Boxes!Boxes, Boxes!EnterPressed(b)
       PROVE  ChoicesInv'
    <2>1. HoldAll(cache') /\ Boxes!HiddenChosen(cache') = Boxes!HiddenChosen(cache)
        BY <1>1, <1>10, MoveHoldsAll DEF Boxes!EnterPressed
    <2>2. selected' \in [Boxes!Boxes -> SUBSET Items]
        BY <1>2, <1>8, <1>10, <2>1 DEF Boxes!EnterPressed
    <2> QED
        BY <1>1, <1>2, <1>3, <1>10, <2>1, <2>2 DEF Boxes!EnterPressed
<1>11. ASSUME NEW b \in Boxes!Boxes, Boxes!ArrowAcross(b)
       PROVE  ChoicesInv'
    <2>1. HoldAll(cache')
        BY <1>1, <1>11, MoveHoldsAll, FiltersHoldAll DEF Boxes!ArrowAcross
    <2>2. selected' \in [Boxes!Boxes -> SUBSET Items]
        BY <1>2, <1>8, <1>11, <2>1 DEF Boxes!ArrowAcross
    <2> QED
        BY <1>2, <1>3, <1>11, <2>1, <2>2 DEF Boxes!ArrowAcross
<1>12. ASSUME NEW b \in Boxes!Boxes, Boxes!ArrowDown(b) \/ Boxes!ArrowUp(b)
       PROVE  ChoicesInv'
    <2>1. HoldAll(cache') /\ cache' = cache
        BY <1>1, <1>12 DEF Boxes!ArrowDown, Boxes!ArrowUp
    <2>2. selected' \in [Boxes!Boxes -> SUBSET Items]
        BY <1>2, <1>8, <1>12, <2>1 DEF Boxes!ArrowDown, Boxes!ArrowUp
    <2> QED
        BY <1>1, <1>2, <1>3, <1>12, <2>1, <2>2 DEF Boxes!ArrowDown, Boxes!ArrowUp
<1>13. CASE Boxes!ClearFilter
    <2>1. HoldAll(cache')
        BY <1>1, <1>13, OneFilterHoldsAll DEF Boxes!ClearFilter
    <2> QED
        BY <1>2, <1>3, <1>13, <2>1 DEF Boxes!ClearFilter
<1>14. ASSUME NEW c \in Later, Boxes!RelatedAdded(c)
       PROVE  ChoicesInv'
    <2> DEFINE node == [value |-> c, displayed |-> TRUE]
               to == cache["to"]
    <2>1. /\ Boxes!Open /\ c \notin known /\ known' = known \cup {c}
          /\ cache' = [cache EXCEPT !["to"] = Append(to, node)]
          /\ selected' = [selected EXCEPT !["to"] = {}]
          /\ UNCHANGED <<text, enabled, warned, form>>
        BY <1>14 DEF Boxes!RelatedAdded
    <2>2. known \subseteq Items /\ known' \subseteq Items /\ IsFiniteSet(known)
        BY <1>1, <2>1, ChoicesAreRows, FS_Subset DEF Boxes!TypeOK
    <2>3. Cardinality(known') = Cardinality(known) + 1
        BY <2>1, <2>2, FS_AddElement
    <2>4. /\ to \in Seq(Boxes!Node) /\ node \in Boxes!Node
          /\ <<node>> \in Seq(Boxes!Node) /\ Len(<<node>>) = 1
        <3>1. c \in Items
            BY <2>1, <2>2
        <3>2. to \in Seq(Boxes!Node) /\ node \in Boxes!Node
            BY <1>1, <3>1 DEF Boxes!Node
        <3> HIDE DEF node, to
        <3> QED
            BY <3>2
    <2>5. Append(to, node) = to \o <<node>>
        <3> HIDE DEF node, to
        <3> QED
            BY <2>4, AppendIsConcat
    <2>6. Boxes!Values(<<node>>) = {c} /\ \A k \in DOMAIN <<node>> : <<node>>[k].displayed
        BY DEF Boxes!Values
    <2>7. /\ Append(to, node) \in Seq(Boxes!Node)
          /\ Len(Append(to, node)) = Len(to) + 1
          /\ Boxes!Values(Append(to, node)) = Boxes!Values(to) \cup {c}
          /\ Boxes!Hidden(Append(to, node)) = Boxes!Hidden(to)
        <3> HIDE DEF node, to
        <3> QED
            BY <2>4, <2>5, <2>6, ListsTogether, ZenonT(30)
    <2>8. /\ cache' \in [Boxes!Boxes -> Seq(Boxes!Node)]
          /\ cache'["from"] = cache["from"] /\ cache'["to"] = Append(to, node)
        BY <1>1, <2>1, <2>7
    <2> HIDE DEF to, node
    <2>9. HoldAll(cache)'
        <3>1. Boxes!Values(cache'["from"]) \cup Boxes!Values(cache'["to"]) = known'
            BY <1>1, <2>1, <2>7, <2>8 DEF HoldAll, to
        <3>2. Len(cache'["from"]) + Len(cache'["to"]) = Cardinality(known')
            <4>1. Len(cache["from"]) \in Nat /\ Len(to) \in Nat
                BY <1>1, <2>4
            <4>2. Len(cache["from"]) + Len(to) = Cardinality(known)
                BY <1>1 DEF HoldAll, to
            <4>3. Len(cache["from"]) + (Len(to) + 1) = (Len(cache["from"]) + Len(to)) + 1
                <5>1. \A x, y \in Nat : x + (y + 1) = (x + y) + 1
                    OBVIOUS
                <5> QED
                    BY ONLY <4>1, <5>1
            <4> QED
                BY <2>3, <2>7, <2>8, <4>2, <4>3
        <3> QED
            BY <2>8, <3>1, <3>2 DEF HoldAll
    <2>10. Boxes!HiddenChosen(cache') = Boxes!HiddenChosen(cache)
        BY <2>7, <2>8 DEF Boxes!HiddenChosen, to
    <2>11. Boxes!Open' /\ Boxes!TypeOK'
        BY <1>1, <1>2, <2>1, <2>2, <2>8 DEF Boxes!Open, Boxes!TypeOK
    <2> QED
        BY <1>1, <2>1, <2>9, <2>10, <2>11 DEF ChoicesInv
<1>15. CASE Boxes!Submit
    <2> DEFINE to == Boxes!Filter(cache["to"], "")
               P == {k \in DOMAIN to : to[k].displayed}
    <2>1. /\ Boxes!Open
          /\ cache' = [cache EXCEPT !["to"] = to]
          /\ selected' = [selected EXCEPT !["to"] = Boxes!AllOptions(cache'["to"])]
          /\ form' = [sent |-> TRUE, values |-> selected'["to"]]
          /\ UNCHANGED <<text, enabled, warned, known>>
        BY <1>15 DEF Boxes!Submit
    <2>2. HoldAll(cache') /\ cache'["to"] = to /\ to \in Seq(Boxes!Node)
        BY <1>1, <2>1, OneFilterHoldsAll, FilterHoldsAll
    <2>3. \A k \in DOMAIN to : to[k].displayed
        BY <1>1, FilterHoldsAll
    <2> HIDE DEF to
    <2>4. P = DOMAIN to
        BY <2>3
    <2>5. /\ Boxes!Values(Boxes!Picked(to, DOMAIN to)) = Boxes!Values(to)
        <3> DEFINE none == {}
        <3>1. DOMAIN to \ DOMAIN to = none /\ DOMAIN to \subseteq DOMAIN to
            OBVIOUS
        <3>2. Boxes!Values(Boxes!Picked(to, DOMAIN to))
                \cup Boxes!Values(Boxes!Picked(to, none)) = Boxes!Values(to)
            BY <2>2, <3>1, PickedAndRest
        <3>3. Len(Boxes!Picked(to, none)) = 0 /\ Boxes!Picked(to, none) \in Seq(Boxes!Node)
            BY <2>2, BoxesPicked, FS_EmptySet
        <3>4. Boxes!Values(Boxes!Picked(to, none)) = {}
            BY <3>3 DEF Boxes!Values
        <3> QED
            BY <3>2, <3>4
    <2>6. Boxes!AllOptions(cache'["to"]) = Boxes!Values(cache'["to"])
        BY <2>2, <2>4, <2>5 DEF Boxes!AllOptions, Boxes!Options
    <2>7. Boxes!Values(cache'["to"]) \subseteq Items
        BY <2>2, NodesOf
    <2>8. /\ selected' \in [Boxes!Boxes -> SUBSET Items]
          /\ form'.values = Boxes!Values(cache'["to"])
        BY <1>1, <1>2, <2>1, <2>6, <2>7
    <2>9. ~Boxes!Open' /\ form' \in [sent : {TRUE}, values : SUBSET Items]
        BY <1>1, <2>1, <2>8 DEF Boxes!Open, Boxes!NotSent
    <2>10. HoldAll(cache)'
        BY <2>1, <2>2 DEF HoldAll
    <2>11. Boxes!TypeOK'
        BY <1>1, <1>2, <2>1, <2>8, <2>9, <2>10 DEF Boxes!TypeOK, HoldAll
    <2> QED
        BY <2>8, <2>9, <2>10, <2>11 DEF ChoicesInv
<1>16. CASE Boxes!Reopen
    <2>1. form.values \subseteq known /\ known \subseteq Items
        BY <1>1, <1>16 DEF Boxes!Reopen, HoldAll, Boxes!TypeOK
    <2> QED
        BY <1>16, <2>1, PageOfChoices DEF Boxes!Reopen
<1>17. CASE UNCHANGED boxesVars
    BY <1>17 DEF boxesVars, ChoicesInv, HoldAll, Boxes!TypeOK, Boxes!Open
<1>18. CASE Boxes!AddSelected \/ Boxes!RemoveSelected \/ Boxes!ChooseAll \/ Boxes!ClearAll
    BY <1>1, <1>5, <1>18
       DEF Boxes!AddSelected, Boxes!RemoveSelected, Boxes!ChooseAll, Boxes!ClearAll
<1> QED
    BY <1>4, <1>6, <1>7, <1>9, <1>10, <1>11, <1>12, <1>13, <1>14, <1>15, <1>16, <1>17, <1>18
    DEF Boxes!Next

LEMMA ChoicesStart == Init => ChoicesInv
<1> SUFFICES ASSUME Init PROVE ChoicesInv
    OBVIOUS
<1> DEFINE all == Items \ Later
           boxes == Boxes!Loaded(all, Preselected).cache
<1>1. /\ cache = boxes /\ enabled = Boxes!Loaded(all, Preselected).enabled
      /\ selected = Boxes!Unselected /\ text = [b \in Boxes!Boxes |-> ""]
      /\ warned = 0 /\ form = Boxes!NotSent /\ known = all
    BY DEF Init, Boxes!Init
<1>2. Preselected \subseteq all /\ all \subseteq Items
    BY ChoicesAreRows
<1>3. HoldAll(cache) /\ Boxes!HiddenChosen(cache) = 0
    BY <1>1, <1>2, LoadedHoldsAll DEF HoldAll
<1>4. enabled \subseteq Boxes!Buttons /\ Boxes!Open
    BY <1>1 DEF Boxes!Loaded, Boxes!Icons, Boxes!Open
<1>5. Boxes!TypeOK
    BY <1>1, <1>2, <1>3, <1>4 DEF Boxes!TypeOK, HoldAll, Boxes!Unselected, Boxes!Texts
<1> QED
    BY <1>1, <1>3, <1>4, <1>5 DEF ChoicesInv

LEMMA ChoicesAlways == Spec => []ChoicesInv
<1>1. [Next]_vars => [Boxes!Next]_boxesVars
    BY OneWidgetMoves
<1> QED
    BY <1>1, ChoicesStart, ChoicesKeep, PTL DEF Spec

(* However choices are moved, filtered, typed about and created, and       *)
(* however many there are, each is in exactly one of the boxes, once.      *)
THEOREM NoChoiceIsLost == Spec => []ChoicesConserved
<1>1. ChoicesInv => ChoicesConserved
    BY SameCardinality DEF ChoicesInv, HoldAll, ChoicesConserved, Boxes!ChoicesConserved
<1> QED
    BY <1>1, ChoicesAlways, PTL

(* What the filter hides of the chosen choices is told, and sent with the  *)
(* others.                                                                 *)
THEOREM HiddenAreToldAndSent == Spec => []HiddenAreChosen
<1>1. ChoicesInv => HiddenAreChosen
    BY DEF ChoicesInv, HiddenAreChosen, Boxes!HiddenAreChosen
<1> QED
    BY <1>1, ChoicesAlways, PTL

-----------------------------------------------------------------------------
(* A set that has 0, and the number after each of its numbers below n, has *)
(* all up to n.                                                            *)
LEMMA CountingUp ==
    ASSUME NEW n \in Nat, NEW G, 0 \in G, \A i \in 0..(n - 1) : i \in G => i + 1 \in G
    PROVE  \A i \in 0..n : i \in G
<1> DEFINE Bad == {i \in 0..n : i \notin G}
           R == OpToRel(<, Nat)
<1> SUFFICES ASSUME Bad # {} PROVE FALSE
    OBVIOUS
<1>1. PICK i \in Bad : \A j \in Bad : ~(<<j, i>> \in R)
    <2>1. IsWellFoundedOn(R, Nat)
        BY NatLessThanWellFounded
    <2>2. Bad \subseteq Nat
        OBVIOUS
    <2> HIDE DEF Bad, R
    <2> QED
        BY <2>1, <2>2, WFMin
<1>2. i \in Nat /\ i - 1 \in 0..(n - 1) /\ i # 0
    OBVIOUS
<1>3. <<i - 1, i>> \in R
    BY <1>2 DEF OpToRel
<1>4. i - 1 \in G
    <2>1. i - 1 \notin Bad
        <3> HIDE DEF Bad, R
        <3> QED
            BY <1>1, <1>3
    <2>2. i - 1 \in 0..n
        BY <1>2
    <2> QED
        BY <2>1, <2>2
<1>5. (i - 1) + 1 \in G /\ (i - 1) + 1 = i
    BY <1>2, <1>4
<1> QED
    BY <1>5

-----------------------------------------------------------------------------
(* The inline rows. The rows up to the k-th are those of earlier forms.    *)
Row == {Inlines!ErrorRow} \cup Inlines!FormRows
Before(rows, k) == {j \in Inlines!Forms(rows) : j < k}

(* Rows as inlines.js keeps them: numbered by their place, with as many    *)
(* editors each, errors only before the form they are about, and the       *)
(* saved ones first.                                                       *)
Numbered(rows) ==
    \A k \in Inlines!Forms(rows) :
        /\ rows[k].index = Cardinality(Before(rows, k))
        /\ rows[k].rowId = rows[k].index
Whole(rows, editors) ==
    \A k \in DOMAIN rows :
        IF Inlines!IsForm(rows[k])
        THEN /\ rows[k].editors = editors
             /\ rows[k].failed <=> k > 1 /\ ~Inlines!IsForm(rows[k - 1])
        ELSE k + 1 \in DOMAIN rows /\ Inlines!IsForm(rows[k + 1]) /\ rows[k + 1].failed
SavedFirst(rows) ==
    \A j, k \in Inlines!Forms(rows) : j < k /\ rows[k].saved => rows[j].saved
WellKept(rows, editors) ==
    rows \in Seq(Row) /\ Numbered(rows) /\ Whole(rows, editors) /\ SavedFirst(rows)

LEMMA RowKinds ==
    /\ \A r \in Row : Inlines!IsForm(r) <=> r \in Inlines!FormRows
    /\ \A r \in Inlines!FormRows : r \in Row /\ Inlines!IsForm(r)
    /\ Inlines!ErrorRow \in Row /\ ~Inlines!IsForm(Inlines!ErrorRow)
BY DEF Row, Inlines!IsForm, Inlines!FormRows, Inlines!ErrorRow

LEMMA FormsAreFinite ==
    ASSUME NEW rows \in Seq(Row)
    PROVE  /\ DOMAIN rows = 1..Len(rows) /\ Len(rows) \in Nat
           /\ Inlines!Forms(rows) \subseteq 1..Len(rows)
           /\ IsFiniteSet(Inlines!Forms(rows))
           /\ Inlines!Count(rows) = Cardinality(Inlines!Forms(rows))
           /\ Inlines!Count(rows) \in Nat
           /\ \A k : /\ IsFiniteSet(Before(rows, k))
                     /\ Cardinality(Before(rows, k)) \in Nat
<1>1. DOMAIN rows = 1..Len(rows) /\ Len(rows) \in Nat
    OBVIOUS
<1>2. Inlines!Forms(rows) \subseteq 1..Len(rows)
    BY <1>1 DEF Inlines!Forms
<1>3. IsFiniteSet(1..Len(rows))
    BY <1>1, FS_Interval
<1>4. IsFiniteSet(Inlines!Forms(rows)) /\ Cardinality(Inlines!Forms(rows)) \in Nat
    BY <1>2, <1>3, FS_Subset, FS_CardinalityType
<1>5. Inlines!Count(rows) = Cardinality(Inlines!Forms(rows))
    BY SameCardinality DEF Inlines!Count
<1>6. ASSUME NEW k PROVE IsFiniteSet(Before(rows, k)) /\ Cardinality(Before(rows, k)) \in Nat
    <2>1. Before(rows, k) \in SUBSET Inlines!Forms(rows)
        BY DEF Before
    <2> QED
        BY <1>4, <2>1, FS_Subset, FS_CardinalityType
<1> QED
    BY <1>1, <1>2, <1>4, <1>5, <1>6

(* A form at the end, with its errors before it.                           *)
Block(new) == IF new.failed THEN <<Inlines!ErrorRow, new>> ELSE <<new>>

LEMMA FormAtEnd ==
    ASSUME NEW rows \in Seq(Row), NEW new \in Inlines!FormRows
    PROVE  LET n == Len(rows)
               w == IF new.failed THEN 2 ELSE 1
               longer == rows \o Block(new)
           IN  /\ longer \in Seq(Row) /\ Len(longer) = n + w
               /\ \A k \in 1..n : longer[k] = rows[k]
               /\ longer[n + w] = new
               /\ new.failed => longer[n + 1] = Inlines!ErrorRow
<1> DEFINE n == Len(rows)
<1>1. n \in Nat /\ new \in Row /\ Inlines!ErrorRow \in Row
    BY RowKinds
<1>2. CASE new.failed
    <2>1. Block(new) = <<Inlines!ErrorRow, new>>
        BY <1>2 DEF Block
    <2> DEFINE e == Inlines!ErrorRow
    <2> HIDE DEF e
    <2>2. e \in Row /\ Block(new) = <<e, new>>
        BY <1>1, <2>1 DEF e
    <2>3. <<e, new>> \in Seq(Row) /\ Len(<<e, new>>) = 2
        BY <1>1, <2>2
    <2>4. /\ rows \o <<e, new>> \in Seq(Row) /\ Len(rows \o <<e, new>>) = n + 2
          /\ \A k \in 1..n : (rows \o <<e, new>>)[k] = rows[k]
          /\ (rows \o <<e, new>>)[n + 2] = new
          /\ (rows \o <<e, new>>)[n + 1] = e
        BY <1>1, <2>2, <2>3
    <2> QED
        BY <1>2, <2>2, <2>4 DEF e
<1>3. CASE ~new.failed
    <2>1. Block(new) = <<new>>
        BY <1>3 DEF Block
    <2>2. <<new>> \in Seq(Row) /\ Len(<<new>>) = 1
        BY <1>1
    <2>3. /\ rows \o <<new>> \in Seq(Row) /\ Len(rows \o <<new>>) = n + 1
          /\ \A k \in 1..n : (rows \o <<new>>)[k] = rows[k]
          /\ (rows \o <<new>>)[n + 1] = new
        BY <1>1, <2>2
    <2> QED
        BY <1>3, <2>1, <2>3
<1> QED
    BY <1>2, <1>3

(* A form that is numbered next, after the saved ones when it is not saved,*)
(* is kept as well as the others.                                          *)
LEMMA AddedIsKept ==
    ASSUME NEW rows, NEW editors \in Nat, WellKept(rows, editors),
           NEW new \in Inlines!FormRows,
           new.index = Inlines!Count(rows), new.rowId = new.index, new.editors = editors,
           new.saved => \A k \in Inlines!Forms(rows) : rows[k].saved
    PROVE  LET longer == rows \o Block(new)
           IN  /\ WellKept(longer, editors)
               /\ Inlines!Count(longer) = Inlines!Count(rows) + 1
               /\ \A k \in Inlines!Forms(longer) :
                    longer[k] = new \/ (k \in Inlines!Forms(rows) /\ longer[k] = rows[k])
<1> DEFINE n == Len(rows)
           w == IF new.failed THEN 2 ELSE 1
           longer == rows \o Block(new)
           F == Inlines!Forms(rows)
<1>1. rows \in Seq(Row) /\ Numbered(rows) /\ Whole(rows, editors) /\ SavedFirst(rows)
    BY DEF WellKept
<1>2. /\ longer \in Seq(Row) /\ Len(longer) = n + w
      /\ \A k \in 1..n : longer[k] = rows[k]
      /\ longer[n + w] = new
      /\ new.failed => longer[n + 1] = Inlines!ErrorRow
    BY <1>1, FormAtEnd
<1>3. /\ n \in Nat /\ w \in {1, 2} /\ (new.failed <=> w = 2)
      /\ DOMAIN rows = 1..n /\ F \subseteq 1..n /\ n + w \notin F
      /\ F = {k \in 1..n : Inlines!IsForm(rows[k])}
      /\ IsFiniteSet(F) /\ Inlines!Count(rows) = Cardinality(F) /\ Cardinality(F) \in Nat
    <2>1. /\ n \in Nat /\ DOMAIN rows = 1..n /\ F \subseteq 1..n
          /\ IsFiniteSet(F) /\ Inlines!Count(rows) = Cardinality(F)
          /\ Inlines!Count(rows) \in Nat
        BY <1>1, FormsAreFinite
    <2>2. F = {k \in 1..n : Inlines!IsForm(rows[k])}
        BY <2>1 DEF Inlines!Forms
    <2>3. w \in {1, 2} /\ (new.failed <=> w = 2)
        OBVIOUS
    <2> HIDE DEF w, F, n
    <2> QED
        BY <2>1, <2>2, <2>3
<1>4. Inlines!IsForm(new) /\ ~Inlines!IsForm(Inlines!ErrorRow)
    BY RowKinds
<1> HIDE DEF n, w, longer, F
<1>5. /\ DOMAIN longer = 1..(n + w)
      /\ \A k \in 1..(n + w) : k \in 1..n \/ k = n + w \/ (w = 2 /\ k = n + 1)
    BY <1>2, <1>3
<1>6. Inlines!Forms(longer) = F \cup {n + w}
    <2>1. Inlines!Forms(longer) = {k \in 1..(n + w) : Inlines!IsForm(longer[k])}
        BY <1>5 DEF Inlines!Forms
    <2>2. ASSUME NEW k \in 1..(n + w) PROVE Inlines!IsForm(longer[k]) <=> k \in F \cup {n + w}
        BY <1>2, <1>3, <1>4, <1>5
    <2>3. F \cup {n + w} \subseteq 1..(n + w)
        BY <1>3
    <2> QED
        BY <2>1, <2>2, <2>3
<1>7. Inlines!Count(longer) = Inlines!Count(rows) + 1
    <2>1. Inlines!Count(longer) = Cardinality(F \cup {n + w})
        BY <1>2, <1>6, FormsAreFinite
    <2>2. Cardinality(F \cup {n + w}) = Cardinality(F) + 1
        BY <1>3, FS_AddElement, ZenonT(30)
    <2> QED
        BY <1>3, <2>1, <2>2
<1>8. /\ \A k \in F : Before(longer, k) = Before(rows, k)
      /\ Before(longer, n + w) = F
    BY <1>3, <1>6 DEF Before, F
<1>9. Numbered(longer)
    BY <1>1, <1>2, <1>3, <1>6, <1>8 DEF Numbered, F
<1>10. SavedFirst(longer)
    <2> SUFFICES ASSUME NEW j \in F \cup {n + w}, NEW k \in F \cup {n + w},
                        j < k, longer[k].saved
                 PROVE  longer[j].saved
        BY <1>6 DEF SavedFirst
    <2>1. j \in F /\ longer[j] = rows[j]
        BY <1>2, <1>3
    <2>2. CASE k = n + w
        BY <1>2, <2>1, <2>2 DEF F
    <2>3. CASE k \in F
        BY <1>1, <1>2, <1>3, <2>1, <2>3 DEF SavedFirst, F
    <2> QED
        BY <2>2, <2>3
<1>11. n > 0 => Inlines!IsForm(rows[n])
    BY <1>1, <1>3 DEF Whole
<1>12. Whole(longer, editors)
    <2> SUFFICES ASSUME NEW k \in 1..(n + w)
                 PROVE  IF Inlines!IsForm(longer[k])
                        THEN /\ longer[k].editors = editors
                             /\ longer[k].failed <=> k > 1 /\ ~Inlines!IsForm(longer[k - 1])
                        ELSE k + 1 \in 1..(n + w) /\ Inlines!IsForm(longer[k + 1])
                             /\ longer[k + 1].failed
        BY <1>5 DEF Whole
    <2>1. CASE k \in 1..n
        <3>1. longer[k] = rows[k] /\ (k > 1 => k - 1 \in 1..n /\ longer[k - 1] = rows[k - 1])
              /\ (k + 1 \in 1..n => longer[k + 1] = rows[k + 1])
              /\ (k + 1 \in 1..n => k + 1 \in 1..(n + w))
            BY <1>2, <1>3, <2>1
        <3> QED
            BY <1>1, <1>3, <2>1, <3>1 DEF Whole
    <2>2. CASE k = n + w
        <3>1. CASE w = 2
            BY <1>2, <1>3, <1>4, <2>2, <3>1
        <3>2. CASE w = 1
            <4>1. k - 1 = n /\ (k > 1 <=> n > 0) /\ (n > 0 => longer[n] = rows[n])
                BY <1>2, <1>3, <2>2, <3>2
            <4> QED
                BY <1>2, <1>3, <1>4, <1>11, <2>2, <3>2, <4>1
        <3> QED
            BY <1>3, <3>1, <3>2
    <2>3. CASE w = 2 /\ k = n + 1
        BY <1>2, <1>3, <1>4, <2>3
    <2> QED
        BY <1>5, <2>1, <2>2, <2>3
<1> QED
    BY <1>2, <1>3, <1>6, <1>7, <1>9, <1>10, <1>12 DEF WellKept, longer, F

-----------------------------------------------------------------------------
(* The rows of a page, one form after the other.                           *)

(* The lists up to each place, put together.                               *)
PutTogether(flat, seqs, i) ==
    flat[0] = <<>> /\ \A j \in 1..i : flat[j] = flat[j - 1] \o seqs[j]

LEMMA PutTogetherExists ==
    ASSUME NEW n \in Nat, NEW T, NEW seqs \in [1..n -> Seq(T)]
    PROVE  \A i \in 0..n : \E flat \in [0..i -> Seq(T)] : PutTogether(flat, seqs, i)
<1> DEFINE G == {i \in 0..n : \E flat \in [0..i -> Seq(T)] : PutTogether(flat, seqs, i)}
<1>1. 0 \in G
    <2>1. [j \in 0..0 |-> <<>>] \in [0..0 -> Seq(T)]
        OBVIOUS
    <2>2. PutTogether([j \in 0..0 |-> <<>>], seqs, 0)
        BY DEF PutTogether
    <2>3. 0 \in 0..n
        OBVIOUS
    <2> QED
        BY <2>1, <2>2, <2>3
<1>2. ASSUME NEW i \in 0..(n - 1), i \in G PROVE i + 1 \in G
    <2>1. PICK flat \in [0..i -> Seq(T)] : PutTogether(flat, seqs, i)
        BY <1>2
    <2> DEFINE longer == [j \in 0..(i + 1) |->
                            IF j = i + 1 THEN flat[i] \o seqs[i + 1] ELSE flat[j]]
    <2>2. flat[i] \in Seq(T) /\ seqs[i + 1] \in Seq(T) /\ i + 1 \in 0..n
        BY <2>1
    <2>3. flat[i] \o seqs[i + 1] \in Seq(T)
        BY <2>2
    <2>4. longer \in [0..(i + 1) -> Seq(T)]
        BY <2>3
    <2>5. PutTogether(longer, seqs, i + 1)
        <3>1. longer[0] = <<>>
            BY <2>1 DEF PutTogether
        <3> i \in 0..n
            OBVIOUS
        <3>0. \A j \in 0..i : longer[j] = flat[j]
            OBVIOUS
        <3>2. \A j \in 1..i : longer[j] = longer[j - 1] \o seqs[j]
            <4> SUFFICES ASSUME NEW j \in 1..i PROVE longer[j] = longer[j - 1] \o seqs[j]
                OBVIOUS
            <4>1. j \in 0..i /\ j - 1 \in 0..i
                OBVIOUS
            <4>2. flat[j] = flat[j - 1] \o seqs[j]
                BY <2>1 DEF PutTogether
            <4> HIDE DEF longer
            <4> QED
                BY <3>0, <4>1, <4>2
        <3>3. longer[i + 1] = longer[i] \o seqs[i + 1]
            <4>1. i + 1 \in 0..(i + 1) /\ i \in 0..i
                OBVIOUS
            <4>2. longer[i + 1] = flat[i] \o seqs[i + 1]
                BY <4>1
            <4>3. longer[i] = flat[i]
                BY <3>0, <4>1
            <4> HIDE DEF longer
            <4> QED
                BY <4>2, <4>3
        <3>4. \A j \in 1..(i + 1) : j \in 1..i \/ j = i + 1
            OBVIOUS
        <3>5. (i + 1) - 1 = i
            OBVIOUS
        <3> HIDE DEF longer
        <3> QED
            BY <3>1, <3>2, <3>3, <3>4, <3>5 DEF PutTogether
    <2> QED
        BY <2>2, <2>4, <2>5
<1> HIDE DEF G
<1>3. \A i \in 0..n : i \in G
    BY <1>1, <1>2, CountingUp
<1> QED
    BY <1>3 DEF G

(* Sequences put together one after the other are what FlattenSeq makes of *)
(* them: it is a recursive function, unfolded one sequence at a time.      *)
LEMMA Flattened ==
    ASSUME NEW n \in Nat, NEW T, NEW seqs \in [1..n -> Seq(T)],
           NEW flat \in [0..n -> Seq(T)], PutTogether(flat, seqs, n)
    PROVE  Inlines!FlattenSeq(seqs) = flat[n]
<1>1. seqs \in Seq(Seq(T)) /\ Len(seqs) = n
    OBVIOUS
<1>2. CASE n = 0
    <2>1. seqs = <<>> /\ flat[0] = <<>>
        BY <1>1, <1>2 DEF PutTogether
    <2> QED
        BY <1>1, <1>2, <2>1 DEF Inlines!FlattenSeq
<1>3. CASE n # 0
    <2> DEFINE Is(f) == f = [i \in 1..n |-> IF i = 1 THEN seqs[i] ELSE f[i - 1] \o seqs[i]]
               g == [i \in 1..n |-> flat[i]]
               h == CHOOSE f : Is(f)
               G == {i \in 0..n : i = 0 \/ h[i] = flat[i]}
    <2>1. Inlines!FlattenSeq(seqs) = h[n]
        BY <1>1, <1>3 DEF Inlines!FlattenSeq
    <2>2. \A i \in 1..n : flat[i] = IF i = 1 THEN seqs[i] ELSE flat[i - 1] \o seqs[i]
        <3> SUFFICES ASSUME NEW i \in 1..n
                     PROVE  flat[i] = IF i = 1 THEN seqs[i] ELSE flat[i - 1] \o seqs[i]
            OBVIOUS
        <3>1. flat[i] = flat[i - 1] \o seqs[i] /\ flat[0] = <<>> /\ seqs[i] \in Seq(T)
            BY DEF PutTogether
        <3>2. <<>> \o seqs[i] = seqs[i]
            BY <3>1
        <3>3. i = 1 => i - 1 = 0
            OBVIOUS
        <3>4. i = 1 => flat[i] = seqs[i]
            BY <3>1, <3>2, <3>3
        <3> QED
            BY <3>1, <3>4
    <2>3. Is(g)
        <3>1. \A i \in 1..n : g[i] = IF i = 1 THEN seqs[i] ELSE g[i - 1] \o seqs[i]
            <4> SUFFICES ASSUME NEW i \in 1..n
                         PROVE  g[i] = IF i = 1 THEN seqs[i] ELSE g[i - 1] \o seqs[i]
                OBVIOUS
            <4>1. i # 1 => i - 1 \in 1..n
                OBVIOUS
            <4>2. i # 1 => g[i - 1] = flat[i - 1]
                BY <4>1
            <4> QED
                BY <2>2, <4>2
        <3>2. g = [i \in 1..n |-> g[i]]
            OBVIOUS
        <3> HIDE DEF g
        <3>3. [i \in 1..n |-> g[i]]
                = [i \in 1..n |-> IF i = 1 THEN seqs[i] ELSE g[i - 1] \o seqs[i]]
            BY <3>1
        <3> QED
            BY <3>2, <3>3
    <2>4. Is(h)
        <3> HIDE DEF g, Is
        <3> QED
            BY <2>3
    <2>5. \A i \in 1..n : h[i] = IF i = 1 THEN seqs[i] ELSE h[i - 1] \o seqs[i]
        <3> HIDE DEF h
        <3> QED
            BY <2>4
    <2> HIDE DEF h, Is, g
    <2>6. 0 \in G
        OBVIOUS
    <2>7. ASSUME NEW i \in 0..(n - 1), i \in G PROVE i + 1 \in G
        <3>1. i + 1 \in 1..n /\ i + 1 \in 0..n /\ (i + 1) - 1 = i /\ (i + 1 = 1 <=> i = 0)
            OBVIOUS
        <3>2. h[i + 1] = IF i + 1 = 1 THEN seqs[i + 1] ELSE h[i] \o seqs[i + 1]
            BY <2>5, <3>1
        <3>3. flat[i + 1] = IF i + 1 = 1 THEN seqs[i + 1] ELSE flat[i] \o seqs[i + 1]
            BY <2>2, <3>1
        <3>4. i = 0 \/ h[i] = flat[i]
            BY <2>7
        <3> QED
            BY <3>1, <3>2, <3>3, <3>4
    <2> HIDE DEF G
    <2>8. n \in G
        <3>1. \A i \in 0..n : i \in G
            BY <2>6, <2>7, CountingUp
        <3>2. n \in 0..n
            OBVIOUS
        <3> QED
            BY <3>1, <3>2
    <2> QED
        BY <1>3, <2>1, <2>8 DEF G
<1> QED
    BY <1>2, <1>3

(* The rows the server sends, without and with errors: as many forms as it *)
(* says, kept well, and none of them with an editor yet.                   *)
LEMMA PageIsKept ==
    ASSUME NEW saved \in Nat, NEW count \in Nat, NEW failed
    PROVE  /\ WellKept(Inlines!Page(saved, count, failed), 0)
           /\ Inlines!Count(Inlines!Page(saved, count, failed)) = count
<1> DEFINE sentForm(k) == Inlines!FormRow(k <= saved, k \in failed, k - 1, 0)
           seqs == [k \in 1..count |-> Block(sentForm(k))]
<1>1. \A k \in 1..count :
        /\ sentForm(k) \in Inlines!FormRows
        /\ sentForm(k).failed = (k \in failed) /\ sentForm(k).saved = (k <= saved)
        /\ sentForm(k).index = k - 1 /\ sentForm(k).rowId = k - 1 /\ sentForm(k).editors = 0
    BY DEF Inlines!FormRow, Inlines!FormRows
<1>2. Inlines!Page(saved, count, failed) = Inlines!FlattenSeq(seqs)
    <2>1. \A k \in 1..count :
            Block(sentForm(k)) =
                IF k \in failed THEN <<Inlines!ErrorRow, sentForm(k)>> ELSE <<sentForm(k)>>
        BY <1>1 DEF Block
    <2>2. seqs = [k \in 1..count |->
                    IF k \in failed
                        THEN <<Inlines!ErrorRow, sentForm(k)>>
                        ELSE <<sentForm(k)>>]
        BY <2>1
    <2> HIDE DEF seqs
    <2> QED
        BY <2>2 DEF Inlines!Page
<1>3. seqs \in [1..count -> Seq(Row)]
    <2> SUFFICES ASSUME NEW k \in 1..count PROVE Block(sentForm(k)) \in Seq(Row)
        OBVIOUS
    <2> DEFINE f == sentForm(k)
               e == Inlines!ErrorRow
    <2>1. f \in Row /\ e \in Row
        BY <1>1, RowKinds
    <2> HIDE DEF f, e
    <2>2. <<e, f>> \in Seq(Row) /\ <<f>> \in Seq(Row)
        BY <2>1
    <2> QED
        BY <2>2 DEF Block, e, f
<1>4. PICK flat \in [0..count -> Seq(Row)] : PutTogether(flat, seqs, count)
    <2>1. count \in 0..count
        OBVIOUS
    <2> HIDE DEF seqs
    <2> QED
        BY <1>3, <2>1, PutTogetherExists
<1>5. Inlines!Page(saved, count, failed) = flat[count]
    <2> HIDE DEF seqs
    <2> QED
        BY <1>2, <1>3, <1>4, Flattened
<1> DEFINE Good(i) == /\ WellKept(flat[i], 0) /\ Inlines!Count(flat[i]) = i
                      /\ \A k \in Inlines!Forms(flat[i]) :
                            flat[i][k].saved <=> flat[i][k].index + 1 <= saved
           G == {i \in 0..count : Good(i)}
<1>6. 0 \in G
    <2>1. flat[0] = <<>> /\ DOMAIN flat[0] = {} /\ flat[0] \in Seq(Row) /\ 0 \in 0..count
        BY <1>4 DEF PutTogether
    <2>2. Inlines!Forms(flat[0]) = {}
        BY <2>1 DEF Inlines!Forms
    <2>3. Inlines!Count(flat[0]) = 0
        BY <2>1, <2>2, FormsAreFinite, FS_EmptySet
    <2> QED
        BY <2>1, <2>2, <2>3 DEF WellKept, Numbered, Whole, SavedFirst
<1>7. ASSUME NEW i \in 0..(count - 1), i \in G PROVE i + 1 \in G
    <2> DEFINE rows == flat[i]
               new == sentForm(i + 1)
    <2>1. i + 1 \in 1..count /\ i + 1 \in 0..count /\ (i + 1) - 1 = i /\ i \in Nat
        OBVIOUS
    <2>2. flat[i + 1] = rows \o Block(new)
        BY <1>4, <2>1 DEF PutTogether
    <2>3. WellKept(rows, 0) /\ Inlines!Count(rows) = i
        BY <1>7
    <2>4. \A k \in Inlines!Forms(rows) : rows[k].saved <=> rows[k].index + 1 <= saved
        BY <1>7
    <2>5. /\ new \in Inlines!FormRows /\ new.index = i /\ new.rowId = i /\ new.editors = 0
          /\ new.saved = (i + 1 <= saved)
        BY <1>1, <2>1
    <2> HIDE DEF rows, new, seqs, G
    <2>6. \A k \in Inlines!Forms(rows) : rows[k].index \in 0..i
        <3>1. rows \in Seq(Row) /\ Numbered(rows)
            BY <2>3 DEF WellKept
        <3> SUFFICES ASSUME NEW k \in Inlines!Forms(rows) PROVE rows[k].index \in 0..i
            OBVIOUS
        <3>2. Before(rows, k) \in SUBSET Inlines!Forms(rows)
            BY DEF Before
        <3>3. Cardinality(Before(rows, k)) <= Cardinality(Inlines!Forms(rows))
            BY <3>1, <3>2, FormsAreFinite, FS_Subset
        <3>4. Cardinality(Before(rows, k)) \in Nat /\ Cardinality(Inlines!Forms(rows)) = i
            BY <2>3, <3>1, FormsAreFinite
        <3>5. rows[k].index = Cardinality(Before(rows, k))
            BY <3>1 DEF Numbered
        <3> QED
            BY <2>1, <3>3, <3>4, <3>5
    <2>7. new.saved => \A k \in Inlines!Forms(rows) : rows[k].saved
        <3> SUFFICES ASSUME i + 1 <= saved, NEW k \in Inlines!Forms(rows) PROVE rows[k].saved
            BY <2>5
        <3>1. rows[k].index + 1 <= saved
            BY <2>1, <2>6
        <3> QED
            BY <2>4, <3>1
    <2>8. /\ WellKept(flat[i + 1], 0) /\ Inlines!Count(flat[i + 1]) = i + 1
          /\ \A k \in Inlines!Forms(flat[i + 1]) :
                flat[i + 1][k] = new
                \/ (k \in Inlines!Forms(rows) /\ flat[i + 1][k] = rows[k])
        <3> DEFINE longer == rows \o Block(new)
        <3>1. 0 \in Nat /\ new.index = Inlines!Count(rows) /\ new.rowId = new.index
            BY <2>3, <2>5
        <3>2. /\ WellKept(longer, 0) /\ Inlines!Count(longer) = Inlines!Count(rows) + 1
              /\ \A k \in Inlines!Forms(longer) :
                    longer[k] = new \/ (k \in Inlines!Forms(rows) /\ longer[k] = rows[k])
            BY <2>3, <2>5, <2>7, <3>1, AddedIsKept
        <3> HIDE DEF longer
        <3>3. flat[i + 1] = longer
            BY <2>2 DEF longer
        <3> QED
            BY <2>3, <3>2, <3>3
    <2>9. Good(i + 1)
        BY <2>4, <2>5, <2>8
    <2> QED
        BY <2>1, <2>9 DEF G
<1> HIDE DEF Good
<1>8. Good(count)
    <2>1. count \in 0..count
        OBVIOUS
    <2> HIDE DEF G
    <2>2. \A i \in 0..count : i \in G
        BY <1>6, <1>7, CountingUp
    <2> QED
        BY <2>1, <2>2 DEF G
<1> QED
    BY <1>5, <1>8 DEF Good

-----------------------------------------------------------------------------
(* The page keeps its rows well.                                           *)
FormsInv ==
    /\ WellKept(body, 1)
    /\ totalForms = Inlines!Count(body) /\ nextIndex = totalForms /\ templateEditors = 0
    /\ addShown \in BOOLEAN /\ deleteShown \in BOOLEAN
    /\ addShown => totalForms < MaxForms

(* Rows that differ in their editors only are the same forms.              *)
LEMMA SameForms ==
    ASSUME NEW rows \in Seq(Row), NEW others \in Seq(Row), Len(others) = Len(rows),
           \A k \in DOMAIN rows : Inlines!IsForm(others[k]) <=> Inlines!IsForm(rows[k])
    PROVE  /\ DOMAIN others = DOMAIN rows
           /\ Inlines!Forms(others) = Inlines!Forms(rows)
           /\ Inlines!Count(others) = Inlines!Count(rows)
           /\ \A k : Before(others, k) = Before(rows, k)
<1>1. DOMAIN others = DOMAIN rows
    BY FormsAreFinite
<1>2. Inlines!Forms(others) = Inlines!Forms(rows)
    BY <1>1 DEF Inlines!Forms
<1>3. Inlines!Count(others) = Inlines!Count(rows)
    BY <1>2, FormsAreFinite
<1>4. \A k : Before(others, k) = Before(rows, k)
    BY <1>2 DEF Before
<1> QED
    BY <1>1, <1>2, <1>3, <1>4

(* The page is ready: each form has its editor.                            *)
LEMMA LoadKeeps ==
    ASSUME NEW rows, WellKept(rows, 0), Inlines!Load(rows)
    PROVE  FormsInv'
<1> DEFINE loaded(k) ==
        IF Inlines!IsForm(rows[k]) THEN [rows[k] EXCEPT !.editors = @ + 1] ELSE rows[k]
<1>1. /\ rows \in Seq(Row) /\ Numbered(rows) /\ Whole(rows, 0) /\ SavedFirst(rows)
      /\ DOMAIN rows = 1..Len(rows) /\ Len(rows) \in Nat
    BY FormsAreFinite DEF WellKept
<1>2. \A k \in DOMAIN rows : rows[k] \in Row
    BY <1>1
<1>3. \A k \in DOMAIN rows :
        /\ loaded(k) \in Row
        /\ Inlines!IsForm(loaded(k)) <=> Inlines!IsForm(rows[k])
        /\ Inlines!IsForm(rows[k]) =>
            /\ loaded(k).index = rows[k].index /\ loaded(k).rowId = rows[k].rowId
            /\ loaded(k).saved = rows[k].saved /\ loaded(k).failed = rows[k].failed
            /\ loaded(k).editors = rows[k].editors + 1
    <2> TAKE k \in DOMAIN rows
    <2>1. CASE Inlines!IsForm(rows[k])
        <3>1. rows[k] \in Inlines!FormRows
            BY <1>2, <2>1, RowKinds
        <3>2. loaded(k) = [rows[k] EXCEPT !.editors = rows[k].editors + 1]
            BY <2>1
        <3>3. /\ loaded(k) \in Inlines!FormRows
              /\ loaded(k).index = rows[k].index /\ loaded(k).rowId = rows[k].rowId
              /\ loaded(k).saved = rows[k].saved /\ loaded(k).failed = rows[k].failed
              /\ loaded(k).editors = rows[k].editors + 1
            BY <3>1, <3>2 DEF Inlines!FormRows
        <3> HIDE DEF loaded
        <3> QED
            BY <2>1, <3>3, RowKinds
    <2>2. CASE ~Inlines!IsForm(rows[k])
        BY <1>2, <2>2
    <2> QED
        BY <2>1, <2>2
<1>4. /\ body' = [k \in DOMAIN rows |-> loaded(k)] /\ templateEditors' = 0
      /\ totalForms' = Inlines!Count(rows) /\ nextIndex' = totalForms'
      /\ addShown' \in BOOLEAN /\ deleteShown' \in BOOLEAN
      /\ addShown' => MaxForms - Inlines!Count(rows) > 0
    <2> DEFINE p == MaxForms - Inlines!Count(rows) > 0
               q == MinForms - Inlines!Count(rows) < 0
    <2>1. /\ body' = [k \in DOMAIN rows |-> loaded(k)] /\ templateEditors' = 0
          /\ totalForms' = Inlines!Count(rows) /\ nextIndex' = totalForms'
          /\ addShown' = p /\ deleteShown' = q
        BY DEF Inlines!Load, Inlines!MayAdd, Inlines!MayDelete
    <2>2. p \in BOOLEAN /\ q \in BOOLEAN
        OBVIOUS
    <2>3. p => MaxForms - Inlines!Count(rows) > 0
        OBVIOUS
    <2> HIDE DEF p, q, loaded
    <2> QED
        BY <2>1, <2>2, <2>3
<1> HIDE DEF loaded
<1>5. /\ body' \in Seq(Row) /\ Len(body') = Len(rows)
      /\ \A k \in DOMAIN rows : body'[k] = loaded(k)
    <2>1. \A k \in 1..Len(rows) : loaded(k) \in Row
        BY <1>1, <1>3
    <2>2. body' = [k \in 1..Len(rows) |-> loaded(k)]
        BY <1>1, <1>4
    <2>3. body' \in [1..Len(rows) -> Row]
        BY <2>1, <2>2
    <2>4. body' \in Seq(Row) /\ Len(body') = Len(rows)
        BY ONLY <1>1, <2>3
    <2> QED
        BY <1>1, <2>2, <2>4
<1>6. /\ DOMAIN body' = DOMAIN rows /\ Inlines!Forms(body') = Inlines!Forms(rows)
      /\ Inlines!Count(body') = Inlines!Count(rows)
      /\ \A k : Before(body', k) = Before(rows, k)
    BY <1>1, <1>3, <1>5, SameForms
<1>7. \A k \in Inlines!Forms(rows) : k \in DOMAIN rows /\ Inlines!IsForm(rows[k])
    BY DEF Inlines!Forms
<1>8. Numbered(body') /\ SavedFirst(body')
    BY <1>1, <1>3, <1>5, <1>6, <1>7 DEF Numbered, SavedFirst
<1>9. Whole(body', 1)
    <2> SUFFICES ASSUME NEW k \in DOMAIN rows
                 PROVE  IF Inlines!IsForm(body'[k])
                        THEN /\ body'[k].editors = 1
                             /\ body'[k].failed <=> k > 1 /\ ~Inlines!IsForm(body'[k - 1])
                        ELSE k + 1 \in DOMAIN rows /\ Inlines!IsForm(body'[k + 1])
                             /\ body'[k + 1].failed
        BY <1>6 DEF Whole
    <2>1. k > 1 => k - 1 \in DOMAIN rows
        BY <1>1
    <2> QED
        BY <1>1, <1>3, <1>5, <2>1 DEF Whole
<1>10. /\ Inlines!Count(rows) \in Nat
       /\ MaxForms - Inlines!Count(rows) > 0 => Inlines!Count(rows) < MaxForms
    BY <1>1, FormsAreFinite, LimitsAreNumbers
<1> QED
    <2>1. WellKept(body', 1)
        BY <1>5, <1>8, <1>9 DEF WellKept
    <2>2. /\ totalForms' = Inlines!Count(body') /\ nextIndex' = totalForms'
          /\ templateEditors' = 0 /\ addShown' \in BOOLEAN /\ deleteShown' \in BOOLEAN
          /\ addShown' => totalForms' < MaxForms
        <3> DEFINE c == Inlines!Count(rows)
        <3>1. /\ totalForms' = c /\ nextIndex' = c /\ Inlines!Count(body') = c
              /\ addShown' => c < MaxForms
            BY <1>4, <1>6, <1>10
        <3> HIDE DEF c
        <3> QED
            BY <1>4, <3>1
    <2> QED
        BY <2>1, <2>2 DEF FormsInv

-----------------------------------------------------------------------------
(* A row is removed.                                                       *)
LEMMA RemovedAt ==
    ASSUME NEW T, NEW s \in Seq(T), NEW i \in 1..Len(s)
    PROVE  LET r == Inlines!RemoveAt(s, i)
           IN  /\ r \in Seq(T) /\ Len(r) = Len(s) - 1
               /\ \A j \in 1..(Len(s) - 1) : r[j] = IF j < i THEN s[j] ELSE s[j + 1]
<1> DEFINE n == Len(s)
           p == SubSeq(s, 1, i - 1)
           q == SubSeq(s, i + 1, n)
<1>1. n \in Nat /\ i \in 1..n
    OBVIOUS
<1>2. p \in Seq(T) /\ Len(p) = i - 1 /\ \A j \in 1..(i - 1) : p[j] = s[j]
    OBVIOUS
<1>3. q \in Seq(T) /\ Len(q) = n - i /\ \A j \in 1..(n - i) : q[j] = s[i + j]
    OBVIOUS
<1>4. Inlines!RemoveAt(s, i) = p \o q
    BY DEF Inlines!RemoveAt
<1> HIDE DEF p, q, n
<1>5. p \o q \in Seq(T) /\ Len(p \o q) = n - 1
    <2>1. p \o q \in Seq(T) /\ Len(p \o q) = Len(p) + Len(q)
        BY <1>2, <1>3, ConcatProperties
    <2>2. (i - 1) + (n - i) = n - 1
        BY ONLY <1>1
    <2> QED
        BY ONLY <1>2, <1>3, <2>1, <2>2
<1>6. ASSUME NEW j \in 1..(n - 1) PROVE (p \o q)[j] = IF j < i THEN s[j] ELSE s[j + 1]
    <2>1. CASE j < i
        <3>1. j \in 1..(i - 1)
            BY <1>1, <2>1
        <3>2. (p \o q)[j] = p[j]
            BY <1>1, <1>2, <1>3, <3>1
        <3> QED
            BY <1>2, <2>1, <3>1, <3>2
    <2>2. CASE ~(j < i)
        <3>1. j - (i - 1) \in 1..(n - i) /\ i + (j - (i - 1)) = j + 1
            BY <1>1, <2>2
        <3>2. (p \o q)[j] = q[j - (i - 1)]
            BY <1>1, <1>2, <1>3, <2>2
        <3> QED
            BY <1>3, <2>2, <3>1, <3>2
    <2> QED
        BY <2>1, <2>2
<1> QED
    BY <1>4, <1>5, <1>6 DEF n

(* A form goes with the row of its errors, and what is left keeps its      *)
(* order.                                                                  *)
LEMMA Removal ==
    ASSUME body \in Seq(Row), NEW k \in Inlines!Forms(body)
    PROVE  LET w == IF k > 1 /\ ~Inlines!IsForm(body[k - 1]) THEN 2 ELSE 1
               left == Inlines!Without(k)
           IN  /\ left \in Seq(Row) /\ Len(left) = Len(body) - w
               /\ \A j \in 1..(Len(body) - w) :
                    left[j] = IF j <= k - w THEN body[j] ELSE body[j + w]
<1> DEFINE n == Len(body)
           w == IF k > 1 /\ ~Inlines!IsForm(body[k - 1]) THEN 2 ELSE 1
           once == Inlines!RemoveAt(body, k)
           twice == Inlines!RemoveAt(once, k - 1)
<1>1. n \in Nat /\ k \in 1..n
    BY FormsAreFinite
<1>2. /\ once \in Seq(Row) /\ Len(once) = n - 1
      /\ \A j \in 1..(n - 1) : once[j] = IF j < k THEN body[j] ELSE body[j + 1]
    BY <1>1, RemovedAt
<1>3. CASE k > 1 /\ ~Inlines!IsForm(body[k - 1])
    <2>1. w = 2 /\ Inlines!Without(k) = twice
        BY <1>3 DEF Inlines!Without
    <2>2. k - 1 \in 1..(n - 1)
        BY <1>1, <1>3
    <2>3. /\ twice \in Seq(Row) /\ Len(twice) = (n - 1) - 1
          /\ \A j \in 1..((n - 1) - 1) : twice[j] = IF j < k - 1 THEN once[j] ELSE once[j + 1]
        <3> HIDE DEF once
        <3> QED
            BY <1>2, <2>2, RemovedAt, ZenonT(30)
    <2> HIDE DEF once, twice, n, w
    <2>4. (n - 1) - 1 = n - 2
        BY <1>1
    <2>5. ASSUME NEW j \in 1..(n - 2)
          PROVE  twice[j] = IF j <= k - 2 THEN body[j] ELSE body[j + 2]
        <3>1. /\ twice[j] = IF j < k - 1 THEN once[j] ELSE once[j + 1]
              /\ j \in 1..(n - 1) /\ j + 1 \in 1..(n - 1) /\ (j + 1) + 1 = j + 2
              /\ (j < k - 1 <=> j <= k - 2) /\ (j < k - 1 => j < k)
              /\ ~(j < k - 1) => ~(j + 1 < k)
            BY <1>1, <2>2, <2>3, <2>4
        <3>2. /\ once[j] = IF j < k THEN body[j] ELSE body[j + 1]
              /\ once[j + 1] = IF j + 1 < k THEN body[j + 1] ELSE body[(j + 1) + 1]
            BY <1>2, <3>1
        <3> QED
            BY <3>1, <3>2
    <2> QED
        BY <2>1, <2>3, <2>4, <2>5 DEF w, n
<1>4. CASE ~(k > 1 /\ ~Inlines!IsForm(body[k - 1]))
    <2>1. w = 1 /\ Inlines!Without(k) = once
        BY <1>4 DEF Inlines!Without
    <2>2. \A j \in 1..(n - 1) : j < k <=> j <= k - 1
        BY <1>1
    <2> HIDE DEF once, n, w
    <2> QED
        BY <1>2, <2>1, <2>2 DEF w, n
<1> QED
    BY <1>3, <1>4

(* Whatever is left of the rows is numbered again.                         *)
LEMMA Renumbering ==
    ASSUME NEW rows \in Seq(Row), Whole(rows, 1), SavedFirst(rows)
    PROVE  /\ WellKept(Inlines!Renumbered(rows), 1)
           /\ Inlines!Count(Inlines!Renumbered(rows)) = Inlines!Count(rows)
<1> DEFINE place(k) == Cardinality(Before(rows, k))
           new(k) == IF ~Inlines!IsForm(rows[k]) THEN rows[k]
                     ELSE [rows[k] EXCEPT !.rowId = place(k), !.index = place(k)]
           R == Inlines!Renumbered(rows)
<1>1. DOMAIN rows = 1..Len(rows) /\ Len(rows) \in Nat /\ \A k : place(k) \in Nat
    BY FormsAreFinite
<1>2. R = [k \in 1..Len(rows) |-> new(k)]
    <2>1. \A k : Inlines!Cardinality({j \in Inlines!Forms(rows) : j < k}) = place(k)
        BY SameCardinality DEF Before
    <2> HIDE DEF place
    <2> QED
        BY <1>1, <2>1 DEF Inlines!Renumbered
<1> HIDE DEF place, R
<1>3. \A k \in 1..Len(rows) :
        /\ new(k) \in Row
        /\ Inlines!IsForm(new(k)) <=> Inlines!IsForm(rows[k])
        /\ Inlines!IsForm(rows[k]) =>
            /\ new(k).index = place(k) /\ new(k).rowId = place(k)
            /\ new(k).saved = rows[k].saved /\ new(k).failed = rows[k].failed
            /\ new(k).editors = rows[k].editors
    <2> TAKE k \in 1..Len(rows)
    <2>0. rows[k] \in Row
        OBVIOUS
    <2>1. CASE Inlines!IsForm(rows[k])
        <3>1. rows[k] \in Inlines!FormRows /\ place(k) \in Nat
            BY <1>1, <2>0, <2>1, RowKinds
        <3>2. new(k) = [rows[k] EXCEPT !.rowId = place(k), !.index = place(k)]
            BY <2>1
        <3> HIDE DEF new
        <3>3. /\ new(k) \in Inlines!FormRows
              /\ new(k).index = place(k) /\ new(k).rowId = place(k)
              /\ new(k).saved = rows[k].saved /\ new(k).failed = rows[k].failed
              /\ new(k).editors = rows[k].editors
            BY <3>1, <3>2 DEF Inlines!FormRows
        <3> QED
            BY <2>1, <3>3, RowKinds
    <2>2. CASE ~Inlines!IsForm(rows[k])
        BY <2>0, <2>2
    <2> QED
        BY <2>1, <2>2
<1> HIDE DEF new
<1>4. R \in [1..Len(rows) -> Row] /\ \A k \in 1..Len(rows) : R[k] = new(k)
    BY <1>2, <1>3
<1>5. R \in Seq(Row) /\ Len(R) = Len(rows)
    BY ONLY <1>1, <1>4
<1>6. /\ DOMAIN R = 1..Len(rows) /\ Inlines!Forms(R) = Inlines!Forms(rows)
      /\ Inlines!Count(R) = Inlines!Count(rows)
      /\ \A k : Before(R, k) = Before(rows, k)
    BY <1>1, <1>3, <1>4, <1>5, SameForms
<1>7. \A k \in Inlines!Forms(rows) : k \in 1..Len(rows) /\ Inlines!IsForm(rows[k])
    BY <1>1 DEF Inlines!Forms
<1>8. Numbered(R)
    BY <1>3, <1>4, <1>6, <1>7 DEF Numbered, place
<1>9. SavedFirst(R)
    BY <1>3, <1>4, <1>6, <1>7 DEF SavedFirst
<1>10. Whole(R, 1)
    <2> SUFFICES ASSUME NEW k \in 1..Len(rows)
                 PROVE  IF Inlines!IsForm(R[k])
                        THEN /\ R[k].editors = 1
                             /\ R[k].failed <=> k > 1 /\ ~Inlines!IsForm(R[k - 1])
                        ELSE k + 1 \in 1..Len(rows) /\ Inlines!IsForm(R[k + 1])
                             /\ R[k + 1].failed
        BY <1>6 DEF Whole
    <2>1. k > 1 => k - 1 \in 1..Len(rows)
        BY <1>1
    <2> QED
        BY <1>1, <1>3, <1>4, <2>1, SMTT(30) DEF Whole
<1> QED
    BY <1>5, <1>6, <1>8, <1>9, <1>10 DEF WellKept, R

(* What is left when a form is removed.                                    *)
LEMMA LeftIsWhole ==
    ASSUME WellKept(body, 1), NEW k \in Inlines!Forms(body)
    PROVE  LET left == Inlines!Without(k)
           IN  /\ left \in Seq(Row) /\ Whole(left, 1) /\ SavedFirst(left)
               /\ Inlines!Count(left) = Inlines!Count(body) - 1
<1> DEFINE n == Len(body)
           w == IF k > 1 /\ ~Inlines!IsForm(body[k - 1]) THEN 2 ELSE 1
           a == k - w
           left == Inlines!Without(k)
           m(j) == IF j <= a THEN j ELSE j + w
<1>1. /\ body \in Seq(Row) /\ Whole(body, 1) /\ SavedFirst(body)
      /\ DOMAIN body = 1..n /\ n \in Nat /\ k \in 1..n /\ Inlines!IsForm(body[k])
    BY FormsAreFinite DEF WellKept, Inlines!Forms
<1>2. /\ left \in Seq(Row) /\ Len(left) = n - w
      /\ \A j \in 1..(n - w) : left[j] = IF j <= k - w THEN body[j] ELSE body[j + w]
    BY <1>1, Removal
<1>3. /\ w \in {1, 2} /\ a \in Nat /\ k = a + w
      /\ w = 2 => ~Inlines!IsForm(body[a + 1])
      /\ w = 1 => (k > 1 => Inlines!IsForm(body[a]))
    <2>1. w = 2 => k > 1 /\ ~Inlines!IsForm(body[k - 1]) /\ k - 1 = (k - 2) + 1
        BY <1>1
    <2>2. w = 1 => (k > 1 => Inlines!IsForm(body[k - 1]))
        OBVIOUS
    <2>3. w \in {1, 2}
        OBVIOUS
    <2> HIDE DEF w
    <2> QED
        BY <1>1, <2>1, <2>2, <2>3
<1> HIDE DEF w, a, left, n
<1>4. n - w \in Nat /\ DOMAIN left = 1..(n - w)
    BY <1>1, <1>2, <1>3
<1>5. \A j \in 1..(n - w) : m(j) \in 1..n /\ left[j] = body[m(j)] /\ m(j) # k
    BY <1>1, <1>2, <1>3 DEF a
<1>6. a > 0 => Inlines!IsForm(body[a])
    BY <1>1, <1>3 DEF Whole
<1>7. k + 1 \in 1..n /\ Inlines!IsForm(body[k + 1]) => ~body[k + 1].failed
    BY <1>1, <1>3 DEF Whole
<1>8. Whole(left, 1)
    <2> SUFFICES ASSUME NEW j \in 1..(n - w)
                 PROVE  IF Inlines!IsForm(left[j])
                        THEN /\ left[j].editors = 1
                             /\ left[j].failed <=> j > 1 /\ ~Inlines!IsForm(left[j - 1])
                        ELSE j + 1 \in 1..(n - w) /\ Inlines!IsForm(left[j + 1])
                             /\ left[j + 1].failed
        BY <1>4 DEF Whole
    <2>0. /\ j > 1 => j - 1 \in 1..(n - w)
          /\ j + 1 <= n - w => j + 1 \in 1..(n - w)
        BY <1>4
    <2>1. CASE j <= a
        <3>1. /\ left[j] = body[j] /\ j \in 1..n
              /\ j > 1 => left[j - 1] = body[j - 1]
            BY <1>3, <1>5, <2>0, <2>1
        <3>2. j < a => j + 1 \in 1..(n - w) /\ left[j + 1] = body[j + 1]
            BY <1>1, <1>3, <1>5, <2>0, <2>1
        <3>3. j < a \/ j = a
            BY <1>3, <2>1
        <3> QED
            BY <1>1, <1>6, <3>1, <3>2, <3>3 DEF Whole
    <2>2. CASE j = a + 1
        <3>1. left[j] = body[k + 1] /\ k + 1 \in 1..n
            BY <1>1, <1>3, <1>5, <2>2
        <3>2. j > 1 => left[j - 1] = body[a] /\ a > 0
            BY <1>3, <1>5, <2>0, <2>2
        <3>3. ~Inlines!IsForm(body[k + 1]) => (k + 1) + 1 \in 1..n
            BY <1>1, <3>1 DEF Whole
        <3>4. (k + 1) + 1 \in 1..n => j + 1 \in 1..(n - w) /\ left[j + 1] = body[(k + 1) + 1]
            BY <1>1, <1>3, <1>5, <2>0, <2>2
        <3> QED
            BY <1>1, <1>6, <1>7, <3>1, <3>2, <3>3, <3>4 DEF Whole
    <2>3. CASE j > a + 1
        <3>1. left[j] = body[j + w] /\ j + w \in 1..n /\ j + w > 1
            BY <1>1, <1>3, <1>5, <2>3
        <3>2. j > 1 /\ left[j - 1] = body[(j + w) - 1]
            BY <1>3, <1>5, <2>0, <2>3
        <3>3. (j + w) + 1 \in 1..n => j + 1 \in 1..(n - w) /\ left[j + 1] = body[(j + w) + 1]
            BY <1>1, <1>3, <1>5, <2>0, <2>3
        <3> QED
            BY <1>1, <3>1, <3>2, <3>3 DEF Whole
    <2> QED
        BY <1>3, <2>1, <2>2, <2>3
<1>9. Inlines!Forms(left) = {j \in 1..(n - w) : Inlines!IsForm(body[m(j)])}
    BY <1>4, <1>5 DEF Inlines!Forms
<1>10. \A i, j \in 1..(n - w) : i < j => m(i) < m(j)
    BY <1>1, <1>3
<1>11. SavedFirst(left)
    <2> SUFFICES ASSUME NEW i \in Inlines!Forms(left), NEW j \in Inlines!Forms(left),
                        i < j, left[j].saved
                 PROVE  left[i].saved
        BY DEF SavedFirst
    <2>1. i \in 1..(n - w) /\ j \in 1..(n - w) /\ m(i) < m(j)
        BY <1>9, <1>10
    <2>2. m(i) \in Inlines!Forms(body) /\ m(j) \in Inlines!Forms(body)
        BY <1>1, <1>5, <1>9 DEF Inlines!Forms
    <2>3. left[i] = body[m(i)] /\ left[j] = body[m(j)]
        BY <1>5, <2>1
    <2> HIDE DEF m
    <2> QED
        BY <1>1, <2>1, <2>2, <2>3 DEF SavedFirst
<1>12. Inlines!Count(left) = Inlines!Count(body) - 1
    <2> DEFINE L == Inlines!Forms(left)
               B == Inlines!Forms(body)
               f == [j \in L |-> m(j)]
    <2>1. f \in [L -> B \ {k}]
        BY <1>1, <1>5, <1>9 DEF Inlines!Forms
    <2>2. \A i, j \in L : f[i] = f[j] => i = j
        <3> SUFFICES ASSUME NEW i \in L, NEW j \in L, i # j PROVE m(i) # m(j)
            OBVIOUS
        <3>1. i \in 1..(n - w) /\ j \in 1..(n - w) /\ (i < j \/ j < i)
            BY <1>4, <1>9
        <3>2. m(i) \in Int /\ m(j) \in Int
            BY <1>3, <3>1
        <3>3. m(i) < m(j) \/ m(j) < m(i)
            BY <1>10, <3>1
        <3> HIDE DEF m
        <3> QED
            BY <3>2, <3>3
    <2>3. \A i \in B \ {k} : \E j \in L : f[j] = i
        <3> SUFFICES ASSUME NEW i \in B, i # k PROVE \E j \in L : m(j) = i
            OBVIOUS
        <3>1. i \in 1..n /\ Inlines!IsForm(body[i])
            BY <1>1 DEF Inlines!Forms
        <3>2. CASE i <= a
            <4>1. i \in 1..(n - w) /\ m(i) = i
                BY <1>1, <1>3, <3>1, <3>2
            <4> QED
                BY <1>9, <3>1, <4>1
        <3>3. CASE i > a
            <4>1. i # a + 1
                BY <1>3, <3>1
            <4>2. i > k
                BY <1>3, <3>1, <3>3, <4>1
            <4>3. i - w \in 1..(n - w) /\ m(i - w) = i
                BY <1>1, <1>3, <3>1, <4>2
            <4> QED
                BY <1>9, <3>1, <4>3
        <3> QED
            BY <1>3, <3>1, <3>2, <3>3
    <2> HIDE DEF f, L, B, m
    <2>4. f \in Bijection(L, B \ {k})
        BY <2>1, <2>2, <2>3 DEF Bijection, Injection, Surjection, IsInjective
    <2>5. ExistsBijection(L, B \ {k})
        BY <2>4 DEF ExistsBijection
    <2>6. /\ IsFiniteSet(L) /\ IsFiniteSet(B) /\ k \in B /\ Cardinality(B) \in Nat
          /\ Inlines!Count(left) = Cardinality(L) /\ Inlines!Count(body) = Cardinality(B)
        BY <1>1, <1>2, FormsAreFinite DEF L, B
    <2>7. Cardinality(B \ {k}) = Cardinality(B) - 1
        BY <2>6, FS_RemoveElement
    <2>8. Cardinality(L) = Cardinality(B \ {k})
        BY <2>5, <2>6, FS_Bijection
    <2> QED
        BY <2>6, <2>7, <2>8
<1> QED
    BY <1>2, <1>8, <1>11, <1>12 DEF left

LEMMA FormsStart == Init => FormsInv
<1> SUFFICES ASSUME Init PROVE FormsInv
    OBVIOUS
<1>1. /\ body = <<>> /\ templateEditors = 0 /\ totalForms = 0 /\ nextIndex = 0
      /\ addShown \in BOOLEAN /\ deleteShown \in BOOLEAN /\ (addShown => totalForms < MaxForms)
    <2> DEFINE p == MaxForms - 0 > 0
               q == MinForms - 0 < 0
    <2>1. /\ body = <<>> /\ templateEditors = 0 /\ totalForms = 0 /\ nextIndex = 0
          /\ addShown = p /\ deleteShown = q
        BY DEF Init, Inlines!Init, Inlines!MayAdd, Inlines!MayDelete
    <2>2. p \in BOOLEAN /\ q \in BOOLEAN /\ (p => 0 < MaxForms)
        BY LimitsAreNumbers
    <2> HIDE DEF p, q
    <2> QED
        BY <2>1, <2>2
<1>2. body \in Seq(Row) /\ DOMAIN body = {}
    BY <1>1
<1>3. Inlines!Forms(body) = {}
    BY <1>2 DEF Inlines!Forms
<1>4. Inlines!Count(body) = 0
    BY <1>2, <1>3, FormsAreFinite, FS_EmptySet
<1>5. WellKept(body, 1)
    BY <1>2, <1>3 DEF WellKept, Numbered, Whole, SavedFirst
<1>6. totalForms = Inlines!Count(body) /\ nextIndex = totalForms /\ templateEditors = 0
    BY <1>1, <1>4
<1>7. addShown \in BOOLEAN /\ deleteShown \in BOOLEAN /\ (addShown => totalForms < MaxForms)
    BY <1>1
<1> QED
    BY <1>5, <1>6, <1>7 DEF FormsInv

LEMMA AddKeeps == FormsInv /\ Inlines!AddForm => FormsInv'
<1> SUFFICES ASSUME FormsInv, Inlines!AddForm PROVE FormsInv'
    OBVIOUS
<1> DEFINE new == Inlines!FormRow(FALSE, FALSE, totalForms, 1)
           c == Inlines!Count(body)
<1>1. /\ WellKept(body, 1) /\ body \in Seq(Row) /\ c \in Nat
      /\ totalForms = c /\ nextIndex = c /\ templateEditors = 0 /\ addShown \in BOOLEAN
    BY FormsAreFinite DEF FormsInv, WellKept
<1>2. /\ new \in Inlines!FormRows /\ new.index = c /\ new.rowId = c /\ new.editors = 1
      /\ ~new.saved /\ ~new.failed
    BY <1>1 DEF Inlines!FormRow, Inlines!FormRows
<1>3. body' = Append(body, new)
    <2>1. body' = Append(body, [Inlines!FormRow(FALSE, FALSE, totalForms, templateEditors + 1)
                                    EXCEPT !.rowId = nextIndex])
        BY DEF Inlines!AddForm
    <2>2. [Inlines!FormRow(FALSE, FALSE, totalForms, templateEditors + 1)
                EXCEPT !.rowId = nextIndex] = new
        <3>1. templateEditors + 1 = 1
            BY <1>1
        <3>2. [Inlines!FormRow(FALSE, FALSE, totalForms, templateEditors + 1)
                    EXCEPT !.rowId = nextIndex] = [new EXCEPT !.rowId = c]
            BY <1>1, <3>1
        <3> HIDE DEF new, c
        <3>3. [new EXCEPT !.rowId = c] = new
            BY <1>2 DEF Inlines!FormRows
        <3> QED
            BY <3>2, <3>3
    <2> QED
        BY <2>1, <2>2
<1>4. /\ totalForms' = c + 1 /\ nextIndex' = c + 1 /\ templateEditors' = 0
      /\ addShown' \in BOOLEAN /\ deleteShown' \in BOOLEAN /\ (addShown' => c + 1 < MaxForms)
    <2> DEFINE p == MaxForms - (c + 1) > 0
               q == MinForms - (c + 1) < 0
    <2>1. /\ totalForms' = c + 1 /\ nextIndex' = c + 1 /\ templateEditors' = 0
          /\ addShown' = (addShown /\ p) /\ deleteShown' = q
        BY <1>1 DEF Inlines!AddForm, Inlines!MayAdd, Inlines!MayDelete
    <2>2. p \in BOOLEAN /\ q \in BOOLEAN /\ (p => c + 1 < MaxForms)
        BY <1>1, LimitsAreNumbers
    <2> HIDE DEF p, q, c
    <2> QED
        BY <1>1, <2>1, <2>2
<1> HIDE DEF new
<1>5. body' = body \o Block(new)
    <2>1. new \in Row /\ Block(new) = <<new>>
        BY <1>2, RowKinds DEF Block
    <2>2. Append(body, new) = body \o <<new>>
        BY <1>1, <2>1, AppendIsConcat
    <2> QED
        BY <1>3, <2>1, <2>2
<1>6. WellKept(body \o Block(new), 1) /\ Inlines!Count(body \o Block(new)) = c + 1
    BY <1>1, <1>2, AddedIsKept
<1>7. WellKept(body', 1) /\ Inlines!Count(body') = c + 1
    BY <1>5, <1>6
<1> HIDE DEF c
<1> QED
    BY <1>4, <1>7 DEF FormsInv

LEMMA DeleteKeeps ==
    ASSUME FormsInv, NEW k \in DOMAIN body, Inlines!DeleteForm(k)
    PROVE  FormsInv'
<1> DEFINE left == Inlines!Without(k)
           c == Inlines!Count(left)
<1>1. /\ WellKept(body, 1) /\ totalForms = Inlines!Count(body) /\ nextIndex = totalForms
      /\ templateEditors = 0 /\ addShown \in BOOLEAN /\ (addShown => totalForms < MaxForms)
    BY DEF FormsInv
<1>2. k \in Inlines!Forms(body)
    BY DEF Inlines!DeleteForm, Inlines!FormAt, Inlines!Forms
<1>3. /\ left \in Seq(Row) /\ Whole(left, 1) /\ SavedFirst(left)
      /\ c = Inlines!Count(body) - 1
    BY <1>1, <1>2, LeftIsWhole
<1>4. c \in Nat /\ Inlines!Count(body) \in Nat
    BY <1>1, <1>3, FormsAreFinite DEF WellKept
<1>5. /\ body' = Inlines!Renumbered(left) /\ totalForms' = c /\ nextIndex' = nextIndex - 1
      /\ templateEditors' = 0
    <2>1. /\ body' = Inlines!Renumbered(left) /\ totalForms' = c
          /\ nextIndex' = nextIndex - 1 /\ templateEditors' = templateEditors
        BY DEF Inlines!DeleteForm
    <2> HIDE DEF left, c
    <2> QED
        BY <1>1, <2>1
<1>6. addShown' \in BOOLEAN /\ deleteShown' \in BOOLEAN /\ (addShown' => c < MaxForms)
    <2> DEFINE p == MaxForms - c > 0
               q == MinForms - c < 0
    <2>1. addShown' = (addShown \/ p) /\ deleteShown' = q
        BY DEF Inlines!DeleteForm, Inlines!MayAdd, Inlines!MayDelete
    <2>2. p \in BOOLEAN /\ q \in BOOLEAN /\ (p => c < MaxForms) /\ (addShown => c < MaxForms)
        <3> HIDE DEF c
        <3>1. p \in BOOLEAN /\ q \in BOOLEAN /\ (p => c < MaxForms)
            BY <1>4, LimitsAreNumbers
        <3>2. addShown => c < MaxForms
            BY <1>1, <1>3, <1>4, LimitsAreNumbers
        <3> QED
            BY <3>1, <3>2
    <2> HIDE DEF p, q, c
    <2> QED
        BY <1>1, <2>1, <2>2
<1> HIDE DEF left
<1>7. WellKept(body', 1) /\ Inlines!Count(body') = c
    BY <1>3, <1>5, Renumbering
<1>8. nextIndex' = c
    BY <1>1, <1>3, <1>4, <1>5
<1> HIDE DEF c
<1> QED
    BY <1>5, <1>6, <1>7, <1>8 DEF FormsInv

LEMMA FormsKeep == FormsInv /\ [Inlines!Next]_inlinesVars => FormsInv'
<1> SUFFICES ASSUME FormsInv, [Inlines!Next]_inlinesVars PROVE FormsInv'
    OBVIOUS
<1>1. ASSUME NEW saved \in 0..MaxSaved, NEW extra \in 0..MaxExtra, Inlines!Open(saved, extra)
      PROVE  FormsInv'
    <2>1. saved \in Nat /\ saved + extra \in Nat
        BY LimitsAreNumbers
    <2> QED
        BY <1>1, <2>1, PageIsKept, LoadKeeps DEF Inlines!Open
<1>2. CASE Inlines!Refused
    <2> DEFINE S == {k \in Inlines!Forms(body) : body[k].saved}
               saved == Inlines!Cardinality(S)
    <2>1. PICK failed \in SUBSET (1..totalForms) :
                Inlines!Load(Inlines!Page(saved, totalForms, failed))
        BY <1>2 DEF Inlines!Refused
    <2>2. /\ body \in Seq(Row) /\ totalForms = Inlines!Count(body)
          /\ S \in SUBSET Inlines!Forms(body)
        BY DEF FormsInv, WellKept
    <2>3. totalForms \in Nat /\ IsFiniteSet(S) /\ Cardinality(S) \in Nat
        BY <2>2, FormsAreFinite, FS_Subset, FS_CardinalityType
    <2>4. saved \in Nat
        BY <2>3, SameCardinality
    <2> HIDE DEF saved
    <2> QED
        BY <2>1, <2>3, <2>4, PageIsKept, LoadKeeps
<1>3. CASE UNCHANGED inlinesVars
    BY <1>3 DEF inlinesVars, FormsInv
<1> QED
    BY <1>1, <1>2, <1>3, AddKeeps, DeleteKeeps DEF Inlines!Next

LEMMA FormsAlways == Spec => []FormsInv
<1>1. [Next]_vars => [Inlines!Next]_inlinesVars
    BY OneWidgetMoves
<1> QED
    BY <1>1, FormsStart, FormsKeep, PTL DEF Spec

(* A form that is the i-th of the page has i - 1 before it.                *)
LEMMA FormsInOrder ==
    ASSUME FormsInv
    PROVE  LET c == Cardinality(Inlines!Forms(body))
               forms == Inlines!Picked(body, Inlines!Forms(body))
           IN  /\ DOMAIN forms = 1..c /\ c \in Nat
               /\ \A k \in DOMAIN forms : forms[k].index = k - 1 /\ forms[k].rowId = k - 1
               /\ \A j, k \in DOMAIN forms : j < k /\ forms[k].saved => forms[j].saved
<1> DEFINE F == Inlines!Forms(body)
           c == Cardinality(F)
           at == [i \in 1..c |-> Inlines!Place(F, i)]
           forms == Inlines!Picked(body, F)
<1>1. /\ body \in Seq(Row) /\ Numbered(body) /\ SavedFirst(body)
      /\ F \subseteq 1..Len(body) /\ Len(body) \in Int
      /\ IsFiniteSet(F) /\ c \in Nat
    <2>1. body \in Seq(Row) /\ Numbered(body) /\ SavedFirst(body)
        BY DEF FormsInv, WellKept
    <2> QED
        BY <2>1, FormsAreFinite
<1> HIDE DEF F
<1>2. \A i \in 1..c : at[i] \in F /\ Rank(F, at[i]) = i
    BY <1>1, InlinesPlace
<1>3. at \in [1..c -> F]
    BY <1>2
<1>4. forms = [i \in 1..c |-> body[at[i]]]
    BY SameCardinality DEF Inlines!Picked
<1> HIDE DEF at, forms
<1>5. \A i, j \in 1..c : i < j => at[i] < at[j]
    BY <1>1, <1>2, <1>3, PlacesInOrder
<1>6. ASSUME NEW k \in F PROVE Rank(F, k) = Cardinality(Before(body, k)) + 1
    <2> DEFINE B == Before(body, k)
               U == {j \in F : j <= k}
    <2>1. \A j \in F : j \in Int
        BY <1>1
    <2>2. U = B \cup {k} /\ k \notin B
        BY <2>1 DEF Before, F
    <2>3. IsFiniteSet(B) /\ Cardinality(B) \in Nat
        BY <1>1, FormsAreFinite
    <2> HIDE DEF B, U
    <2>4. Cardinality(U) = Cardinality(B) + 1
        BY <2>2, <2>3, FS_AddElement
    <2> QED
        BY <2>4 DEF Rank, U, B
<1>7. ASSUME NEW i \in 1..c PROVE forms[i].index = i - 1 /\ forms[i].rowId = i - 1
    <2> DEFINE b == Cardinality(Before(body, at[i]))
    <2>1. at[i] \in F /\ forms[i] = body[at[i]]
        BY <1>3, <1>4
    <2>2. i = b + 1 /\ b \in Nat
        BY <1>1, <1>2, <1>6, <2>1, FormsAreFinite
    <2>3. forms[i].index = b /\ forms[i].rowId = b
        BY <1>1, <2>1 DEF Numbered, F
    <2> HIDE DEF b
    <2> QED
        BY <2>2, <2>3
<1>8. \A i, j \in 1..c : i < j /\ forms[j].saved => forms[i].saved
    BY <1>1, <1>3, <1>4, <1>5 DEF SavedFirst, F
<1>9. DOMAIN forms = 1..c
    BY <1>4
<1> QED
    BY <1>1, <1>7, <1>8, <1>9 DEF F, forms

(* Whatever rows are added and removed, between refusals, and however many *)
(* there are, the server finds all of them and in their order.             *)
THEOREM ServerFindsEveryForm == Spec => []FormsInSequence
<1>1. FormsInv => FormsInSequence
    BY FormsInOrder DEF FormsInv, FormsInSequence, Inlines!FormsInSequence
<1> QED
    BY <1>1, FormsAlways, PTL

(* Errors and editors come and go with their form.                         *)
THEOREM RowsComeAndGoWhole == Spec => []RowsAreWhole
<1>1. FormsInv => RowsAreWhole
    BY DEF FormsInv, WellKept, Whole, RowsAreWhole, Inlines!RowsAreWhole
<1> QED
    BY <1>1, FormsAlways, PTL

=============================================================================
