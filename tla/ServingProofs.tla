--------------------------- MODULE ServingProofs ---------------------------
(***************************************************************************)
(* Serving keeps its types, the two services agree on every calm item that *)
(* is settled, and a server keeps what was caught: for all items, servers, *)
(* sessions, task rows, transactions and messages under way.               *)
(***************************************************************************)
EXTENDS Serving, Integers, FiniteSetTheorems, TLAPS

-----------------------------------------------------------------------------
(* The inductive invariant.                                                *)

Types ==
    /\ stat \in [Items -> ItemStatus]
    /\ over \in BOOLEAN
    /\ task \in [Tasks -> Row \cup {Unborn, Deleted}]
    /\ lock \subseteq Tasks
    /\ tx \in [Threads -> {Idle} \cup Updates \cup Inserts \cup Deletes]
    /\ IsABag(toSpring) /\ DOMAIN toSpring \subseteq MessageToSpring
    /\ toDjango \in Seq(MessageToDjango) /\ Len(toDjango) <= MaxToDjango
    /\ calm \in [Items -> BOOLEAN]

(* What a transaction is going to write has been there, and what of it     *)
(* still is belongs to the items the transaction is about.                 *)
Prepared ==
    /\ \A k \in Threads : tx[k].op = "update" =>
            \A t \in DOMAIN tx[k].rows :
                /\ task[t] # Unborn /\ tx[k].rows[t].item \in tx[k].of
                /\ Exists(t) => tx[k].rows[t].item = task[t].item
    /\ \A k \in Threads : tx[k].op = "insert" => tx[k].of = {tx[k].item}
    /\ \A k \in Threads : tx[k].op = "delete" =>
            \A t \in tx[k].ids :
                task[t] # Unborn /\ (Exists(t) => task[t].item \in tx[k].of)
    /\ \A m \in BagToSet(toSpring) : m.kind = "cooked" => \E i \in Items : m.of = {i}

(* What Django has yet to read about an item, and the status it will have  *)
(* read then: the last message decides.                                    *)
Queued(i) == {n \in 1..Len(toDjango) : toDjango[n].item = i}
After(kind) ==
    IF kind = "serving" THEN "SERVING" ELSE IF kind = "served" THEN "SERVED" ELSE "COOKED"
Becomes(i, s) ==
    IF Queued(i) = {} THEN stat[i] = s
    ELSE /\ stat[i] \in {"COOKED", "SERVING", "SERVED"} /\ ~over
         /\ \E n \in Queued(i) : \A l \in Queued(i) : l >= n => After(toDjango[l].kind) = s

(* Agree, with the status s for the item's.                                *)
AgreeAs(i, s) ==
    IF over \/ s \notin {"COOKED", "SERVING"} THEN ActiveOf({i}) = {}
    ELSE \E t \in Tasks :
            /\ ActiveOf({i}) = {t}
            /\ task[t].status = "SERVING" <=> s = "SERVING"

Concerns(k, i) == tx[k] # Idle /\ i \in tx[k].of
NoWork(i) == \A k \in Threads : ~Concerns(k, i)
OnlyWork(k, i) == \A j \in Threads : Concerns(j, i) <=> j = k
NoMessage(i) == \A m \in DOMAIN toSpring : i \notin m.of
OnlyMessage(m, i) ==
    /\ m \in DOMAIN toSpring /\ i \in m.of /\ toSpring[m] = 1
    /\ \A l \in DOMAIN toSpring : i \in l.of => l = m

(* What Django will have heard when a row with this status is written.     *)
Shown(status) ==
    IF status = "SERVING" THEN "SERVING" ELSE IF status = "SERVED" THEN "SERVED" ELSE "COOKED"

(* A calm item is in one of six situations: nothing is under way to Spring *)
(* or in it; a task was asked for, and is being made; its tasks are to be  *)
(* removed, and are being removed; a server changes its one task.          *)
Quiet(i) ==
    /\ NoWork(i) /\ NoMessage(i)
    /\ \E s \in ItemStatus : Becomes(i, s) /\ AgreeAs(i, s)

Wanted(i) == Queued(i) = {} /\ ~over /\ stat[i] = "COOKED" /\ ActiveOf({i}) = {}
Asked(i) ==
    /\ Wanted(i) /\ NoWork(i)
    /\ \E m \in DOMAIN toSpring : OnlyMessage(m, i) /\ m.kind = "cooked"
Inserting(i) ==
    /\ Wanted(i) /\ NoMessage(i)
    /\ \E k \in Threads : OnlyWork(k, i) /\ tx[k].op = "insert" /\ tx[k].item = i

Unwanted(i) == Queued(i) = {} /\ (over \/ ~ToServe(i))
Clearing(i) ==
    /\ Unwanted(i) /\ NoWork(i)
    /\ \E m \in DOMAIN toSpring : OnlyMessage(m, i) /\ m.kind = "remove"
Deleting(i) ==
    /\ Unwanted(i) /\ NoMessage(i)
    /\ \E k \in Threads :
            OnlyWork(k, i) /\ tx[k].op = "delete" /\ ActiveOf({i}) \subseteq tx[k].ids

Writes(k, t, i) ==
    /\ tx[k].op = "update" /\ t \in DOMAIN tx[k].rows /\ tx[k].rows[t].item = i
    /\ \A u \in DOMAIN tx[k].rows : tx[k].rows[u].item = i => u = t
    /\ task[t].status = "SERVING" => tx[k].rows[t].by \in {task[t].by, NoOne}
Updating(i) ==
    /\ NoMessage(i) /\ ~over
    /\ \E k \in Threads, t \in Tasks :
            /\ OnlyWork(k, i) /\ Writes(k, t, i) /\ ActiveOf({i}) = {t}
            /\ Becomes(i, Shown(tx[k].rows[t].status))

Situation(i) ==
    Quiet(i) \/ Asked(i) \/ Inserting(i) \/ Clearing(i) \/ Deleting(i) \/ Updating(i)

SInv == Types /\ Prepared /\ \A i \in Items : calm[i] => Situation(i)

-----------------------------------------------------------------------------
(* Records, bags and queues.                                               *)

LEMMA Kinds ==
    ASSUME Types, NEW k \in Threads
    PROVE  /\ tx[k].op \in {"idle", "update", "insert", "delete"}
           /\ tx[k] = Idle <=> tx[k].op = "idle"
           /\ tx[k].op = "update" => tx[k] \in Updates
           /\ tx[k].op = "insert" => tx[k] \in Inserts
           /\ tx[k].op = "delete" => tx[k] \in Deletes
<1>1. tx[k] \in {Idle} \cup Updates \cup Inserts \cup Deletes
    BY DEF Types
<1> QED
    BY <1>1 DEF Idle, Updates, Inserts, Deletes

LEMMA UpdateFields ==
    ASSUME NEW u \in Updates
    PROVE  /\ u.rows \in [DOMAIN u.rows -> Row] /\ DOMAIN u.rows \in SUBSET Tasks
           /\ u.of \in SUBSET Items /\ u.locked \in SUBSET Tasks
           /\ u.op = "update"
BY DEF Updates

LEMMA TypesAreOK == Types => TypeOK
<1> SUFFICES ASSUME Types PROVE TypeOK
    OBVIOUS
<1>1. ASSUME NEW k \in Threads
      PROVE  \/ tx[k] \in {Idle} \cup Inserts \cup Deletes
             \/ /\ tx[k].op = "update"
                /\ DOMAIN tx[k].rows \subseteq Tasks
                /\ \A t \in DOMAIN tx[k].rows : tx[k].rows[t] \in Row
    BY <1>1, Kinds, UpdateFields
<1>2. \A n \in 1..Len(toDjango) : toDjango[n] \in MessageToDjango
    BY DEF Types
<1> QED
    BY <1>1, <1>2 DEF Types, TypeOK, BagToSet

(* Rows that are active.                                                   *)
LEMMA ActiveRows ==
    ASSUME Types
    PROVE  /\ \A t \in Tasks : Exists(t) => task[t] \in Row
           /\ \A t \in Tasks : Active(t) => Exists(t)
           /\ \A S : \A t \in ActiveOf(S) :
                t \in Tasks /\ Active(t) /\ Exists(t) /\ task[t] \in Row /\ task[t].item \in S
BY DEF Types, Exists, Active, ActiveOf, Unborn, Deleted

(* Messages come and go one by one.                                        *)
LEMMA MessageAdded ==
    ASSUME IsABag(toSpring), NEW m, toSpring' = toSpring (+) SetToBag({m})
    PROVE  /\ IsABag(toSpring') /\ DOMAIN toSpring' = DOMAIN toSpring \cup {m}
           /\ \A l \in DOMAIN toSpring : l # m => toSpring'[l] = toSpring[l]
           /\ m \notin DOMAIN toSpring => toSpring'[m] = 1
BY DEF IsABag, SetToBag, (+)

LEMMA MessageRemoved ==
    ASSUME IsABag(toSpring), NEW m \in DOMAIN toSpring,
           toSpring' = toSpring (-) SetToBag({m})
    PROVE  /\ IsABag(toSpring') /\ DOMAIN toSpring' \subseteq DOMAIN toSpring
           /\ \A l \in DOMAIN toSpring :
                l # m => l \in DOMAIN toSpring' /\ toSpring'[l] = toSpring[l]
           /\ toSpring[m] = 1 => m \notin DOMAIN toSpring'
BY DEF IsABag, SetToBag, (-)

(* What an item was going to become it still is.                           *)
NewsKept(i) ==
    /\ over' = over
    /\ \A s \in ItemStatus : Becomes(i, s) => Becomes(i, s)'
    /\ Queued(i) = {} => Queued(i)' = {} /\ stat'[i] = stat[i]

LEMMA NoNews ==
    ASSUME NEW i \in Items, UNCHANGED <<over, toDjango>>, stat'[i] = stat[i]
    PROVE  NewsKept(i) /\ \A s \in ItemStatus : Becomes(i, s) => Becomes(i, s)'
BY DEF NewsKept, Becomes, Queued

(* The first message leaves the queue.                                     *)
LEMMA FirstRead ==
    ASSUME Types, toDjango # <<>>, toDjango' = Tail(toDjango)
    PROVE  /\ Head(toDjango) = toDjango[1] /\ 1 \in 1..Len(toDjango)
           /\ Head(toDjango) \in MessageToDjango
           /\ toDjango' \in Seq(MessageToDjango) /\ Len(toDjango') <= MaxToDjango
           /\ \A n \in 1..Len(toDjango') :
                n + 1 \in 1..Len(toDjango) /\ toDjango'[n] = toDjango[n + 1]
           /\ \A n \in 1..Len(toDjango) :
                n # 1 => n - 1 \in 1..Len(toDjango') /\ toDjango'[n - 1] = toDjango[n]
<1>1. /\ toDjango \in Seq(MessageToDjango) /\ Len(toDjango) <= MaxToDjango
      /\ MaxToDjango \in Nat
    BY ServingAssumption DEF Types
<1>2. Len(toDjango) \in Nat /\ Len(toDjango) # 0
    BY <1>1
<1>3. Len(toDjango') = Len(toDjango) - 1
    BY <1>1, <1>2
<1> QED
    BY <1>1, <1>2, <1>3

(* Whoever reads it, the news of other items are the same.                 *)
LEMMA OthersRead ==
    ASSUME Types, toDjango # <<>>, toDjango' = Tail(toDjango), over' = over,
           NEW i \in Items, Head(toDjango).item # i, stat'[i] = stat[i]
    PROVE  NewsKept(i)
<1>1. \A n \in Queued(i) : n - 1 \in Queued(i)' /\ toDjango'[n - 1] = toDjango[n]
    BY FirstRead DEF Queued
<1>2. \A n \in Queued(i)' : n + 1 \in Queued(i) /\ toDjango'[n] = toDjango[n + 1]
    BY FirstRead DEF Queued
<1>3. Queued(i) = {} <=> Queued(i)' = {}
    BY <1>1, <1>2
<1>4. ASSUME NEW s \in ItemStatus, Becomes(i, s)
      PROVE  Becomes(i, s)'
    <2>1. CASE Queued(i) = {}
        BY <1>3, <1>4, <2>1 DEF Becomes
    <2>2. CASE Queued(i) # {}
        <3>1. PICK n \in Queued(i) :
                \A l \in Queued(i) : l >= n => After(toDjango[l].kind) = s
            BY <1>4, <2>2 DEF Becomes
        <3>2. ASSUME NEW l \in Queued(i)', l >= n - 1
              PROVE  After(toDjango'[l].kind) = s
            <4>1. l + 1 \in Queued(i) /\ l + 1 >= n /\ toDjango'[l] = toDjango[l + 1]
                BY <1>2, <3>2 DEF Queued
            <4> QED
                BY <3>1, <4>1
        <3>3. n - 1 \in Queued(i)' /\ Queued(i)' # {}
            BY <1>1
        <3>4. stat'[i] \in {"COOKED", "SERVING", "SERVED"} /\ ~over'
            BY <1>4, <2>2 DEF Becomes
        <3> QED
            BY <3>2, <3>3, <3>4 DEF Becomes
    <2> QED
        BY <2>1, <2>2
<1> QED
    BY <1>3, <1>4 DEF NewsKept

(* Django reads a message about the item: what it was going to become is   *)
(* the same, and when that was the last message, it is that.               *)
LEMMA OwnRead ==
    ASSUME Types, Listen, NEW i \in Items, Head(toDjango).item = i
    PROVE  NewsKept(i)
<1>1. /\ toDjango # <<>> /\ toDjango' = Tail(toDjango) /\ over' = over
      /\ Head(toDjango) = toDjango[1] /\ 1 \in Queued(i)
    BY FirstRead DEF Listen, Queued
<1>2. \A n \in Queued(i) :
            n \in Nat /\ (n # 1 => n - 1 \in Queued(i)' /\ toDjango'[n - 1] = toDjango[n])
    BY <1>1, FirstRead DEF Queued
<1>3. \A n \in Queued(i)' :
            n \in Nat \ {0} /\ n + 1 \in Queued(i) /\ toDjango'[n] = toDjango[n + 1]
    BY <1>1, FirstRead DEF Queued
<1>4. ASSUME NEW s \in ItemStatus, Becomes(i, s)
      PROVE  Becomes(i, s)'
    <2>1. PICK n \in Queued(i) :
            \A l \in Queued(i) : l >= n => After(toDjango[l].kind) = s
        BY <1>1, <1>4 DEF Becomes
    <2>2. ~over' /\ stat[i] \in {"COOKED", "SERVING", "SERVED"}
        BY <1>1, <1>4 DEF Becomes
    <2>3. stat'[i] = After(toDjango[1].kind)
        BY <1>1, <2>2 DEF Listen, HandleServingEvent, HandleServingCancelled, Types, After
    <2>4. CASE Queued(i)' = {}
        <3>1. n = 1
            BY <1>2, <2>4
        <3> QED
            BY <2>1, <2>3, <2>4, <3>1 DEF Becomes
    <2>5. ASSUME NEW m \in Queued(i)', \A l \in Queued(i)' : l >= m => l + 1 >= n
          PROVE  Becomes(i, s)'
        <3>1. \A l \in Queued(i)' : l >= m => After(toDjango'[l].kind) = s
            BY <1>3, <2>1, <2>5
        <3>2. stat'[i] \in {"COOKED", "SERVING", "SERVED"}
            BY <2>3 DEF After
        <3> QED
            BY <2>2, <2>5, <3>1, <3>2 DEF Becomes
    <2>6. CASE n # 1
        <3>1. n - 1 \in Queued(i)' /\ n \in Nat /\ \A l \in Queued(i)' : l \in Nat
            BY <1>2, <1>3, <2>6
        <3> QED
            BY <2>5, <3>1
    <2>7. CASE n = 1 /\ Queued(i)' # {}
        <3>1. \A l \in Queued(i)' : l \in Nat
            BY <1>3
        <3> QED
            BY <2>5, <2>7, <3>1
    <2> QED
        BY <2>4, <2>6, <2>7
<1> QED
    BY <1>1, <1>4 DEF NewsKept

LEMMA ListenKeeps ==
    ASSUME Types, Listen, NEW i \in Items
    PROVE  NewsKept(i)
<1>1. CASE Head(toDjango).item = i
    BY <1>1, OwnRead
<1>2. CASE Head(toDjango).item # i
    <2>1. toDjango # <<>> /\ toDjango' = Tail(toDjango) /\ over' = over
        BY DEF Listen
    <2>2. stat'[i] = stat[i]
        BY <1>2 DEF Listen, HandleServingEvent, HandleServingCancelled, Types
    <2> QED
        BY <1>2, <2>1, <2>2, OthersRead
<1> QED
    BY <1>1, <1>2

(* A request's messages are one for each of its rows, in some order.       *)
Published(rows, kind) ==
    \E order \in SetToSeqs(DOMAIN rows) :
        toDjango' = toDjango \o [n \in DOMAIN order |->
                                    [kind |-> kind, item |-> rows[order[n]].item]]

LEMMA OneForEachRow ==
    ASSUME Types, NEW rows, DOMAIN rows \in SUBSET Tasks,
           \A t \in DOMAIN rows : rows[t] \in Row,
           NEW kind \in {"serving", "served", "cooked"}, Published(rows, kind),
           Len(toDjango) + Cardinality(DOMAIN rows) <= MaxToDjango
    PROVE  /\ toDjango' \in Seq(MessageToDjango) /\ Len(toDjango') <= MaxToDjango
           /\ \A n \in 1..Len(toDjango) :
                n \in 1..Len(toDjango') /\ toDjango'[n] = toDjango[n]
           /\ \A n \in 1..Len(toDjango') : n \notin 1..Len(toDjango) =>
                /\ n > Len(toDjango) /\ toDjango'[n].kind = kind
                /\ \E t \in DOMAIN rows : toDjango'[n].item = rows[t].item
           /\ \A t \in DOMAIN rows : \E n \in 1..Len(toDjango') :
                n > Len(toDjango) /\ toDjango'[n].item = rows[t].item
<1> DEFINE D == DOMAIN rows
           c == Cardinality(D)
<1>1. IsFiniteSet(D) /\ c \in Nat
    BY FS_Subset, FS_CardinalityType, ServingAssumption
<1>2. PICK order \in SetToSeqs(D) :
        toDjango' = toDjango \o [n \in DOMAIN order |->
                                    [kind |-> kind, item |-> rows[order[n]].item]]
    BY DEF Published
<1>3. order \in [1..c -> D] /\ \A i, j \in 1..c : i # j => order[i] # order[j]
    BY <1>2 DEF SetToSeqs
<1>4. \A t \in D : \E n \in 1..c : order[n] = t
    <2>1. order \in Injection(1..c, D)
        BY <1>3 DEF Injection, IsInjective
    <2>2. Cardinality(1..c) = c
        BY <1>1, FS_Interval
    <2>3. order \in Surjection(1..c, D)
        <3> HIDE DEF D
        <3> QED
            BY <1>1, <2>1, <2>2, FS_Injection
    <2> QED
        BY <2>3 DEF Surjection
<1> DEFINE new == [n \in 1..c |-> [kind |-> kind, item |-> rows[order[n]].item]]
<1>5. \A n \in 1..c : /\ new[n].kind = kind /\ new[n].item = rows[order[n]].item
                      /\ order[n] \in D /\ new[n] \in MessageToDjango
    BY <1>3 DEF MessageToDjango, Row
<1>6. toDjango' = toDjango \o new /\ new \in Seq(MessageToDjango) /\ Len(new) = c
    <2>1. DOMAIN order = 1..c
        BY <1>3
    <2>2. toDjango' = toDjango \o new
        BY <1>2, <2>1
    <2>3. new \in [1..c -> MessageToDjango]
        BY <1>5
    <2> HIDE DEF new, c
    <2> QED
        BY <1>1, <2>2, <2>3
<1>7. toDjango \in Seq(MessageToDjango) /\ Len(toDjango) \in Nat
    BY DEF Types
<1>8. /\ toDjango' \in Seq(MessageToDjango) /\ Len(toDjango') = Len(toDjango) + c
      /\ \A n \in 1..Len(toDjango) : toDjango'[n] = toDjango[n]
      /\ \A n \in 1..c : toDjango'[Len(toDjango) + n] = new[n]
    <2> HIDE DEF new, c
    <2>1. /\ toDjango \o new \in Seq(MessageToDjango)
          /\ Len(toDjango \o new) = Len(toDjango) + Len(new)
          /\ \A n \in 1..Len(toDjango) : (toDjango \o new)[n] = toDjango[n]
          /\ \A n \in 1..Len(new) : (toDjango \o new)[Len(toDjango) + n] = new[n]
        <3>1. toDjango \in Seq(MessageToDjango) /\ new \in Seq(MessageToDjango)
            BY <1>6, <1>7
        <3>2. toDjango \o new \in Seq(MessageToDjango)
            BY <3>1
        <3>3. Len(toDjango \o new) = Len(toDjango) + Len(new)
            BY <3>1
        <3>4. \A n \in 1..Len(toDjango) : (toDjango \o new)[n] = toDjango[n]
            BY <3>1
        <3>5. \A n \in 1..Len(new) : (toDjango \o new)[Len(toDjango) + n] = new[n]
            BY <3>1
        <3> QED
            BY <3>2, <3>3, <3>4, <3>5
    <2> QED
        BY <1>6, <2>1, Zenon
<1> HIDE DEF new
<1>9. ASSUME NEW n \in 1..Len(toDjango'), n \notin 1..Len(toDjango)
      PROVE  /\ n > Len(toDjango) /\ toDjango'[n].kind = kind
             /\ \E t \in DOMAIN rows : toDjango'[n].item = rows[t].item
    <2>1. n > Len(toDjango) /\ n - Len(toDjango) \in 1..c
        <3> HIDE DEF c
        <3> QED
            BY <1>1, <1>7, <1>8, <1>9
    <2>2. toDjango'[n] = new[n - Len(toDjango)]
        <3>1. Len(toDjango) + (n - Len(toDjango)) = n
            BY <1>7
        <3> QED
            BY <1>8, <2>1, <3>1
    <2> QED
        BY <1>5, <2>1, <2>2
<1>10. ASSUME NEW t \in DOMAIN rows
       PROVE  \E n \in 1..Len(toDjango') :
                n > Len(toDjango) /\ toDjango'[n].item = rows[t].item
    <2>1. PICK l \in 1..c : order[l] = t
        BY <1>4
    <2>2. /\ Len(toDjango) + l \in 1..Len(toDjango') /\ Len(toDjango) + l > Len(toDjango)
          /\ toDjango'[Len(toDjango) + l] = new[l]
        <3> HIDE DEF c
        <3> QED
            BY <1>1, <1>7, <1>8
    <2> QED
        BY <1>5, <2>1, <2>2
<1> QED
    <2>1. \A n \in 1..Len(toDjango) : n \in 1..Len(toDjango')
        <3> HIDE DEF c
        <3> QED
            BY <1>1, <1>7, <1>8
    <2>2. Len(toDjango') <= MaxToDjango
        BY <1>8
    <2> QED
        BY <1>8, <1>9, <1>10, <2>1, <2>2

-----------------------------------------------------------------------------
(* Steps that are not about an item leave it in its situation.             *)

SameRows(i) ==
    /\ ActiveOf({i})' = ActiveOf({i})
    /\ \A t \in ActiveOf({i}) : task'[t] = task[t]
SameWork(i) ==
    \A k \in Threads :
        /\ Concerns(k, i)' <=> Concerns(k, i)
        /\ Concerns(k, i) =>
            /\ tx'[k].op = tx[k].op
            /\ tx[k].op = "update" => tx'[k].rows = tx[k].rows
            /\ tx[k].op = "insert" => tx'[k].item = tx[k].item
            /\ tx[k].op = "delete" => tx'[k].ids = tx[k].ids
SameMessages(i) ==
    \A m : i \in m.of =>
        /\ m \in DOMAIN toSpring' <=> m \in DOMAIN toSpring
        /\ m \in DOMAIN toSpring => toSpring'[m] = toSpring[m]

LEMMA NotAbout ==
    ASSUME Types, NEW i \in Items, Situation(i),
           SameRows(i), SameWork(i), SameMessages(i), NewsKept(i)
    PROVE  Situation(i)'
<1>1. /\ NoWork(i) => NoWork(i)'
      /\ \A k \in Threads : OnlyWork(k, i) => OnlyWork(k, i)' /\ Concerns(k, i)
    BY DEF SameWork, NoWork, OnlyWork
<1>2. /\ NoMessage(i) => NoMessage(i)'
      /\ \A m \in DOMAIN toSpring :
            OnlyMessage(m, i) => OnlyMessage(m, i)' /\ m \in DOMAIN toSpring'
    BY DEF SameMessages, NoMessage, OnlyMessage
<1>3. /\ over' = over /\ \A s \in ItemStatus : Becomes(i, s) => Becomes(i, s)'
      /\ Queued(i) = {} => Queued(i)' = {} /\ stat'[i] = stat[i]
    BY DEF NewsKept
<1>4. \A s \in ItemStatus : AgreeAs(i, s) => AgreeAs(i, s)'
    BY <1>3 DEF AgreeAs, SameRows
<1>5. CASE Quiet(i)
    <2>1. Quiet(i)'
        BY <1>1, <1>2, <1>3, <1>4, <1>5 DEF Quiet
    <2> QED
        BY <2>1 DEF Situation
<1>6. (Wanted(i) => Wanted(i)') /\ (Unwanted(i) => Unwanted(i)')
    BY <1>3 DEF Wanted, Unwanted, ToServe, SameRows
<1>7. CASE Asked(i)
    <2>1. Asked(i)'
        BY <1>1, <1>2, <1>6, <1>7 DEF Asked
    <2> QED
        BY <2>1 DEF Situation
<1>8. CASE Inserting(i)
    <2>1. PICK k \in Threads : OnlyWork(k, i) /\ tx[k].op = "insert" /\ tx[k].item = i
        BY <1>8 DEF Inserting
    <2>2. OnlyWork(k, i)' /\ tx'[k].op = "insert" /\ tx'[k].item = i
        BY <1>1, <2>1 DEF SameWork
    <2>3. Inserting(i)'
        BY <1>2, <1>6, <1>8, <2>2 DEF Inserting
    <2> QED
        BY <2>3 DEF Situation
<1>9. CASE Clearing(i)
    <2>1. Clearing(i)'
        BY <1>1, <1>2, <1>6, <1>9 DEF Clearing
    <2> QED
        BY <2>1 DEF Situation
<1>10. CASE Deleting(i)
    <2>1. PICK k \in Threads :
            OnlyWork(k, i) /\ tx[k].op = "delete" /\ ActiveOf({i}) \subseteq tx[k].ids
        BY <1>10 DEF Deleting
    <2>2. OnlyWork(k, i)' /\ tx'[k].op = "delete" /\ tx'[k].ids = tx[k].ids
        BY <1>1, <2>1 DEF SameWork
    <2>3. Deleting(i)'
        BY <1>2, <1>6, <1>10, <2>1, <2>2 DEF Deleting, SameRows
    <2> QED
        BY <2>3 DEF Situation
<1>11. CASE Updating(i)
    <2>1. PICK k \in Threads, t \in Tasks :
            /\ OnlyWork(k, i) /\ Writes(k, t, i) /\ ActiveOf({i}) = {t}
            /\ Becomes(i, Shown(tx[k].rows[t].status))
        BY <1>11 DEF Updating
    <2>2. /\ OnlyWork(k, i)' /\ tx'[k].op = "update" /\ tx'[k].rows = tx[k].rows
          /\ tx[k].op = "update" /\ task'[t] = task[t] /\ ActiveOf({i})' = {t}
        BY <1>1, <2>1 DEF SameWork, SameRows, Writes
    <2>3. Writes(k, t, i)'
        BY <2>1, <2>2 DEF Writes
    <2>4. Shown(tx[k].rows[t].status) \in ItemStatus
        BY DEF Shown, ItemStatus, Targets
    <2>5. Becomes(i, Shown(tx[k].rows[t].status))'
        BY <1>3, <2>1, <2>2, <2>4 DEF Becomes
    <2>6. Updating(i)'
        BY <1>2, <1>3, <1>11, <2>2, <2>3, <2>5 DEF Updating
    <2> QED
        BY <2>6 DEF Situation
<1> QED
    BY <1>5, <1>7, <1>8, <1>9, <1>10, <1>11 DEF Situation

-----------------------------------------------------------------------------
(* A settled or idle item.                                                 *)

LEMMA NotBusy ==
    ASSUME NEW i \in Items, ~Busy(i)
    PROVE  NoWork(i) /\ NoMessage(i)
BY DEF Busy, NoWork, NoMessage, Concerns, BagToSet

LEMMA IdleIsQuiet ==
    ASSUME NEW i \in Items, ~Busy(i), Situation(i)
    PROVE  Quiet(i)
BY NotBusy DEF Situation, Asked, Inserting, Clearing, Deleting, Updating, OnlyMessage,
   OnlyWork, NoWork, NoMessage

LEMMA SettledAgrees ==
    ASSUME NEW i \in Items, Settled(i), Situation(i)
    PROVE  Agree(i) /\ AgreeAs(i, stat[i])
<1>1. Quiet(i) /\ Queued(i) = {}
    BY IdleIsQuiet DEF Settled, Queued
<1>2. PICK s \in ItemStatus : Becomes(i, s) /\ AgreeAs(i, s)
    BY <1>1 DEF Quiet
<1>3. s = stat[i]
    BY <1>1, <1>2 DEF Becomes
<1> QED
    BY <1>2, <1>3 DEF Agree, AgreeAs, ToServe

-----------------------------------------------------------------------------
(* Requests of servers.                                                    *)

(* The item's last message is the one its row was published with.          *)
LEMMA LastPublished ==
    ASSUME Types, NEW rows, DOMAIN rows \in SUBSET Tasks,
           \A t \in DOMAIN rows : rows[t] \in Row,
           NEW kind \in {"serving", "served", "cooked"}, Published(rows, kind),
           Len(toDjango) + Cardinality(DOMAIN rows) <= MaxToDjango,
           UNCHANGED <<stat, over>>, NEW i \in Items
    PROVE  /\ (\A t \in DOMAIN rows : rows[t].item # i) => NewsKept(i)
           /\ ~over /\ stat[i] \in {"COOKED", "SERVING", "SERVED"}
                /\ (\E t \in DOMAIN rows : rows[t].item = i) => Becomes(i, After(kind))'
<1>1. /\ \A n \in 1..Len(toDjango) :
            n \in 1..Len(toDjango') /\ toDjango'[n] = toDjango[n]
      /\ \A n \in 1..Len(toDjango') : n \notin 1..Len(toDjango) =>
            /\ n > Len(toDjango) /\ toDjango'[n].kind = kind
            /\ \E t \in DOMAIN rows : toDjango'[n].item = rows[t].item
      /\ \A t \in DOMAIN rows : \E n \in 1..Len(toDjango') :
            n > Len(toDjango) /\ toDjango'[n].item = rows[t].item
    BY OneForEachRow
<1>2. Len(toDjango) \in Nat
    BY DEF Types
<1>3. ASSUME \A t \in DOMAIN rows : rows[t].item # i
      PROVE  NewsKept(i)
    <2>1. Queued(i)' = Queued(i)
        BY <1>1, <1>3 DEF Queued
    <2>2. \A n \in Queued(i) : toDjango'[n] = toDjango[n]
        BY <1>1 DEF Queued
    <2> QED
        BY <2>1, <2>2 DEF NewsKept, Becomes
<1>4. ASSUME ~over, stat[i] \in {"COOKED", "SERVING", "SERVED"},
             NEW t \in DOMAIN rows, rows[t].item = i
      PROVE  Becomes(i, After(kind))'
    <2>1. PICK n \in 1..Len(toDjango') : n > Len(toDjango) /\ toDjango'[n].item = i
        BY <1>1, <1>4
    <2>2. n \in Queued(i)'
        BY <2>1 DEF Queued
    <2>3. \A l \in Queued(i)' : l >= n => After(toDjango'[l].kind) = After(kind)
        BY <1>1, <1>2, <2>1 DEF Queued
    <2> QED
        BY <1>4, <2>2, <2>3 DEF Becomes
<1> QED
    BY <1>3, <1>4

LEMMA BeginKeeps ==
    ASSUME SInv, NEW k \in Threads, NEW rows, NEW locked \in SUBSET Tasks,
           NEW kind \in {"serving", "served", "cooked"}, Begin(k, rows, locked, kind),
           DOMAIN rows \in SUBSET Tasks, rows \in [DOMAIN rows -> Row],
           \A t \in DOMAIN rows :
                /\ Active(t) /\ rows[t].item = task[t].item
                /\ Shown(rows[t].status) = After(kind)
                /\ task[t].status = "SERVING" => rows[t].by \in {task[t].by, NoOne},
           lock' \subseteq Tasks
    PROVE  SInv'
<1> DEFINE of == {rows[t].item : t \in DOMAIN rows}
           new == [op |-> "update", rows |-> rows, of |-> of, locked |-> locked]
<1>1. Types /\ Prepared /\ \A i \in Items : calm[i] => Situation(i)
    BY DEF SInv
<1>2. /\ tx[k] = Idle /\ tx' = [tx EXCEPT ![k] = new]
      /\ Len(toDjango) + Cardinality(DOMAIN rows) <= MaxToDjango
      /\ Published(rows, kind)
      /\ calm' = [i \in Items |-> calm[i] /\ (i \in of => ~Busy(i))]
      /\ UNCHANGED <<stat, over, task, toSpring>>
    BY DEF Begin, Published
<1>3. \A t \in DOMAIN rows :
            /\ rows[t] \in Row /\ rows[t].item \in Items /\ Exists(t)
            /\ t \in ActiveOf({rows[t].item})
    BY <1>1, ActiveRows DEF Row, ActiveOf
<1>4. new \in Updates
    <2>1. of \in SUBSET Items
        BY <1>3
    <2>2. rows \in UNION {[S -> Row] : S \in SUBSET Tasks}
        OBVIOUS
    <2> HIDE DEF of
    <2> QED
        BY <2>1, <2>2 DEF Updates
<1>5. /\ new.op = "update" /\ new.rows = rows /\ new.of = of /\ new # Idle
    BY DEF Idle
<1> HIDE DEF new
<1>6. tx'[k] = new /\ \A j \in Threads : j # k => tx'[j] = tx[j]
    BY <1>1, <1>2 DEF Types
<1>7. Types'
    <2>1. toDjango' \in Seq(MessageToDjango) /\ Len(toDjango') <= MaxToDjango
        BY <1>1, <1>2, <1>3, OneForEachRow
    <2>2. tx' \in [Threads -> {Idle} \cup Updates \cup Inserts \cup Deletes]
        BY <1>1, <1>2, <1>4 DEF Types
    <2>3. calm' \in [Items -> BOOLEAN]
        BY <1>1, <1>2 DEF Types
    <2> QED
        BY <1>1, <1>2, <2>1, <2>2, <2>3 DEF Types
<1>8. Prepared'
    <2>1. \A t \in DOMAIN rows : task[t] # Unborn /\ rows[t].item \in of
        BY <1>3 DEF Exists
    <2> QED
        BY <1>1, <1>2, <1>5, <1>6, <2>1 DEF Prepared, Exists
<1>9. ASSUME NEW i \in Items, calm'[i]
      PROVE  Situation(i)'
    <2>1. Situation(i) /\ (i \in of => ~Busy(i))
        BY <1>1, <1>2, <1>9
    <2>2. CASE i \notin of
        <3>1. NewsKept(i)
            BY <1>1, <1>2, <1>3, <2>2, LastPublished
        <3>2. SameRows(i) /\ SameMessages(i)
            BY <1>2 DEF SameRows, SameMessages, ActiveOf, Active
        <3>3. SameWork(i)
            BY <1>2, <1>5, <1>6, <2>2 DEF SameWork, Concerns
        <3> QED
            BY <1>1, <2>1, <3>1, <3>2, <3>3, NotAbout
    <2>3. CASE i \in of
        <3>1. PICK t \in DOMAIN rows : rows[t].item = i
            BY <2>3
        <3>2. Quiet(i)
            BY <2>1, <2>3, IdleIsQuiet
        <3>3. PICK s \in ItemStatus : Becomes(i, s) /\ AgreeAs(i, s)
            BY <3>2 DEF Quiet
        <3>4. /\ ~over /\ s \in {"COOKED", "SERVING"} /\ ActiveOf({i}) = {t} /\ t \in Tasks
            BY <1>3, <3>1, <3>3 DEF AgreeAs
        <3>5. stat[i] \in {"COOKED", "SERVING", "SERVED"}
            BY <3>3, <3>4 DEF Becomes
        <3>6. Becomes(i, After(kind))'
            BY <1>1, <1>2, <1>3, <3>1, <3>4, <3>5, LastPublished
        <3>7. OnlyWork(k, i)' /\ NoMessage(i)' /\ ~over'
            BY <1>2, <1>5, <1>6, <2>3, <3>2, <3>4 DEF Quiet, NoWork, OnlyWork, NoMessage, Concerns
        <3>8. ActiveOf({i})' = {t}
            BY <1>2, <3>4 DEF ActiveOf, Active
        <3>9. Writes(k, t, i)'
            <4>1. \A u \in DOMAIN rows : rows[u].item = i => u = t
                BY <1>3, <3>4
            <4> QED
                BY <1>2, <1>5, <1>6, <3>1, <4>1 DEF Writes
        <3>10. Becomes(i, Shown(tx[k].rows[t].status))'
            BY <1>5, <1>6, <3>1, <3>6 DEF Becomes
        <3>11. Updating(i)'
            BY <3>4, <3>7, <3>8, <3>9, <3>10 DEF Updating
        <3> QED
            BY <3>11 DEF Situation
    <2> QED
        BY <2>2, <2>3
<1> QED
    BY <1>7, <1>8, <1>9 DEF SInv

(* Each request of a server prepares rows that go with what it publishes.  *)
LEMMA CatchKeeps ==
    ASSUME SInv, NEW k \in Threads, NEW w \in Servers, NEW t \in Tasks, CatchCall(k, w, t)
    PROVE  SInv'
<1> DEFINE rows == [u \in {t} |-> Given(t, "SERVING", w)]
<1>1. Active(t) /\ task[t] \in Row /\ task[t].status = "SERVE_REQUESTED"
    BY ActiveRows DEF CatchCall, SInv, Active
<1>2. /\ rows[t] \in Row /\ rows[t].item = task[t].item /\ rows[t].status = "SERVING"
    BY <1>1 DEF Given, Row, TaskStatus
<1>3. DOMAIN rows = {t} /\ rows \in [{t} -> Row]
    BY <1>2
<1>4. Begin(k, rows, {t}, "serving") /\ lock' \subseteq Tasks /\ {t} \in SUBSET Tasks
    BY DEF CatchCall, SInv, Types
<1>5. Shown(rows[t].status) = After("serving")
    BY <1>2 DEF Shown, After
<1> HIDE DEF rows
<1>6. \A u \in DOMAIN rows :
            /\ Active(u) /\ rows[u].item = task[u].item
            /\ Shown(rows[u].status) = After("serving")
            /\ task[u].status = "SERVING" => rows[u].by \in {task[u].by, NoOne}
    BY <1>1, <1>2, <1>3, <1>5
<1> QED
    BY <1>3, <1>4, <1>6, BeginKeeps

LEMMA ReturnKeeps ==
    ASSUME SInv, NEW k \in Threads, NEW held \in SUBSET Tasks,
           \A t \in held : task[t].status = "SERVING",
           Begin(k, [t \in held |-> Given(t, "SERVE_REQUESTED", NoOne)], {}, "cooked"),
           UNCHANGED lock
    PROVE  SInv'
<1> DEFINE rows == [t \in held |-> Given(t, "SERVE_REQUESTED", NoOne)]
<1>1. \A t \in held : Active(t) /\ task[t] \in Row
    BY ActiveRows DEF SInv, Active
<1>2. \A t \in held : /\ rows[t] \in Row /\ rows[t].item = task[t].item
                      /\ rows[t].status = "SERVE_REQUESTED" /\ rows[t].by = NoOne
    BY <1>1 DEF Given, Row, TaskStatus
<1>3. DOMAIN rows = held /\ rows \in [held -> Row]
    BY <1>2
<1>4. lock' \subseteq Tasks
    BY DEF SInv, Types
<1>5. \A t \in held : Shown(rows[t].status) = After("cooked")
    BY <1>2 DEF Shown, After
<1>6. Begin(k, rows, {}, "cooked")
    OBVIOUS
<1> HIDE DEF rows
<1>7. \A u \in DOMAIN rows :
            /\ Active(u) /\ rows[u].item = task[u].item
            /\ Shown(rows[u].status) = After("cooked")
            /\ task[u].status = "SERVING" => rows[u].by \in {task[u].by, NoOne}
    BY <1>1, <1>2, <1>3, <1>5
<1> QED
    BY <1>3, <1>4, <1>6, <1>7, BeginKeeps

LEMMA CompleteKeeps ==
    ASSUME SInv, NEW k \in Threads, NEW w \in Servers, NEW t \in Tasks, CompleteCall(k, w, t)
    PROVE  SInv'
<1> DEFINE rows == [u \in {t} |-> Given(t, "SERVED", w)]
<1>1. Active(t) /\ task[t] \in Row /\ task[t].by = w
    BY ActiveRows DEF CompleteCall, HeldBy, SInv, Active
<1>2. /\ rows[t] \in Row /\ rows[t].item = task[t].item
      /\ rows[t].status = "SERVED" /\ rows[t].by = w
    BY <1>1 DEF Given, Row, TaskStatus
<1>3. DOMAIN rows = {t} /\ rows \in [{t} -> Row]
    BY <1>2
<1>4. Begin(k, rows, {}, "served") /\ lock' \subseteq Tasks
    BY DEF CompleteCall, SInv, Types
<1>5. Shown(rows[t].status) = After("served")
    BY <1>2 DEF Shown, After
<1> HIDE DEF rows
<1>6. \A u \in DOMAIN rows :
            /\ Active(u) /\ rows[u].item = task[u].item
            /\ Shown(rows[u].status) = After("served")
            /\ task[u].status = "SERVING" => rows[u].by \in {task[u].by, NoOne}
    BY <1>1, <1>2, <1>3, <1>5
<1> QED
    BY <1>3, <1>4, <1>6, BeginKeeps

LEMMA ServersKeep ==
    ASSUME SInv, ServerRequest
    PROVE  SInv'
<1>1. ASSUME NEW k \in Threads, NEW w \in Servers, NEW t \in Tasks, CancelCall(k, w, t)
      PROVE  SInv'
    <2>1. [u \in {t} |-> Given(t, "SERVE_REQUESTED", NoOne)]
            = [u \in {t} |-> Given(u, "SERVE_REQUESTED", NoOne)]
        OBVIOUS
    <2>2. \A u \in {t} : task[u].status = "SERVING"
        BY <1>1 DEF CancelCall, HeldBy
    <2>3. Begin(k, [u \in {t} |-> Given(u, "SERVE_REQUESTED", NoOne)], {}, "cooked")
        BY <1>1, <2>1 DEF CancelCall
    <2> QED
        BY <1>1, <2>2, <2>3, ReturnKeeps DEF CancelCall
<1>2. ASSUME NEW k \in Threads, NEW w \in Servers, ReleaseBySession(k, SessionOf[w])
      PROVE  SInv'
    <2> DEFINE held == {t \in Tasks : \E v \in Servers :
                            HeldBy(t, v) /\ SessionOf[v] = SessionOf[w]}
    <2>1. held \in SUBSET Tasks /\ \A t \in held : task[t].status = "SERVING"
        BY DEF HeldBy
    <2>2. /\ Begin(k, [t \in held |-> Given(t, "SERVE_REQUESTED", NoOne)], {}, "cooked")
          /\ UNCHANGED lock
        BY <1>2 DEF ReleaseBySession
    <2> HIDE DEF held
    <2> QED
        BY <2>1, <2>2, ReturnKeeps
<1> QED
    BY <1>1, <1>2, CatchKeeps, CompleteKeeps DEF ServerRequest

-----------------------------------------------------------------------------
(* Spring's locks, its listener and its commits.                           *)

LEMMA UnlockKeeps ==
    ASSUME SInv, NEW k \in Threads, Unlock(k)
    PROVE  SInv'
<1> DEFINE new == [tx[k] EXCEPT !.locked = {}]
<1>1. Types /\ Prepared /\ \A i \in Items : calm[i] => Situation(i)
    BY DEF SInv
<1>2. /\ tx[k] \in Updates /\ tx' = [tx EXCEPT ![k] = new]
      /\ lock' = lock \ tx[k].locked
      /\ UNCHANGED <<stat, over, task, toSpring, toDjango, calm>>
    BY <1>1, Kinds DEF Unlock
<1>3. /\ new \in Updates /\ new.op = "update" /\ tx[k].op = "update"
      /\ new.rows = tx[k].rows /\ new.of = tx[k].of
      /\ new # Idle /\ tx[k] # Idle
    BY <1>2 DEF Updates, Idle
<1> HIDE DEF new
<1>4. tx'[k] = new /\ \A j \in Threads : j # k => tx'[j] = tx[j]
    BY <1>1, <1>2 DEF Types
<1>5. Types'
    BY <1>1, <1>2, <1>3 DEF Types
<1>6. Prepared'
    BY <1>1, <1>2, <1>3, <1>4 DEF Prepared, Exists
<1>7. ASSUME NEW i \in Items, calm'[i]
      PROVE  Situation(i)'
    <2>1. Situation(i)
        BY <1>1, <1>2, <1>7
    <2>2. SameRows(i) /\ SameMessages(i) /\ NewsKept(i)
        BY <1>2, NoNews DEF SameRows, SameMessages, ActiveOf, Active
    <2>3. SameWork(i)
        BY <1>3, <1>4 DEF SameWork, Concerns
    <2> QED
        BY <1>1, <2>1, <2>2, <2>3, NotAbout
<1> QED
    BY <1>5, <1>6, <1>7 DEF SInv

LEMMA LockExpiresKeeps ==
    ASSUME SInv, NEW t \in Tasks, LockExpires(t)
    PROVE  SInv'
<1>1. /\ lock' = lock \ {t}
      /\ UNCHANGED <<stat, over, task, tx, toSpring, toDjango, calm>>
    BY DEF LockExpires
<1>2. Types' /\ Prepared'
    BY <1>1 DEF SInv, Types, Prepared, Exists
<1>3. ASSUME NEW i \in Items, calm'[i]
      PROVE  Situation(i)'
    <2>1. Situation(i)
        BY <1>1, <1>3 DEF SInv
    <2>2. SameRows(i) /\ SameMessages(i) /\ SameWork(i)
        BY <1>1 DEF SameRows, SameMessages, SameWork, Concerns, ActiveOf, Active
    <2> QED
        BY <1>1, <2>1, <2>2, NoNews, NotAbout DEF SInv
<1> QED
    BY <1>2, <1>3 DEF SInv

(* A message that Spring has received is gone, for the items it is about.  *)
LEMMA ReceivedOnce ==
    ASSUME SInv, NEW m, Received(m)
    PROVE  /\ m \in DOMAIN toSpring /\ m \in MessageToSpring
           /\ IsABag(toSpring') /\ DOMAIN toSpring' \subseteq DOMAIN toSpring
           /\ \A i \in Items : i \notin m.of => SameMessages(i)
           /\ \A i \in m.of : i \in Items
           /\ \A i \in m.of : calm[i] =>
                /\ OnlyMessage(m, i) /\ NoMessage(i)'
                /\ IF m.kind = "cooked" THEN Asked(i) ELSE Clearing(i)
<1>1. /\ IsABag(toSpring) /\ m \in DOMAIN toSpring /\ m \in MessageToSpring
      /\ toSpring' = toSpring (-) SetToBag({m})
    BY DEF Received, BagIn, BagToSet, SInv, Types
<1>2. /\ IsABag(toSpring') /\ DOMAIN toSpring' \subseteq DOMAIN toSpring
      /\ \A l \in DOMAIN toSpring :
            l # m => l \in DOMAIN toSpring' /\ toSpring'[l] = toSpring[l]
      /\ toSpring[m] = 1 => m \notin DOMAIN toSpring'
    BY <1>1, MessageRemoved
<1>3. ASSUME NEW i \in Items, i \notin m.of
      PROVE  SameMessages(i)
    BY <1>2, <1>3 DEF SameMessages
<1>4. ASSUME NEW i \in m.of
      PROVE  i \in Items
    BY <1>1 DEF MessageToSpring, About
<1>5. ASSUME NEW i \in m.of, calm[i]
      PROVE  /\ OnlyMessage(m, i) /\ NoMessage(i)'
             /\ IF m.kind = "cooked" THEN Asked(i) ELSE Clearing(i)
    <2>1. Situation(i)
        BY <1>4, <1>5 DEF SInv
    <2>2. ~NoMessage(i)
        BY <1>1 DEF NoMessage
    <2>3. Asked(i) \/ Clearing(i)
        BY <2>1, <2>2 DEF Situation, Quiet, Inserting, Deleting, Updating
    <2>4. PICK l \in DOMAIN toSpring :
            OnlyMessage(l, i) /\ l.kind = IF Asked(i) THEN "cooked" ELSE "remove"
        BY <2>3 DEF Asked, Clearing
    <2>5. l = m
        BY <1>1, <2>4 DEF OnlyMessage
    <2>6. NoMessage(i)'
        BY <1>2, <2>4, <2>5 DEF OnlyMessage, NoMessage
    <2> QED
        BY <2>3, <2>4, <2>5, <2>6
<1> QED
    BY <1>1, <1>2, <1>3, <1>4, <1>5

(* Items that neither a message nor the transaction it starts is about.    *)
LEMMA OthersHandled ==
    ASSUME SInv, NEW m, Received(m), NEW k \in Threads, tx[k] = Idle,
           tx' = tx \/ \E new : new.of = m.of /\ tx' = [tx EXCEPT ![k] = new],
           UNCHANGED <<stat, over, task, toDjango, calm>>,
           NEW i \in Items, i \notin m.of, calm'[i]
    PROVE  Situation(i)'
<1>1. Situation(i)
    BY DEF SInv
<1>2. SameMessages(i)
    BY ReceivedOnce
<1>3. SameRows(i) /\ NewsKept(i)
    BY NoNews DEF SameRows, ActiveOf, Active
<1>4. SameWork(i)
    <2>1. CASE tx' = tx
        BY <2>1 DEF SameWork, Concerns
    <2>2. ASSUME NEW new, new.of = m.of, tx' = [tx EXCEPT ![k] = new]
          PROVE  SameWork(i)
        <3>1. tx'[k] = new /\ \A j \in Threads : j # k => tx'[j] = tx[j]
            BY <2>2 DEF SInv, Types
        <3> QED
            BY <2>2, <3>1 DEF SameWork, Concerns
    <2> QED
        BY <2>1, <2>2
<1> QED
    BY <1>1, <1>2, <1>3, <1>4, NotAbout DEF SInv

LEMMA HandleCookedKeeps ==
    ASSUME SInv, NEW m, NEW k \in Threads, HandleCooked(k, m)
    PROVE  SInv'
<1>1. /\ Types /\ Prepared /\ \A i \in Items : calm[i] => Situation(i)
      /\ m.kind = "cooked" /\ Received(m) /\ tx[k] = Idle
      /\ UNCHANGED <<stat, over, task, lock, toDjango, calm>>
    BY DEF SInv, HandleCooked
<1>2. /\ m \in DOMAIN toSpring /\ m \in MessageToSpring
      /\ IsABag(toSpring') /\ DOMAIN toSpring' \subseteq DOMAIN toSpring
    BY <1>1, ReceivedOnce
<1>3. PICK i \in Items : m.of = {i}
    BY <1>1, <1>2 DEF Prepared, BagToSet
<1> DEFINE new == [op |-> "insert", item |-> i, of |-> m.of]
<1>4. tx' = IF ActiveOf({i}) # {} THEN tx ELSE [tx EXCEPT ![k] = new]
    BY <1>3 DEF HandleCooked
<1>5. /\ new \in Inserts /\ new.op = "insert" /\ new.item = i /\ new.of = {i} /\ new.of = m.of
      /\ new # Idle
    BY <1>2, <1>3 DEF Inserts, MessageToSpring, Idle
<1> HIDE DEF new
<1>6. /\ tx'[k] = tx[k] \/ tx'[k] = new
      /\ \A j \in Threads : j # k => tx'[j] = tx[j]
    BY <1>1, <1>4 DEF Types
<1>7. Types'
    <2>1. tx' \in [Threads -> {Idle} \cup Updates \cup Inserts \cup Deletes]
        BY <1>1, <1>4, <1>5 DEF Types
    <2> QED
        BY <1>1, <1>2, <2>1 DEF Types
<1>8. Prepared'
    <2>1. \A j \in Threads : tx'[j] = tx[j] \/ tx'[j] = new
        BY <1>6
    <2> QED
        BY <1>1, <1>2, <1>5, <2>1 DEF Prepared, Exists, BagToSet
<1>9. ASSUME NEW j \in Items, calm'[j]
      PROVE  Situation(j)'
    <2>1. CASE j # i
        BY <1>1, <1>3, <1>4, <1>5, <1>9, <2>1, OthersHandled
    <2>2. CASE j = i
        <3>1. Asked(i) /\ NoMessage(i)'
            BY <1>1, <1>3, <1>9, <2>2, ReceivedOnce
        <3>2. Wanted(i)'
            BY <1>1, <3>1 DEF Asked, Wanted, Queued, ActiveOf, Active
        <3>3. tx'[k] = new /\ \A l \in Threads : l # k => tx'[l] = tx[l]
            BY <1>1, <1>4, <3>1 DEF Asked, Wanted, Types
        <3>4. OnlyWork(k, i)'
            BY <1>5, <3>1, <3>3 DEF OnlyWork, Asked, NoWork, Concerns
        <3>5. Inserting(i)'
            BY <1>5, <3>1, <3>2, <3>3, <3>4 DEF Inserting
        <3> QED
            BY <2>2, <3>5 DEF Situation
    <2> QED
        BY <2>1, <2>2
<1> QED
    BY <1>7, <1>8, <1>9 DEF SInv

LEMMA HandleRemoveKeeps ==
    ASSUME SInv, NEW m, NEW k \in Threads, HandleRemove(k, m)
    PROVE  SInv'
<1>1. /\ Types /\ Prepared /\ \A i \in Items : calm[i] => Situation(i)
      /\ m.kind = "remove" /\ Received(m) /\ tx[k] = Idle
      /\ UNCHANGED <<stat, over, task, lock, toDjango, calm>>
    BY DEF SInv, HandleRemove
<1>2. /\ m \in DOMAIN toSpring /\ m \in MessageToSpring
      /\ IsABag(toSpring') /\ DOMAIN toSpring' \subseteq DOMAIN toSpring
    BY <1>1, ReceivedOnce
<1> DEFINE new == [op |-> "delete", ids |-> ActiveOf(m.of), of |-> m.of]
<1>4. tx' = IF ActiveOf(m.of) = {} THEN tx ELSE [tx EXCEPT ![k] = new]
    BY DEF HandleRemove
<1>5. /\ new \in Deletes /\ new.op = "delete" /\ new.ids = ActiveOf(m.of) /\ new.of = m.of
      /\ new # Idle
    <2>1. ActiveOf(m.of) \in SUBSET Tasks /\ m.of \in About
        BY <1>2 DEF ActiveOf, MessageToSpring
    <2> QED
        BY <2>1 DEF Deletes, Idle
<1> HIDE DEF new
<1>6. /\ tx'[k] = tx[k] \/ tx'[k] = new
      /\ \A j \in Threads : j # k => tx'[j] = tx[j]
    BY <1>1, <1>4 DEF Types
<1>7. Types'
    <2>1. tx' \in [Threads -> {Idle} \cup Updates \cup Inserts \cup Deletes]
        BY <1>1, <1>4, <1>5 DEF Types
    <2> QED
        BY <1>1, <1>2, <2>1 DEF Types
<1>8. Prepared'
    <2>1. \A j \in Threads : tx'[j] = tx[j] \/ tx'[j] = new
        BY <1>6
    <2>2. \A t \in ActiveOf(m.of) : task[t] # Unborn /\ task[t].item \in m.of
        BY <1>1, ActiveRows DEF Exists
    <2> QED
        BY <1>1, <1>2, <1>5, <2>1, <2>2 DEF Prepared, Exists, BagToSet
<1>9. ASSUME NEW i \in Items, calm'[i]
      PROVE  Situation(i)'
    <2>1. CASE i \notin m.of
        BY <1>1, <1>4, <1>5, <1>9, <2>1, OthersHandled
    <2>2. CASE i \in m.of
        <3>1. Clearing(i) /\ NoMessage(i)'
            BY <1>1, <1>9, <2>2, ReceivedOnce
        <3>2. Unwanted(i)' /\ ActiveOf({i})' = ActiveOf({i}) /\ ActiveOf({i}) \subseteq ActiveOf(m.of)
            BY <1>1, <2>2, <3>1 DEF Clearing, Unwanted, Queued, ToServe, ActiveOf, Active
        <3>3. CASE tx' = tx /\ ActiveOf(m.of) = {}
            <4>1. NoWork(i)'
                BY <3>1, <3>3 DEF Clearing, NoWork, Concerns
            <4>2. ActiveOf({i})' = {}
                BY <3>2, <3>3
            <4>3. Becomes(i, stat[i])' /\ AgreeAs(i, stat[i])' /\ stat'[i] \in ItemStatus
                BY <1>7, <3>2, <4>2 DEF Unwanted, Becomes, AgreeAs, ToServe, Types
            <4>4. Quiet(i)'
                BY <3>1, <4>1, <4>3 DEF Quiet
            <4> QED
                BY <4>4 DEF Situation
        <3>4. CASE tx' = [tx EXCEPT ![k] = new]
            <4>1. tx'[k] = new /\ \A l \in Threads : l # k => tx'[l] = tx[l]
                BY <1>1, <3>4 DEF Types
            <4>2. OnlyWork(k, i)'
                BY <1>5, <2>2, <3>1, <4>1 DEF OnlyWork, Clearing, NoWork, Concerns
            <4>3. Deleting(i)'
                BY <1>5, <3>1, <3>2, <4>1, <4>2 DEF Deleting
            <4> QED
                BY <4>3 DEF Situation
        <3> QED
            BY <1>4, <3>3, <3>4
    <2> QED
        BY <2>1, <2>2
<1> QED
    BY <1>7, <1>8, <1>9 DEF SInv

(* A transaction ends: an item it was not about stays as it was, and what  *)
(* the others have prepared stays right.                                   *)
LEMMA OthersEnded ==
    ASSUME SInv, NEW k \in Threads, Done(k), NEW i \in Items,
           ~Concerns(k, i), SameRows(i), calm[i]
    PROVE  Situation(i)'
<1>1. /\ tx' = [tx EXCEPT ![k] = Idle]
      /\ UNCHANGED <<stat, over, lock, toSpring, toDjango>>
    BY DEF Done
<1>2. tx'[k] = Idle /\ \A j \in Threads : j # k => tx'[j] = tx[j]
    BY <1>1 DEF SInv, Types
<1>3. SameWork(i)
    BY <1>2 DEF SameWork, Concerns
<1>4. SameMessages(i) /\ NewsKept(i)
    BY <1>1, NoNews DEF SameMessages
<1>5. Types /\ Situation(i)
    BY DEF SInv
<1> QED
    BY <1>3, <1>4, <1>5, NotAbout

LEMMA PreparedEnded ==
    ASSUME SInv, NEW k \in Threads, Done(k),
           \A t \in Tasks : task[t] # Unborn =>
                task'[t] # Unborn /\ (Exists(t)' => Exists(t) /\ task'[t].item = task[t].item)
    PROVE  Prepared'
<1>1. Types /\ Prepared /\ toSpring' = toSpring
    BY DEF SInv, Done
<1>2. \A j \in Threads : tx'[j] = tx[j] \/ tx'[j] = Idle
    BY DEF SInv, Types, Done
<1>3. Idle.op = "idle"
    BY DEF Idle
<1>4. ASSUME NEW j \in Threads, tx'[j].op = "update", NEW t \in DOMAIN tx'[j].rows
      PROVE  /\ task'[t] # Unborn /\ tx'[j].rows[t].item \in tx'[j].of
             /\ Exists(t)' => tx'[j].rows[t].item = task'[t].item
    <2>1. tx'[j] = tx[j]
        BY <1>2, <1>3, <1>4
    <2>2. t \in Tasks
        BY <1>1, <1>4, <2>1, Kinds, UpdateFields
    <2> QED
        BY <1>1, <1>4, <2>1, <2>2 DEF Prepared
<1>5. ASSUME NEW j \in Threads, tx'[j].op = "insert"
      PROVE  tx'[j].of = {tx'[j].item}
    BY <1>1, <1>2, <1>3, <1>5 DEF Prepared
<1>6. ASSUME NEW j \in Threads, tx'[j].op = "delete", NEW t \in tx'[j].ids
      PROVE  task'[t] # Unborn /\ (Exists(t)' => task'[t].item \in tx'[j].of)
    <2>1. tx'[j] = tx[j]
        BY <1>2, <1>3, <1>6
    <2>2. tx[j] \in Deletes
        BY <1>1, <1>6, <2>1, Kinds
    <2>3. t \in Tasks
        BY <1>6, <2>1, <2>2 DEF Deletes
    <2> QED
        BY <1>1, <1>6, <2>1, <2>3 DEF Prepared
<1> QED
    BY <1>1, <1>4, <1>5, <1>6 DEF Prepared

LEMMA TypesEnded ==
    ASSUME SInv, NEW k \in Threads, Done(k),
           task' \in [Tasks -> Row \cup {Unborn, Deleted}], calm' \in [Items -> BOOLEAN]
    PROVE  Types'
BY DEF SInv, Types, Done

(* A transaction that fails leaves its own items uncalm.                   *)
LEMMA FailedKeeps ==
    ASSUME SInv, NEW k \in Threads, tx[k] # Idle, Done(k), UNCHANGED task,
           calm' = Undisturbed(tx[k].of, FALSE)
    PROVE  SInv'
<1>1. Types'
    BY TypesEnded DEF Undisturbed, SInv, Types
<1>2. Prepared'
    BY PreparedEnded DEF Exists
<1>3. ASSUME NEW i \in Items, calm'[i]
      PROVE  Situation(i)'
    <2>1. calm[i] /\ ~Concerns(k, i)
        BY <1>3 DEF Undisturbed, Concerns
    <2>2. SameRows(i)
        BY DEF SameRows, ActiveOf, Active
    <2> QED
        BY <2>1, <2>2, OthersEnded
<1> QED
    BY <1>1, <1>2, <1>3 DEF SInv

LEMMA AbortKeeps ==
    ASSUME SInv, NEW k \in Threads, Abort(k)
    PROVE  SInv'
BY FailedKeeps DEF Abort

(* A calm item that a transaction is about is in the situation which that  *)
(* transaction makes.                                                      *)
LEMMA WorkedOn ==
    ASSUME SInv, NEW k \in Threads, NEW i \in Items, calm[i], Concerns(k, i)
    PROVE  /\ OnlyWork(k, i) /\ NoMessage(i)
           /\ tx[k].op = "update" => Updating(i)
           /\ tx[k].op = "insert" => Inserting(i)
           /\ tx[k].op = "delete" => Deleting(i)
<1>1. Situation(i) /\ ~NoWork(i)
    BY DEF SInv, NoWork
<1>2. Inserting(i) \/ Deleting(i) \/ Updating(i)
    BY <1>1 DEF Situation, Quiet, Asked, Clearing
<1>3. CASE Inserting(i)
    <2>1. PICK j \in Threads : OnlyWork(j, i) /\ tx[j].op = "insert" /\ tx[j].item = i
        BY <1>3 DEF Inserting
    <2>2. j = k
        BY <2>1 DEF OnlyWork
    <2> QED
        BY <1>3, <2>1, <2>2 DEF Inserting
<1>4. CASE Deleting(i)
    <2>1. PICK j \in Threads : OnlyWork(j, i) /\ tx[j].op = "delete"
        BY <1>4 DEF Deleting
    <2>2. j = k
        BY <2>1 DEF OnlyWork
    <2> QED
        BY <1>4, <2>1, <2>2 DEF Deleting
<1>5. CASE Updating(i)
    <2>1. PICK j \in Threads, t \in Tasks : OnlyWork(j, i) /\ Writes(j, t, i)
        BY <1>5 DEF Updating
    <2>2. j = k /\ tx[k].op = "update"
        BY <2>1 DEF OnlyWork, Writes
    <2> QED
        BY <1>5, <2>1, <2>2 DEF Updating
<1> QED
    BY <1>2, <1>3, <1>4, <1>5

(* When the only transaction about it has ended, nothing is about it.      *)
LEMMA WorkEnded ==
    ASSUME SInv, NEW k \in Threads, NEW i \in Items, OnlyWork(k, i), NoMessage(i), Done(k)
    PROVE  NoWork(i)' /\ NoMessage(i)'
<1>1. tx'[k] = Idle /\ \A j \in Threads : j # k => tx'[j] = tx[j]
    BY DEF SInv, Types, Done
<1>2. toSpring' = toSpring
    BY DEF Done
<1> QED
    BY <1>1, <1>2 DEF OnlyWork, NoWork, NoMessage, Concerns

LEMMA UpdateKeeps ==
    ASSUME SInv, NEW k \in Threads, CommitUpdate(k)
    PROVE  SInv'
<1> DEFINE rows == tx[k].rows
<1>1. /\ Types /\ Prepared /\ tx[k] \in Updates /\ tx[k].op = "update" /\ tx[k] # Idle
      /\ Write(k, rows) /\ Done(k)
    BY Kinds DEF SInv, CommitUpdate, Write
<1>2. /\ DOMAIN rows \in SUBSET Tasks /\ \A t \in DOMAIN rows : rows[t] \in Row
      /\ tx[k].of \in SUBSET Items
    BY <1>1, UpdateFields
<1>3. CASE ~(\A t \in DOMAIN rows : Exists(t))
    <2>1. UNCHANGED task /\ calm' = Undisturbed(tx[k].of, FALSE)
        BY <1>1, <1>3 DEF Write
    <2> QED
        BY <1>1, <2>1, FailedKeeps
<1>4. CASE \A t \in DOMAIN rows : Exists(t)
    <2>1. /\ task' = [t \in Tasks |-> IF t \in DOMAIN rows THEN rows[t] ELSE task[t]]
          /\ calm' = calm
        BY <1>1, <1>4 DEF Write
    <2>2. \A t \in DOMAIN rows :
            /\ rows[t].item = task[t].item /\ task[t].item \in tx[k].of
            /\ task'[t] = rows[t]
        BY <1>1, <1>2, <1>4, <2>1 DEF Prepared
    <2>3. \A t \in Tasks : t \notin DOMAIN rows => task'[t] = task[t]
        BY <2>1
    <2>4. Types'
        <3>1. task' \in [Tasks -> Row \cup {Unborn, Deleted}]
            BY <1>1, <1>2, <2>1 DEF Types
        <3> QED
            BY <1>1, <2>1, <3>1, TypesEnded DEF Types
    <2>5. Prepared'
        <3>1. ASSUME NEW t \in Tasks, task[t] # Unborn
              PROVE  task'[t] # Unborn /\ (Exists(t)' => Exists(t) /\ task'[t].item = task[t].item)
            <4>1. CASE t \in DOMAIN rows
                <5>1. task'[t] \in Row
                    BY <1>2, <2>2, <4>1
                <5>2. task'[t] # Unborn
                    BY <5>1 DEF Row, Unborn
                <5> QED
                    BY <1>4, <2>2, <4>1, <5>2
            <4>2. CASE t \notin DOMAIN rows
                BY <2>3, <3>1, <4>2 DEF Exists
            <4> QED
                BY <4>1, <4>2
        <3> QED
            BY <1>1, <3>1, PreparedEnded
    <2>6. ASSUME NEW i \in Items, calm'[i]
          PROVE  Situation(i)'
        <3>1. CASE i \notin tx[k].of
            <4>1. ActiveOf({i})' = ActiveOf({i})
                BY <2>2, <2>3, <3>1 DEF ActiveOf, Active
            <4>2. \A t \in ActiveOf({i}) : task'[t] = task[t]
                BY <2>2, <2>3, <3>1 DEF ActiveOf
            <4> QED
                BY <1>1, <2>1, <2>6, <3>1, <4>1, <4>2, OthersEnded DEF SameRows, Concerns
        <3>2. CASE i \in tx[k].of
            <4>1. OnlyWork(k, i) /\ NoMessage(i) /\ Updating(i)
                BY <1>1, <2>1, <2>6, <3>2, WorkedOn DEF Concerns
            <4>2. PICK j \in Threads, t \in Tasks :
                    /\ OnlyWork(j, i) /\ Writes(j, t, i) /\ ActiveOf({i}) = {t}
                    /\ Becomes(i, Shown(tx[j].rows[t].status))
                BY <4>1 DEF Updating
            <4>3. j = k
                BY <1>1, <3>2, <4>2 DEF OnlyWork, Concerns
            <4>4. /\ t \in DOMAIN rows /\ rows[t].item = i
                  /\ \A u \in DOMAIN rows : rows[u].item = i => u = t
                BY <4>2, <4>3 DEF Writes
            <4>5. rows[t].status \in TaskStatus
                BY <1>2, <4>4 DEF Row
            <4>6. PICK s \in ItemStatus : s = Shown(rows[t].status)
                BY DEF Shown, ItemStatus, Targets
            <4>7. \A u \in Tasks : u # t =>
                    task'[u] = task[u] \/ (task'[u].item # i /\ task[u].item # i)
                BY <2>2, <2>3, <4>4
            <4>8. \A u \in Tasks : u # t => u \notin ActiveOf({i})'
                BY <4>2, <4>7 DEF ActiveOf, Active
            <4>9. t \in ActiveOf({i})' <=> rows[t].status # "SERVED"
                BY <2>2, <4>4, <4>5 DEF ActiveOf, Active, TaskStatus
            <4>10. AgreeAs(i, s)'
                <5>1. ~over'
                    BY <1>1, <4>1 DEF Updating, Done
                <5>2. CASE rows[t].status = "SERVED"
                    <6>1. s = "SERVED" /\ ActiveOf({i})' = {}
                        BY <4>6, <4>8, <4>9, <5>2 DEF Shown, ActiveOf
                    <6> QED
                        BY <5>1, <6>1 DEF AgreeAs
                <5>3. CASE rows[t].status # "SERVED"
                    <6>1. ActiveOf({i})' = {t}
                        BY <4>8, <4>9, <5>3 DEF ActiveOf
                    <6>2. s \in {"COOKED", "SERVING"} /\ (task'[t].status = "SERVING" <=> s = "SERVING")
                        BY <2>2, <4>4, <4>6, <5>3 DEF Shown
                    <6> QED
                        BY <5>1, <6>1, <6>2 DEF AgreeAs
                <5> QED
                    BY <5>2, <5>3
            <4>11. Becomes(i, s)'
                <5>1. Becomes(i, s)
                    BY <4>2, <4>3, <4>6
                <5>2. UNCHANGED <<over, toDjango, stat>>
                    BY <1>1 DEF Done
                <5> QED
                    BY <4>6, <5>1, <5>2 DEF Becomes, Queued
            <4>12. NoWork(i)' /\ NoMessage(i)'
                BY <1>1, <4>1, WorkEnded
            <4>13. Quiet(i)'
                BY <4>10, <4>11, <4>12 DEF Quiet
            <4> QED
                BY <4>13 DEF Situation
        <3> QED
            BY <3>1, <3>2
    <2> QED
        BY <2>4, <2>5, <2>6 DEF SInv
<1> QED
    BY <1>3, <1>4

LEMMA InsertKeeps ==
    ASSUME SInv, NEW k \in Threads, CommitInsert(k)
    PROVE  SInv'
<1>1. /\ Types /\ Prepared /\ tx[k] \in Inserts /\ tx[k].op = "insert" /\ tx[k] # Idle
      /\ Done(k) /\ calm' = calm
    BY Kinds DEF SInv, CommitInsert
<1> DEFINE new == [item |-> tx[k].item, status |-> "SERVE_REQUESTED", by |-> NoOne]
<1>2. PICK t \in Tasks : task[t] = Unborn /\ task' = [task EXCEPT ![t] = new]
    BY DEF CommitInsert
<1>3. /\ new \in Row /\ new.item = tx[k].item /\ new.status = "SERVE_REQUESTED"
      /\ tx[k].of = {tx[k].item} /\ tx[k].item \in Items
    BY <1>1 DEF Row, TaskStatus, Inserts, Prepared
<1> HIDE DEF new
<1>4. task'[t] = new /\ \A u \in Tasks : u # t => task'[u] = task[u]
    BY <1>1, <1>2 DEF Types
<1>5. Types'
    <2>1. task' \in [Tasks -> Row \cup {Unborn, Deleted}]
        BY <1>1, <1>2, <1>3 DEF Types
    <2> QED
        BY <1>1, <2>1, TypesEnded DEF Types
<1>6. Prepared'
    <2>1. \A u \in Tasks : task[u] # Unborn => task'[u] = task[u]
        BY <1>2, <1>4
    <2> QED
        BY <1>1, <2>1, PreparedEnded DEF Exists
<1>7. ASSUME NEW i \in Items, calm'[i]
      PROVE  Situation(i)'
    <2>1. ~Active(t)
        BY <1>2 DEF Active, Unborn
    <2>2. CASE i # tx[k].item
        <3>1. ActiveOf({i})' = ActiveOf({i})
            BY <1>3, <1>4, <2>1, <2>2 DEF ActiveOf, Active
        <3>2. \A u \in ActiveOf({i}) : task'[u] = task[u]
            BY <1>4, <2>1 DEF ActiveOf
        <3>3. ~Concerns(k, i)
            BY <1>3, <2>2 DEF Concerns
        <3> QED
            BY <1>1, <1>7, <3>1, <3>2, <3>3, OthersEnded DEF SameRows
    <2>3. CASE i = tx[k].item
        <3>1. OnlyWork(k, i) /\ NoMessage(i) /\ Wanted(i)
            BY <1>1, <1>3, <1>7, <2>3, WorkedOn DEF Concerns, Inserting
        <3>2. NoWork(i)' /\ NoMessage(i)'
            BY <1>1, <3>1, WorkEnded
        <3>3. ActiveOf({i})' = {t}
            BY <1>3, <1>4, <2>3, <3>1 DEF ActiveOf, Active, Wanted
        <3>4. AgreeAs(i, "COOKED")'
            BY <1>1, <1>3, <1>4, <3>1, <3>3 DEF AgreeAs, Wanted, Done
        <3>5. Becomes(i, "COOKED")'
            BY <1>1, <3>1 DEF Becomes, Queued, Wanted, Done
        <3>6. Quiet(i)'
            BY <3>2, <3>4, <3>5 DEF Quiet, ItemStatus, Targets
        <3> QED
            BY <3>6 DEF Situation
    <2> QED
        BY <2>2, <2>3
<1> QED
    BY <1>5, <1>6, <1>7 DEF SInv

LEMMA DeleteKeeps ==
    ASSUME SInv, NEW k \in Threads, CommitDelete(k)
    PROVE  SInv'
<1> DEFINE ids == tx[k].ids
           rows == [t \in ids |-> Deleted]
<1>1. /\ Types /\ Prepared /\ tx[k] \in Deletes /\ tx[k].op = "delete" /\ tx[k] # Idle
      /\ Write(k, rows) /\ Done(k)
    BY Kinds DEF SInv, CommitDelete, Write
<1>2. ids \subseteq Tasks
    BY <1>1 DEF Deletes
<1>3. CASE ~(\A t \in DOMAIN rows : Exists(t))
    <2>1. UNCHANGED task /\ calm' = Undisturbed(tx[k].of, FALSE)
        BY <1>1, <1>3 DEF Write
    <2> QED
        BY <1>1, <2>1, FailedKeeps
<1>4. CASE \A t \in DOMAIN rows : Exists(t)
    <2>1. /\ task' = [t \in Tasks |-> IF t \in DOMAIN rows THEN rows[t] ELSE task[t]]
          /\ calm' = calm
        BY <1>1, <1>4 DEF Write
    <2>2. /\ \A t \in ids : task'[t] = Deleted /\ Exists(t) /\ task[t].item \in tx[k].of
          /\ \A t \in Tasks : t \notin ids => task'[t] = task[t]
        BY <1>1, <1>2, <1>4, <2>1 DEF Prepared
    <2>3. \A t \in ids : ~Active(t)' /\ ~Exists(t)' /\ task'[t] # Unborn
        BY <2>2 DEF Active, Exists, Deleted, Unborn
    <2>4. Types'
        <3>1. task' \in [Tasks -> Row \cup {Unborn, Deleted}]
            BY <1>1, <2>1 DEF Types
        <3> QED
            BY <1>1, <2>1, <3>1, TypesEnded DEF Types
    <2>5. Prepared'
        <3>1. ASSUME NEW t \in Tasks, task[t] # Unborn
              PROVE  task'[t] # Unborn /\ (Exists(t)' => Exists(t) /\ task'[t].item = task[t].item)
            BY <2>2, <2>3, <3>1 DEF Exists
        <3> QED
            BY <1>1, <3>1, PreparedEnded
    <2>6. ASSUME NEW i \in Items, calm'[i]
          PROVE  Situation(i)'
        <3>1. CASE i \notin tx[k].of
            <4>1. ActiveOf({i})' = ActiveOf({i})
                BY <2>2, <2>3, <3>1 DEF ActiveOf, Active
            <4>2. \A t \in ActiveOf({i}) : task'[t] = task[t]
                BY <2>2, <3>1 DEF ActiveOf
            <4> QED
                BY <1>1, <2>1, <2>6, <3>1, <4>1, <4>2, OthersEnded DEF SameRows, Concerns
        <3>2. CASE i \in tx[k].of
            <4>1. OnlyWork(k, i) /\ NoMessage(i) /\ Deleting(i)
                BY <1>1, <2>1, <2>6, <3>2, WorkedOn DEF Concerns
            <4>2. PICK j \in Threads : OnlyWork(j, i) /\ ActiveOf({i}) \subseteq tx[j].ids
                BY <4>1 DEF Deleting
            <4>3. j = k
                BY <1>1, <3>2, <4>2 DEF OnlyWork, Concerns
            <4>4. ActiveOf({i})' = {}
                BY <2>2, <2>3, <4>2, <4>3 DEF ActiveOf, Active
            <4>5. NoWork(i)' /\ NoMessage(i)'
                BY <1>1, <4>1, WorkEnded
            <4>6. Unwanted(i)'
                BY <1>1, <4>1 DEF Deleting, Unwanted, Done, Queued, ToServe
            <4>7. Quiet(i)'
                BY <2>4, <4>4, <4>5, <4>6
                DEF Quiet, Unwanted, Becomes, AgreeAs, ToServe, Types
            <4> QED
                BY <4>7 DEF Situation
        <3> QED
            BY <3>1, <3>2
    <2> QED
        BY <2>4, <2>5, <2>6 DEF SInv
<1> QED
    BY <1>3, <1>4

-----------------------------------------------------------------------------
(* Requests of the booth's staff.                                          *)

LEMMA StaffTypes ==
    ASSUME SInv, UNCHANGED <<task, lock, tx, toDjango>>,
           stat' \in [Items -> ItemStatus], over' \in BOOLEAN, calm' \in [Items -> BOOLEAN],
           \/ toSpring' = toSpring
           \/ \E m \in MessageToSpring :
                /\ m.kind = "cooked" => \E i \in Items : m.of = {i}
                /\ toSpring' = toSpring (+) SetToBag({m})
    PROVE  Types' /\ Prepared'
<1>1. Types /\ Prepared /\ IsABag(toSpring) /\ DOMAIN toSpring \subseteq MessageToSpring
    BY DEF SInv, Types
<1>2. ASSUME NEW m \in MessageToSpring, m.kind = "cooked" => \E i \in Items : m.of = {i},
             toSpring' = toSpring (+) SetToBag({m})
      PROVE  /\ IsABag(toSpring') /\ DOMAIN toSpring' \subseteq MessageToSpring
             /\ \A l \in DOMAIN toSpring' : l.kind = "cooked" => \E i \in Items : l.of = {i}
    <2>1. IsABag(toSpring') /\ DOMAIN toSpring' = DOMAIN toSpring \cup {m}
        BY <1>1, <1>2, MessageAdded
    <2>2. \A l \in DOMAIN toSpring : l.kind = "cooked" => \E i \in Items : l.of = {i}
        BY <1>1 DEF Prepared, BagToSet
    <2> QED
        BY <1>1, <1>2, <2>1, <2>2
<1>3. /\ IsABag(toSpring') /\ DOMAIN toSpring' \subseteq MessageToSpring
      /\ \A l \in DOMAIN toSpring' : l.kind = "cooked" => \E i \in Items : l.of = {i}
    BY <1>1, <1>2 DEF Prepared, BagToSet
<1>4. Types'
    BY <1>1, <1>3 DEF Types
<1> QED
    BY <1>1, <1>3, <1>4 DEF Prepared, Exists, BagToSet

(* What is sent.                                                           *)
LEMMA SentIsMessage ==
    ASSUME NEW kind \in {"cooked", "remove"}, NEW S \in About
    PROVE  [kind |-> kind, of |-> S] \in MessageToSpring
BY DEF MessageToSpring

LEMMA AboutOne ==
    /\ \A i \in Items : {i} \in About
    /\ Items \in About
BY DEF About

(* An item that neither the request nor its message is about.              *)
LEMMA OthersUnasked ==
    ASSUME SInv, UNCHANGED <<task, tx, toDjango, over>>, NEW i \in Items,
           stat'[i] = stat[i], calm[i],
           \/ toSpring' = toSpring
           \/ \E m : i \notin m.of /\ toSpring' = toSpring (+) SetToBag({m})
    PROVE  Situation(i)'
<1>1. Types /\ Situation(i) /\ IsABag(toSpring)
    BY DEF SInv, Types
<1>2. SameRows(i) /\ SameWork(i) /\ NewsKept(i)
    BY NoNews DEF SameRows, SameWork, Concerns, ActiveOf, Active
<1>3. SameMessages(i)
    <2>1. ASSUME NEW m, i \notin m.of, toSpring' = toSpring (+) SetToBag({m})
          PROVE  SameMessages(i)
        <3>1. /\ DOMAIN toSpring' = DOMAIN toSpring \cup {m}
              /\ \A l \in DOMAIN toSpring : l # m => toSpring'[l] = toSpring[l]
            BY <1>1, <2>1, MessageAdded
        <3> QED
            BY <2>1, <3>1 DEF SameMessages
    <2> QED
        BY <2>1 DEF SameMessages
<1> QED
    BY <1>1, <1>2, <1>3, NotAbout

(* A message about an item that nothing is under way about is the only one.*)
LEMMA OnlySent ==
    ASSUME SInv, UNCHANGED <<task, tx, toDjango>>, NEW i \in Items, Settled(i),
           NEW m, i \in m.of, toSpring' = toSpring (+) SetToBag({m})
    PROVE  /\ NoWork(i)' /\ Queued(i)' = {} /\ ActiveOf({i})' = ActiveOf({i})
           /\ m \in DOMAIN toSpring' /\ OnlyMessage(m, i)'
<1>1. NoWork(i) /\ NoMessage(i) /\ Queued(i) = {} /\ IsABag(toSpring)
    BY NotBusy DEF Settled, Queued, SInv, Types
<1>2. /\ DOMAIN toSpring' = DOMAIN toSpring \cup {m}
      /\ m \notin DOMAIN toSpring => toSpring'[m] = 1
    BY <1>1, MessageAdded
<1>3. OnlyMessage(m, i)'
    BY <1>1, <1>2 DEF OnlyMessage, NoMessage
<1>4. NoWork(i)' /\ Queued(i)' = {}
    BY <1>1 DEF NoWork, Concerns, Queued
<1> QED
    BY <1>2, <1>3, <1>4 DEF ActiveOf, Active

LEMMA SentRemove ==
    ASSUME SInv, UNCHANGED <<task, tx, toDjango>>, NEW i \in Items, Settled(i),
           NEW S, i \in S, toSpring' = toSpring (+) SetToBag({[kind |-> "remove", of |-> S]}),
           over' \/ ~ToServe(i)'
    PROVE  Situation(i)'
<1> DEFINE m == [kind |-> "remove", of |-> S]
<1>1. i \in m.of /\ m.kind = "remove"
    OBVIOUS
<1> HIDE DEF m
<1>2. toSpring' = toSpring (+) SetToBag({m})
    BY DEF m
<1>3. NoWork(i)' /\ Queued(i)' = {} /\ m \in DOMAIN toSpring' /\ OnlyMessage(m, i)'
    BY <1>1, <1>2, OnlySent
<1>4. Clearing(i)'
    BY <1>1, <1>3 DEF Clearing, Unwanted
<1> QED
    BY <1>4 DEF Situation

(* An item without active tasks may become anything that is not to serve.  *)
LEMMA NothingToRemove ==
    ASSUME SInv, Types', UNCHANGED <<task, tx, toSpring, toDjango>>,
           NEW i \in Items, Settled(i), ActiveOf({i}) = {}, over' \/ ~ToServe(i)'
    PROVE  Situation(i)'
<1>1. NoWork(i) /\ NoMessage(i) /\ Queued(i) = {}
    BY NotBusy DEF Settled, Queued
<1>2. NoWork(i)' /\ NoMessage(i)' /\ Queued(i)' = {} /\ ActiveOf({i})' = {}
    BY <1>1 DEF NoWork, Concerns, NoMessage, Queued, ActiveOf, Active
<1>3. stat'[i] \in ItemStatus /\ (over' \/ stat'[i] \notin {"COOKED", "SERVING"})
    BY DEF Types, ToServe
<1>4. Quiet(i)'
    BY <1>2, <1>3 DEF Quiet, Becomes, AgreeAs
<1> QED
    BY <1>4 DEF Situation

LEMMA StatusKeeps ==
    ASSUME SInv, NEW i \in Items, NEW s \in Targets, UpdateStatus(i, s)
    PROVE  SInv'
<1> DEFINE kind == IF s = "COOKED" THEN "cooked" ELSE "remove"
           m == [kind |-> kind, of |-> {i}]
<1>1. /\ Types /\ stat[i] # s /\ stat' = [stat EXCEPT ![i] = s]
      /\ IF Announced(i, s) THEN toSpring' = toSpring (+) SetToBag({m})
                            ELSE UNCHANGED toSpring
      /\ calm' = [calm EXCEPT ![i] =
                    Settled(i) /\ ~over /\ (s = "SERVED" \/ (calm[i] /\ Heard(i, s)))]
      /\ UNCHANGED <<over, task, lock, tx, toDjango>>
    BY DEF UpdateStatus, Send, SInv
<1>2. m \in MessageToSpring /\ m.of = {i} /\ m.kind = kind
    BY AboutOne, SentIsMessage
<1>3. /\ stat'[i] = s /\ \A j \in Items : j # i => stat'[j] = stat[j] /\ calm'[j] = calm[j]
      /\ calm'[i] => Settled(i) /\ ~over /\ (s = "SERVED" \/ (calm[i] /\ Heard(i, s)))
    BY <1>1 DEF Types
<1>4. Types' /\ Prepared'
    <2>1. /\ stat' \in [Items -> ItemStatus] /\ over' \in BOOLEAN
          /\ calm' \in [Items -> BOOLEAN]
        BY <1>1 DEF Types, ItemStatus
    <2>2. \/ toSpring' = toSpring
          \/ \E l \in MessageToSpring :
                /\ l.kind = "cooked" => \E j \in Items : l.of = {j}
                /\ toSpring' = toSpring (+) SetToBag({l})
        BY <1>1, <1>2
    <2> QED
        BY <1>1, <2>1, <2>2, StaffTypes
<1>5. ASSUME NEW j \in Items, j # i, calm'[j]
      PROVE  Situation(j)'
    <2>1. toSpring' = toSpring \/ \E l : j \notin l.of /\ toSpring' = toSpring (+) SetToBag({l})
        BY <1>1, <1>2, <1>5
    <2> QED
        BY <1>1, <1>3, <1>5, <2>1, OthersUnasked
<1>6. ASSUME calm'[i]
      PROVE  Situation(i)'
    <2>1. CASE s # "COOKED" /\ Announced(i, s)
        <3>1. ~ToServe(i)'
            BY <1>3, <2>1 DEF ToServe, Targets
        <3> QED
            BY <1>1, <1>3, <1>6, <2>1, <3>1, SentRemove
    <2>2. CASE s = "COOKED" \/ ~Announced(i, s)
        <3>1. s # "SERVED" /\ calm[i] /\ Heard(i, s) /\ Settled(i) /\ ~over
            BY <1>3, <1>6, <2>2 DEF Announced
        <3>2. stat[i] \notin {"SERVING", "COOKED"}
            BY <1>1, <2>2, <3>1 DEF Heard, Announced
        <3>3. ActiveOf({i}) = {}
            BY <3>1, <3>2, SettledAgrees DEF SInv, AgreeAs
        <3>4. CASE ~Announced(i, s)
            <4>1. ~ToServe(i)' /\ toSpring' = toSpring
                BY <1>1, <1>3, <3>4 DEF ToServe, Announced
            <4> QED
                BY <1>1, <1>4, <3>1, <3>3, <4>1, NothingToRemove
        <3>5. CASE s = "COOKED" /\ Announced(i, s)
            <4> HIDE DEF m
            <4>1. /\ NoWork(i)' /\ Queued(i)' = {} /\ ActiveOf({i})' = {}
                  /\ m \in DOMAIN toSpring' /\ OnlyMessage(m, i)'
                BY <1>1, <1>2, <3>1, <3>3, <3>5, OnlySent
            <4>2. Asked(i)'
                BY <1>1, <1>2, <1>3, <3>1, <3>5, <4>1 DEF Asked, Wanted
            <4> QED
                BY <4>2 DEF Situation
        <3> QED
            BY <2>2, <3>4, <3>5 DEF Announced
    <2> QED
        BY <2>1, <2>2
<1> QED
    BY <1>4, <1>5, <1>6 DEF SInv

(* Cancellations of one item: all of its units, or some.                   *)
LEMMA CancelKeeps ==
    ASSUME SInv, NEW i \in Items, CancelItem(i) \/ CancelSomeUnits(i)
    PROVE  SInv'
<1> DEFINE m == [kind |-> "remove", of |-> {i}]
<1>1. /\ Types /\ toSpring' = toSpring (+) SetToBag({m})
      /\ UNCHANGED <<over, task, lock, tx, toDjango>>
      /\ stat' = [stat EXCEPT ![i] = "CANCELLED"] \/ (stat' = stat /\ (calm'[i] => ~ToServe(i)))
      /\ \A j \in Items : j # i => stat'[j] = stat[j] /\ calm'[j] = calm[j]
      /\ calm'[i] => Settled(i)
      /\ calm' \in [Items -> BOOLEAN]
    BY DEF CancelItem, CancelSomeUnits, Send, Undisturbed, SInv, Types
<1>2. m \in MessageToSpring /\ m.of = {i} /\ m.kind = "remove"
    BY AboutOne, SentIsMessage
<1>3. Types' /\ Prepared'
    <2>1. stat' \in [Items -> ItemStatus] /\ over' \in BOOLEAN
        BY <1>1 DEF Types, ItemStatus
    <2>2. \E l \in MessageToSpring :
                /\ l.kind = "cooked" => \E j \in Items : l.of = {j}
                /\ toSpring' = toSpring (+) SetToBag({l})
        BY <1>1, <1>2
    <2> QED
        BY <1>1, <2>1, <2>2, StaffTypes
<1>4. ASSUME NEW j \in Items, calm'[j]
      PROVE  Situation(j)'
    <2>1. CASE j # i
        <3>1. \E l : j \notin l.of /\ toSpring' = toSpring (+) SetToBag({l})
            BY <1>1, <1>2, <2>1
        <3> QED
            BY <1>1, <1>4, <2>1, <3>1, OthersUnasked
    <2>2. CASE j = i
        <3>1. ~ToServe(i)'
            BY <1>1, <1>4, <2>2 DEF ToServe, Types
        <3> QED
            BY <1>1, <1>4, <2>2, <3>1, SentRemove
    <2> QED
        BY <2>1, <2>2
<1> QED
    BY <1>3, <1>4 DEF SInv

LEMMA SetKeeps ==
    ASSUME SInv, CancelSet
    PROVE  SInv'
<1>1. /\ Types /\ UNCHANGED <<over, task, lock, tx, toSpring, toDjango>>
      /\ \A i \in Items : stat'[i] = IF i \in Parts THEN "CANCELLED" ELSE stat[i]
      /\ \A i \in Items :
            calm'[i] => calm[i] /\ (i \in Parts => Settled(i) /\ ~ToServe(i))
    BY DEF CancelSet, SInv
<1>2. Types' /\ Prepared'
    <2>1. stat' \in [Items -> ItemStatus] /\ over' \in BOOLEAN /\ calm' \in [Items -> BOOLEAN]
        BY <1>1 DEF CancelSet, Types, ItemStatus
    <2> QED
        BY <1>1, <2>1, StaffTypes
<1>3. ASSUME NEW i \in Items, calm'[i]
      PROVE  Situation(i)'
    <2>1. CASE i \notin Parts
        BY <1>1, <1>3, <2>1, OthersUnasked
    <2>2. CASE i \in Parts
        <3>1. Settled(i) /\ ~ToServe(i) /\ Agree(i)
            BY <1>1, <1>3, <2>2, SettledAgrees DEF SInv
        <3>2. ActiveOf({i}) = {} /\ ~ToServe(i)'
            BY <1>1, <2>2, <3>1 DEF Agree, ToServe
        <3> QED
            BY <1>1, <1>2, <3>1, <3>2, NothingToRemove
    <2> QED
        BY <2>1, <2>2
<1> QED
    BY <1>2, <1>3 DEF SInv

(* The table is reset, or the reset fails when it has been announced.      *)
LEMMA ResetKeeps ==
    ASSUME SInv, ResetTable \/ ResetFails
    PROVE  SInv'
<1> DEFINE m == [kind |-> "remove", of |-> Items]
<1>1. /\ Types /\ toSpring' = toSpring (+) SetToBag({m})
      /\ UNCHANGED <<stat, task, lock, tx, toDjango>>
      /\ over' \in BOOLEAN /\ calm' \in [Items -> BOOLEAN]
      /\ \A i \in Items : calm'[i] => Settled(i) /\ (over' \/ ~ToServe(i))
    BY DEF ResetTable, ResetFails, Send, SInv, Types, Settled, Busy
<1>2. m \in MessageToSpring /\ m.kind = "remove"
    BY AboutOne, SentIsMessage
<1>3. Types' /\ Prepared'
    <2>1. \E l \in MessageToSpring :
                /\ l.kind = "cooked" => \E j \in Items : l.of = {j}
                /\ toSpring' = toSpring (+) SetToBag({l})
        BY <1>1, <1>2
    <2> QED
        BY <1>1, <2>1, StaffTypes DEF Types
<1>4. ASSUME NEW i \in Items, calm'[i]
      PROVE  Situation(i)'
    <2>1. Settled(i) /\ (over' \/ ~ToServe(i)')
        BY <1>1, <1>4 DEF ToServe
    <2> QED
        BY <1>1, <2>1, SentRemove
<1> QED
    BY <1>3, <1>4 DEF SInv

LEMMA StaffKeep ==
    ASSUME SInv, StaffRequest
    PROVE  SInv'
BY StatusKeeps, CancelKeeps, SetKeeps, ResetKeeps DEF StaffRequest

-----------------------------------------------------------------------------
(* Django's listener, and messages that are lost.                          *)

LEMMA ReadKeeps ==
    ASSUME SInv, Listen
    PROVE  SInv'
<1>1. /\ Types /\ Prepared /\ toDjango # <<>> /\ toDjango' = Tail(toDjango)
      /\ UNCHANGED <<over, task, lock, tx, toSpring, calm>>
    BY DEF SInv, Listen
<1>2. Types'
    <2>1. stat' \in [Items -> ItemStatus]
        BY <1>1, FirstRead DEF Listen, HandleServingEvent, HandleServingCancelled, Types,
            ItemStatus, Targets
    <2> QED
        BY <1>1, <2>1, FirstRead DEF Types
<1>3. Prepared'
    BY <1>1 DEF Prepared, Exists
<1>4. ASSUME NEW i \in Items, calm'[i]
      PROVE  Situation(i)'
    <2>1. NewsKept(i)
        BY <1>1, ListenKeeps
    <2>2. SameRows(i) /\ SameWork(i) /\ SameMessages(i)
        BY <1>1 DEF SameRows, SameWork, SameMessages, Concerns, ActiveOf, Active
    <2>3. Situation(i)
        BY <1>1, <1>4 DEF SInv
    <2> QED
        BY <1>1, <2>1, <2>2, <2>3, NotAbout
<1> QED
    BY <1>2, <1>3, <1>4 DEF SInv

LEMMA LostToDjangoKeeps ==
    ASSUME SInv, LoseToDjango
    PROVE  SInv'
<1>1. /\ Types /\ Prepared /\ toDjango # <<>> /\ toDjango' = Tail(toDjango)
      /\ UNCHANGED <<stat, over, task, lock, tx, toSpring>>
      /\ calm' = Undisturbed({Head(toDjango).item}, FALSE)
    BY DEF SInv, LoseToDjango
<1>2. Types'
    <2>1. calm' \in [Items -> BOOLEAN]
        BY <1>1 DEF Undisturbed, Types
    <2> QED
        BY <1>1, <2>1, FirstRead DEF Types
<1>3. Prepared'
    BY <1>1 DEF Prepared, Exists
<1>4. ASSUME NEW i \in Items, calm'[i]
      PROVE  Situation(i)'
    <2>1. calm[i] /\ Head(toDjango).item # i
        BY <1>1, <1>4 DEF Undisturbed
    <2>2. NewsKept(i)
        BY <1>1, <2>1, OthersRead
    <2>3. SameRows(i) /\ SameWork(i) /\ SameMessages(i)
        BY <1>1 DEF SameRows, SameWork, SameMessages, Concerns, ActiveOf, Active
    <2>4. Situation(i)
        BY <2>1 DEF SInv
    <2> QED
        BY <1>1, <2>2, <2>3, <2>4, NotAbout
<1> QED
    BY <1>2, <1>3, <1>4 DEF SInv

LEMMA LostToSpringKeeps ==
    ASSUME SInv, NEW m, LoseToSpring(m)
    PROVE  SInv'
<1>1. /\ Types /\ Prepared /\ Received(m)
      /\ UNCHANGED <<stat, over, task, lock, tx, toDjango>>
      /\ calm' = Undisturbed(m.of, FALSE)
    BY DEF SInv, LoseToSpring
<1>2. /\ IsABag(toSpring') /\ DOMAIN toSpring' \subseteq DOMAIN toSpring
      /\ \A i \in Items : i \notin m.of => SameMessages(i)
    BY <1>1, ReceivedOnce
<1>3. Types'
    <2>1. calm' \in [Items -> BOOLEAN]
        BY <1>1 DEF Undisturbed, Types
    <2> QED
        BY <1>1, <1>2, <2>1 DEF Types
<1>4. Prepared'
    BY <1>1, <1>2 DEF Prepared, Exists, BagToSet
<1>5. ASSUME NEW i \in Items, calm'[i]
      PROVE  Situation(i)'
    <2>1. calm[i] /\ SameMessages(i)
        BY <1>1, <1>2, <1>5 DEF Undisturbed
    <2>2. SameRows(i) /\ SameWork(i) /\ NewsKept(i)
        BY <1>1, NoNews DEF SameRows, SameWork, Concerns, ActiveOf, Active
    <2>3. Situation(i)
        BY <2>1 DEF SInv
    <2> QED
        BY <1>1, <2>1, <2>2, <2>3, NotAbout
<1> QED
    BY <1>3, <1>4, <1>5 DEF SInv

-----------------------------------------------------------------------------
(* Every step keeps the invariant.                                         *)

LEMMA SInvInit == Init => SInv
<1> SUFFICES ASSUME Init PROVE SInv
    OBVIOUS
<1>1. /\ IsABag(toSpring) /\ DOMAIN toSpring = {} /\ BagToSet(toSpring) = {}
      /\ toDjango \in Seq(MessageToDjango) /\ Len(toDjango) = 0
    BY DEF Init, EmptyBag, SetToBag, IsABag, BagToSet
<1>2. Types
    <2>1. tx \in [Threads -> {Idle} \cup Updates \cup Inserts \cup Deletes]
        BY DEF Init
    <2>2. /\ stat \in [Items -> ItemStatus] /\ over \in BOOLEAN /\ lock \subseteq Tasks
          /\ calm \in [Items -> BOOLEAN]
        BY DEF Init, ItemStatus, Targets
    <2>3. task \in [Tasks -> Row \cup {Unborn, Deleted}]
        BY DEF Init
    <2>4. Len(toDjango) <= MaxToDjango
        BY <1>1, ServingAssumption
    <2> QED
        BY <1>1, <2>1, <2>2, <2>3, <2>4 DEF Types
<1>3. Prepared
    BY <1>1 DEF Init, Prepared, Idle
<1>4. ASSUME NEW i \in Items
      PROVE  Situation(i)
    <2>1. NoWork(i) /\ NoMessage(i) /\ Queued(i) = {}
        BY <1>1 DEF Init, NoWork, NoMessage, Queued, Concerns
    <2>2. ActiveOf({i}) = {}
        BY DEF Init, ActiveOf, Active, Unborn
    <2>3. stat[i] = "COOKING" /\ "COOKING" \in ItemStatus /\ "COOKING" \notin {"COOKED", "SERVING"}
        BY DEF Init, ItemStatus, Targets
    <2>4. Becomes(i, "COOKING") /\ AgreeAs(i, "COOKING")
        BY <2>1, <2>2, <2>3 DEF Becomes, AgreeAs
    <2>5. Quiet(i)
        BY <2>1, <2>3, <2>4 DEF Quiet
    <2> QED
        BY <2>5 DEF Situation
<1> QED
    BY <1>2, <1>3, <1>4 DEF SInv

LEMMA SInvNext == SInv /\ [Next]_vars => SInv'
<1> SUFFICES ASSUME SInv, [Next]_vars PROVE SInv'
    OBVIOUS
<1>1. CASE ServerRequest
    BY <1>1, ServersKeep
<1>2. CASE StaffRequest
    BY <1>2, StaffKeep
<1>3. CASE Failure
    BY <1>3, LockExpiresKeeps, AbortKeeps, ResetKeeps, LostToDjangoKeeps, LostToSpringKeeps
    DEF Failure
<1>4. CASE Delivery
    BY <1>4, HandleCookedKeeps, HandleRemoveKeeps, UnlockKeeps, UpdateKeeps, InsertKeeps,
       DeleteKeeps, ReadKeeps
    DEF Delivery, Handle, Proceed
<1>5. CASE UNCHANGED vars
    <2>1. Types' /\ Prepared'
        BY <1>5 DEF vars, SInv, Types, Prepared, Exists
    <2>2. ASSUME NEW i \in Items, calm'[i]
          PROVE  Situation(i)'
        <3>1. SameRows(i) /\ SameWork(i) /\ SameMessages(i) /\ NewsKept(i)
            BY <1>5, NoNews
            DEF vars, SameRows, SameWork, SameMessages, Concerns, ActiveOf, Active
        <3>2. Types /\ Situation(i)
            BY <1>5, <2>2 DEF vars, SInv
        <3> QED
            BY <3>1, <3>2, NotAbout
    <2> QED
        BY <2>1, <2>2 DEF SInv
<1> QED
    BY <1>1, <1>2, <1>3, <1>4, <1>5 DEF Next

LEMMA SInvAlways == Spec => []SInv
BY SInvInit, SInvNext, PTL DEF Spec

-----------------------------------------------------------------------------
(* Items, rows, locks, transactions and messages keep their types.         *)
THEOREM TypeCorrect == Spec => []TypeOK
<1>1. SInv => TypeOK
    BY TypesAreOK DEF SInv
<1> QED
    BY <1>1, SInvAlways, PTL

(* Whenever nothing about a calm item is under way between the services,   *)
(* Django's status of it and Spring's tasks of it agree: one task, caught  *)
(* exactly while the item is SERVING, for an item to serve, and none for   *)
(* any other.                                                              *)
THEOREM ServicesAgree == Spec => []AgreeWhenSettled
<1>1. SInv => AgreeWhenSettled
    BY SettledAgrees DEF SInv, AgreeWhenSettled
<1> QED
    BY <1>1, SInvAlways, PTL

(* The task of a calm item that a server has caught stays the server's but *)
(* for the commit of a transaction that removes it, or that the server or  *)
(* the end of the session began: however late it commits, no transaction   *)
(* of another server writes over it.                                       *)
THEOREM CaughtIsKept == Spec => CaughtStaysCaught
<1>1. ASSUME SInv, [Next]_vars, NEW t \in Tasks, NEW w \in Servers,
             HeldBy(t, w), calm[task[t].item], ~HeldBy(t, w)'
      PROVE  \E k \in Threads :
                \/ tx[k].op = "delete" /\ t \in tx[k].ids
                \/ tx[k].op = "update" /\ t \in DOMAIN tx[k].rows
                   /\ tx[k].rows[t].by \in {w, NoOne}
    <2>1. task'[t] # task[t]
        BY <1>1 DEF HeldBy
    <2>2. \E k \in Threads : CommitUpdate(k) \/ CommitInsert(k) \/ CommitDelete(k)
        <3>1. ~ServerRequest
            <4>1. \A k, rows, locked, kind : Begin(k, rows, locked, kind) => task' = task
                BY DEF Begin
            <4>2. ASSUME NEW k \in Threads, NEW u \in Servers, NEW v \in Tasks
                  PROVE  ~CatchCall(k, u, v) /\ ~CompleteCall(k, u, v) /\ ~CancelCall(k, u, v)
                BY <2>1, <4>1 DEF CatchCall, CompleteCall, CancelCall
            <4>3. ASSUME NEW k \in Threads, NEW s
                  PROVE  ~ReleaseBySession(k, s)
                BY <2>1, <4>1 DEF ReleaseBySession
            <4> QED
                BY <4>2, <4>3 DEF ServerRequest
        <3>2. ~StaffRequest
            BY <2>1 DEF StaffRequest, UpdateStatus, CancelItem, CancelSomeUnits, CancelSet,
               ResetTable
        <3>3. ~Failure
            BY <2>1 DEF Failure, LockExpires, Abort, ResetFails, LoseToDjango, LoseToSpring
        <3>4. ~Listen /\ \A m, k : ~Handle(m) /\ ~Unlock(k)
            BY <2>1 DEF Listen, Handle, HandleCooked, HandleRemove, Unlock
        <3>5. Delivery
            BY <1>1, <2>1, <3>1, <3>2, <3>3 DEF Next, vars
        <3> QED
            BY <3>4, <3>5 DEF Delivery, Proceed
    <2>3. PICK k \in Threads : CommitUpdate(k) \/ CommitInsert(k) \/ CommitDelete(k)
        BY <2>2
    <2>4. /\ task[t] \in Row /\ Active(t) /\ Exists(t) /\ task[t] # Unborn
          /\ task[t].by = w /\ task[t].status = "SERVING"
        BY <1>1, ActiveRows DEF SInv, HeldBy, Active, Exists
    <2>5. CASE CommitUpdate(k)
        <3>1. t \in DOMAIN tx[k].rows /\ tx[k].op = "update"
            BY <1>1, <2>1, <2>5 DEF CommitUpdate, Write
        <3> DEFINE i == task[t].item
        <3>2. i \in Items /\ tx[k].rows[t].item = i /\ i \in tx[k].of
            BY <1>1, <2>4, <3>1 DEF SInv, Prepared, Row
        <3>3. Concerns(k, i)
            BY <1>1, <3>1, <3>2, Kinds DEF SInv, Concerns
        <3>4. Updating(i)
            BY <1>1, <3>1, <3>2, <3>3, WorkedOn
        <3>5. PICK j \in Threads, u \in Tasks : OnlyWork(j, i) /\ Writes(j, u, i)
            BY <3>4 DEF Updating
        <3>6. j = k /\ t = u
            BY <3>1, <3>2, <3>3, <3>5 DEF OnlyWork, Writes
        <3>7. tx[k].rows[t].by \in {w, NoOne}
            BY <2>4, <3>5, <3>6 DEF Writes
        <3> QED
            BY <3>1, <3>7
    <2>6. CASE CommitInsert(k)
        BY <1>1, <2>1, <2>4, <2>6 DEF CommitInsert, SInv, Types
    <2>7. CASE CommitDelete(k)
        BY <1>1, <2>1, <2>7 DEF CommitDelete, Write
    <2> QED
        BY <2>3, <2>5, <2>6, <2>7
<1>2. SInv /\ [Next]_vars =>
        [\A t \in Tasks, w \in Servers :
            HeldBy(t, w) /\ calm[task[t].item] /\ ~HeldBy(t, w)' =>
                \E k \in Threads :
                    \/ tx[k].op = "delete" /\ t \in tx[k].ids
                    \/ tx[k].op = "update" /\ t \in DOMAIN tx[k].rows
                       /\ tx[k].rows[t].by \in {w, NoOne}]_vars
    BY <1>1
<1> QED
    BY <1>2, SInvAlways, PTL DEF Spec, CaughtStaysCaught

=============================================================================
