------------------------ MODULE RevenueCacheProofs ------------------------
(***************************************************************************)
(* The types of RevenueCache, and that its key keeps pace with the         *)
(* database, for any finite set of workers, any amounts and bounds.        *)
(***************************************************************************)
EXTENDS RevenueCache, TotalsProofs

(* The call a worker goes on with is one of those there are.               *)
LEMMA GotoTyped ==
    ASSUME TypeOK, NEW w \in Workers, NEW base \in Int,
           NEW step \in {"idle", "incr_if_exists", "query", "set_nx", "incr",
                         "get_query", "get_set_nx", "delete"},
           Goto(w, step, base)
    PROVE  call' \in [Workers -> Calls]
BY DEF Goto, TypeOK, Calls

LEMMA ReturnTyped ==
    ASSUME TypeOK, NEW w \in Workers, Return(w)
    PROVE  call' \in [Workers -> Calls]
BY DEF Return, TypeOK, Calls, Idle

LEMMA TypeOKNext == TypeOK /\ [Next]_vars => TypeOK'
<1> SUFFICES ASSUME TypeOK, [Next]_vars PROVE TypeOK'
    OBVIOUS
<1>1. /\ ledger \in Int /\ Missing \notin Int /\ MaxRevenue \in Nat
      /\ \A w \in Workers : call[w].delta \in Int /\ call[w].base \in Int
    BY RevenueCacheAssumption DEF TypeOK, Calls
<1>2. ASSUME NEW w \in Workers, NEW delta \in Int, Commit(w, delta) PROVE TypeOK'
    BY <1>2 DEF Commit, TypeOK, Calls
<1>3. ASSUME NEW w \in Workers, QueryBaseline(w) \/ GetMiss(w) \/ GetQuery(w) PROVE TypeOK'
    <2>1. call' \in [Workers -> Calls]
        BY <1>1, <1>3, GotoTyped DEF QueryBaseline, GetMiss, GetQuery
    <2> QED
        BY <1>3, <2>1 DEF QueryBaseline, GetMiss, GetQuery, TypeOK
<1>4. ASSUME NEW w \in Workers, IncrIfExists(w) PROVE TypeOK'
    <2>1. call' \in [Workers -> Calls]
        BY <1>4, GotoTyped, ReturnTyped DEF IncrIfExists
    <2>2. cache' \in Int \cup {Missing}
        BY <1>1, <1>4 DEF IncrIfExists, TypeOK
    <2> QED
        BY <1>4, <2>1, <2>2 DEF IncrIfExists, TypeOK
<1>5. ASSUME NEW w \in Workers, SetBaseline(w) PROVE TypeOK'
    <2>1. call' \in [Workers -> Calls]
        BY <1>5, GotoTyped DEF SetBaseline
    <2> QED
        BY <1>1, <1>5, <2>1 DEF SetBaseline, TypeOK
<1>6. ASSUME NEW w \in Workers, Incr(w) \/ GetSetBaseline(w) \/ DeleteKey(w) \/ RedisFails(w)
      PROVE  TypeOK'
    <2>1. call' \in [Workers -> Calls]
        BY <1>6, ReturnTyped DEF Incr, GetSetBaseline, DeleteKey, RedisFails
    <2> QED
        BY <1>1, <1>6, <2>1 DEF Incr, GetSetBaseline, DeleteKey, RedisFails, TypeOK
<1>7. ASSUME NEW w \in Workers, FormatBooth(w) PROVE TypeOK'
    BY <1>1, <1>7 DEF FormatBooth, TypeOK, Calls
<1>8. CASE Expire \/ UNCHANGED vars
    BY <1>8 DEF Expire, vars, TypeOK
<1>9. \A n \in Amounts : n \in Int /\ -n \in Int
    BY RevenueCacheAssumption
<1> QED
    BY <1>2, <1>3, <1>4, <1>5, <1>6, <1>7, <1>8, <1>9 DEF Next

(* The sum stays within the day's orders and the key is a number or not    *)
(* there, under any interleaving of workers, failures and expiry.          *)
THEOREM TypeCorrect == Spec => []TypeOK
<1>1. Init => TypeOK
    BY RevenueCacheAssumption DEF Init, TypeOK, Calls, Idle
<1> QED
    BY <1>1, TypeOKNext, PTL DEF Spec

-----------------------------------------------------------------------------
(* A worker that is idle or reading has nothing to bring to the key.       *)
ReadersBringNothing ==
    \A w \in Workers :
        call[w].step \in {"idle", "get_query", "get_set_nx"} => call[w].delta = 0

PaceInv == TypeOK /\ ReadersBringNothing

LEMMA PaceInvAlways == Spec => []PaceInv
<1>1. Init => PaceInv
    BY RevenueCacheAssumption DEF Init, PaceInv, ReadersBringNothing, TypeOK, Calls, Idle
<1>2. PaceInv /\ [Next]_vars => PaceInv'
    <2> SUFFICES ASSUME PaceInv, [Next]_vars PROVE ReadersBringNothing'
        BY TypeOKNext DEF PaceInv
    <2> USE DEF PaceInv, ReadersBringNothing
    <2>1. ASSUME NEW w \in Workers, NEW r, call' = [call EXCEPT ![w] = r],
                 r.step \in {"idle", "get_query", "get_set_nx"} => r.delta = 0
          PROVE  ReadersBringNothing'
        BY <2>1 DEF TypeOK
    <2>2. ASSUME NEW w \in Workers, Return(w)
          PROVE  ReadersBringNothing'
        BY <2>1, <2>2 DEF Return, Idle
    <2>3. ASSUME NEW w \in Workers, NEW step, NEW base, Goto(w, step, base),
                 step \in {"idle", "get_query", "get_set_nx"} => call[w].delta = 0
          PROVE  ReadersBringNothing'
        BY <2>3 DEF Goto, TypeOK, Calls
    <2>4. ASSUME NEW w \in Workers, NEW delta, Commit(w, delta) \/ FormatBooth(w)
          PROVE  ReadersBringNothing'
        BY <2>1, <2>4 DEF Commit, FormatBooth
    <2>5. ASSUME NEW w \in Workers, IncrIfExists(w) \/ QueryBaseline(w) \/ SetBaseline(w)
          PROVE  ReadersBringNothing'
        BY <2>2, <2>3, <2>5 DEF IncrIfExists, QueryBaseline, SetBaseline
    <2>6. ASSUME NEW w \in Workers, GetMiss(w) \/ GetQuery(w)
          PROVE  ReadersBringNothing'
        BY <2>3, <2>6 DEF GetMiss, GetQuery, Idle
    <2>7. ASSUME NEW w \in Workers,
                 Incr(w) \/ GetSetBaseline(w) \/ DeleteKey(w) \/ RedisFails(w)
          PROVE  ReadersBringNothing'
        BY <2>2, <2>7 DEF Incr, GetSetBaseline, DeleteKey, RedisFails
    <2>8. CASE Expire \/ UNCHANGED vars
        BY <2>8 DEF Expire, vars
    <2> QED
        BY <2>4, <2>5, <2>6, <2>7, <2>8 DEF Next
<1> QED
    BY <1>1, <1>2, PTL DEF Spec

(* What is in flight changes by what the one worker that steps changes.    *)
LEMMA InFlightChanges ==
    ASSUME TypeOK, TypeOK', NEW w \in Workers,
           \A v \in Workers \ {w} : call'[v].delta = call[v].delta
    PROVE  /\ InFlight \in Int
           /\ InFlight' = InFlight + (call'[w].delta - call[w].delta)
<1> DEFINE old == [v \in Workers |-> call[v].delta]
           new == [v \in Workers |-> call'[v].delta]
<1>1. old \in [Workers -> Int] /\ new \in [Workers -> Int]
    BY DEF TypeOK, Calls
<1>2. \A v \in Workers \ {w} : new[v] = old[v]
    OBVIOUS
<1>3. Total(new) = Total(old) + (new[w] - old[w]) /\ Total(old) \in Int
    <2> HIDE DEF old, new
    <2> QED
        BY <1>1, <1>2, TotalChange, TotalType, RevenueCacheAssumption
<1>4. InFlight' = Total(new) /\ InFlight = Total(old)
    BY DEF InFlight
<1> QED
    BY <1>3, <1>4

(* The two ways a worker's call goes on.                                   *)
LEMMA GotoKeeps ==
    ASSUME TypeOK, TypeOK', NEW w \in Workers, NEW step, NEW base, Goto(w, step, base)
    PROVE  InFlight \in Int /\ InFlight' = InFlight
<1>1. \A v \in Workers : call'[v].delta = call[v].delta /\ call[v].delta \in Int
    BY DEF Goto, TypeOK, Calls
<1> QED
    BY <1>1, InFlightChanges

LEMMA BecomesBrings ==
    ASSUME TypeOK, TypeOK', NEW w \in Workers, NEW r, call' = [call EXCEPT ![w] = r]
    PROVE  /\ InFlight \in Int /\ call[w].delta \in Int /\ r.delta \in Int
           /\ InFlight' = InFlight + (r.delta - call[w].delta)
<1>1. \A v \in Workers \ {w} : call'[v].delta = call[v].delta
    BY DEF TypeOK
<1>2. call'[w] = r /\ call[w].delta \in Int /\ r.delta \in Int
    BY DEF TypeOK, Calls
<1> QED
    BY <1>1, <1>2, InFlightChanges

(* While the key exists no step makes it drift from the database but one   *)
(* in which Redis fails: an update, a miss of another worker, a read and   *)
(* the formatting of the booth all keep the distance.                      *)
THEOREM KeyKeepsPace == Spec => ExistingKeyKeepsPace
<1>1. ASSUME PaceInv, PaceInv', [Next]_vars, cache # Missing, cache' # Missing
      PROVE  Drift' = Drift \/ UNCHANGED <<ledger, cache>>
    <2>1. /\ TypeOK /\ TypeOK' /\ ReadersBringNothing
          /\ cache \in Int /\ cache' \in Int /\ ledger \in Int /\ ledger' \in Int
        BY <1>1, RevenueCacheAssumption DEF PaceInv, TypeOK
    <2>2. ASSUME NEW w \in Workers, NEW delta \in Int, Commit(w, delta)
          PROVE  Drift' = Drift
        <3> DEFINE r == [step |-> "incr_if_exists", delta |-> delta, base |-> 0]
        <3>1. call' = [call EXCEPT ![w] = r] /\ r.delta = delta /\ call[w].delta = 0
            BY <2>2 DEF Commit, Idle
        <3>2. InFlight \in Int /\ InFlight' = InFlight + (r.delta - call[w].delta)
            <4> HIDE DEF r
            <4> QED
                BY <2>1, <3>1, BecomesBrings
        <3> QED
            BY <2>1, <2>2, <3>1, <3>2 DEF Commit, Drift
    <2>3. ASSUME NEW w \in Workers, IncrIfExists(w) \/ Incr(w)
          PROVE  Drift' = Drift
        <3>1. call' = [call EXCEPT ![w] = Idle] /\ cache' = cache + call[w].delta
            BY <1>1, <2>1, <2>3, RevenueCacheAssumption
            DEF IncrIfExists, Incr, Return, TypeOK, Calls
        <3>2. /\ InFlight \in Int /\ call[w].delta \in Int
              /\ InFlight' = InFlight + (Idle.delta - call[w].delta)
            BY <2>1, <3>1, BecomesBrings
        <3>3. Idle.delta = 0
            BY DEF Idle
        <3> QED
            BY <2>1, <2>3, <3>1, <3>2, <3>3 DEF IncrIfExists, Incr, Drift
    <2>4. ASSUME NEW w \in Workers, QueryBaseline(w) \/ SetBaseline(w) \/ GetQuery(w)
          PROVE  Drift' = Drift
        <3>1. InFlight' = InFlight
            BY <2>1, <2>4, GotoKeeps DEF QueryBaseline, SetBaseline, GetQuery
        <3> QED
            BY <1>1, <2>4, <3>1 DEF QueryBaseline, SetBaseline, GetQuery, Drift
    <2>5. ASSUME NEW w \in Workers, GetSetBaseline(w)
          PROVE  Drift' = Drift
        <3>1. call' = [call EXCEPT ![w] = Idle] /\ call[w].delta = 0 /\ Idle.delta = 0
            BY <2>1, <2>5 DEF GetSetBaseline, Return, Idle, ReadersBringNothing
        <3>2. InFlight \in Int /\ InFlight' = InFlight + (Idle.delta - call[w].delta)
            BY <2>1, <3>1, BecomesBrings
        <3> QED
            BY <1>1, <2>1, <2>5, <3>1, <3>2 DEF GetSetBaseline, Drift
    <2>6. ASSUME NEW w \in Workers, FormatBooth(w)
          PROVE  Drift' = Drift
        <3> DEFINE r == [step |-> "delete", delta |-> -ledger, base |-> 0]
        <3>1. call' = [call EXCEPT ![w] = r] /\ r.delta = -ledger /\ call[w].delta = 0
            BY <2>6 DEF FormatBooth, Idle
        <3>2. InFlight \in Int /\ InFlight' = InFlight + (r.delta - call[w].delta)
            <4> HIDE DEF r
            <4> QED
                BY <2>1, <3>1, BecomesBrings
        <3> QED
            BY <2>1, <2>6, <3>1, <3>2 DEF FormatBooth, Drift
    <2>7. ASSUME NEW w \in Workers, GetMiss(w) \/ DeleteKey(w)
          PROVE  FALSE
        BY <1>1, <2>7 DEF GetMiss, DeleteKey
    <2>8. ASSUME NEW w \in Workers, RedisFails(w)
          PROVE  UNCHANGED <<ledger, cache>>
        BY <2>8 DEF RedisFails
    <2>9. CASE Expire \/ UNCHANGED vars
        BY <1>1, <2>9 DEF Expire, vars
    <2>10. \A n \in Amounts : n \in Int /\ -n \in Int
        BY RevenueCacheAssumption
    <2> QED
        BY <1>1, <2>2, <2>3, <2>4, <2>5, <2>6, <2>7, <2>8, <2>9, <2>10 DEF Next
<1>2. PaceInv /\ PaceInv' /\ [Next]_vars =>
        [cache # Missing /\ cache' # Missing /\ Drift' # Drift
            => UNCHANGED <<ledger, cache>>]_vars
    BY <1>1
<1> QED
    BY <1>2, PaceInvAlways, PTL DEF Spec, ExistingKeyKeepsPace

=============================================================================
