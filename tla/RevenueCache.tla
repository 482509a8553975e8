---------------------------- MODULE RevenueCache ----------------------------
(***************************************************************************)
(* Today's revenue of one booth: the sum over its orders in the database   *)
(* and the Redis key that django/order/cache.py keeps beside it. Every     *)
(* transaction that changes an order's amount calls update_today_revenue   *)
(* after its commit; the call, and get_today_revenue, reach Redis and the  *)
(* database one command at a time, in any number of workers at once.       *)
(***************************************************************************)
EXTENDS Integers, FiniteSets, Totals

CONSTANTS
    Workers,
    Missing,        \* the key does not exist
    Amounts,        \* order prices; a refund takes one of them back
    MaxRevenue,     \* bound on the day's revenue
    MaxDrift        \* bound on the error that failures of Redis add up to

ASSUME RevenueCacheAssumption ==
    /\ IsFiniteSet(Workers)
    /\ Amounts \subseteq Nat \ {0}
    /\ MaxRevenue \in Nat /\ MaxDrift \in Nat
    /\ Missing \notin Int

VARIABLES
    ledger,     \* _query_db: the amounts of the day's orders, summed
    cache,      \* the value of the key, or Missing
    call        \* what each worker is about to do

vars == <<ledger, cache, call>>

Idle == [step |-> "idle", delta |-> 0, base |-> 0]
Calls == [step : {"idle", "incr_if_exists", "query", "set_nx", "incr",
                  "get_query", "get_set_nx", "delete"},
          delta : Int, base : Int]

TypeOK ==
    /\ ledger \in 0..MaxRevenue
    /\ cache \in Int \cup {Missing}
    /\ call \in [Workers -> Calls]

Init ==
    /\ ledger = 0
    /\ cache = Missing
    /\ call = [w \in Workers |-> Idle]

Goto(w, step, base) ==
    call' = [call EXCEPT ![w].step = step, ![w].base = base]

Return(w) == call' = [call EXCEPT ![w] = Idle]

(* What committed transactions have yet to bring to the key.               *)
InFlight == Total([w \in Workers |-> call[w].delta])

(* How far the key is off, once they have.                                 *)
Drift == cache + InFlight - ledger

-----------------------------------------------------------------------------
(* An order is paid, or items of one are refunded: the transaction commits *)
(* and its on_commit callback is next.                                     *)
Commit(w, delta) ==
    /\ call[w] = Idle
    /\ ledger + delta \in 0..MaxRevenue
    /\ ledger' = ledger + delta
    /\ call' = [call EXCEPT ![w] =
                    [step |-> "incr_if_exists", delta |-> delta, base |-> 0]]
    /\ UNCHANGED cache

(* Mutant: the result of the script is not returned, the miss path follows.*)
IncrAndFallThrough(w) ==
    /\ call[w].step = "incr_if_exists"
    /\ cache' = IF cache = Missing THEN Missing ELSE cache + call[w].delta
    /\ Goto(w, "query", 0)
    /\ UNCHANGED ledger

(* The Lua script: one atomic INCRBY if the key exists.                    *)
IncrIfExists(w) ==
    /\ call[w].step = "incr_if_exists"
    /\ IF cache = Missing
       THEN Goto(w, "query", 0) /\ UNCHANGED cache
       ELSE Return(w) /\ cache' = cache + call[w].delta
    /\ UNCHANGED ledger

(* It does not: read the sum from the database ...                         *)
QueryBaseline(w) ==
    /\ call[w].step = "query"
    /\ Goto(w, "set_nx", ledger)
    /\ UNCHANGED <<ledger, cache>>

(* ... make it the key's value unless another worker has set one ...       *)
SetBaseline(w) ==
    /\ call[w].step = "set_nx"
    /\ cache' = IF cache = Missing THEN call[w].base ELSE cache
    /\ Goto(w, "incr", 0)
    /\ UNCHANGED ledger

(* ... and add the delta. INCRBY starts a missing key at 0.                *)
Incr(w) ==
    /\ call[w].step = "incr"
    /\ cache' = call[w].delta + (IF cache = Missing THEN 0 ELSE cache)
    /\ Return(w)
    /\ UNCHANGED ledger

-----------------------------------------------------------------------------
(* get_today_revenue: only a miss has an effect.                           *)
GetMiss(w) ==
    /\ call[w] = Idle
    /\ cache = Missing
    /\ Goto(w, "get_query", 0)
    /\ UNCHANGED <<ledger, cache>>

GetQuery(w) ==
    /\ call[w].step = "get_query"
    /\ Goto(w, "get_set_nx", ledger)
    /\ UNCHANGED <<ledger, cache>>

GetSetBaseline(w) ==
    /\ call[w].step = "get_set_nx"
    /\ cache' = IF cache = Missing THEN call[w].base ELSE cache
    /\ Return(w)
    /\ UNCHANGED ledger

-----------------------------------------------------------------------------
(* reset_booth_table_usage deletes every order, commits, and then has the  *)
(* key deleted.                                                            *)
FormatBooth(w) ==
    /\ call[w] = Idle
    /\ ledger' = 0
    /\ call' = [call EXCEPT ![w] = [step |-> "delete", delta |-> -ledger, base |-> 0]]
    /\ UNCHANGED cache

DeleteKey(w) ==
    /\ call[w].step = "delete"
    /\ cache' = Missing
    /\ Return(w)
    /\ UNCHANGED ledger

(* The key's TTL is over.                                                  *)
Expire ==
    /\ cache # Missing
    /\ cache' = Missing
    /\ UNCHANGED <<ledger, call>>

(* A Redis command fails: the exception is logged and the call gives up.   *)
RedisFails(w) ==
    /\ call[w].step \in {"incr_if_exists", "set_nx", "incr", "get_set_nx", "delete"}
    /\ cache # Missing => Drift - call[w].delta \in -MaxDrift..MaxDrift
    /\ Return(w)
    /\ UNCHANGED <<ledger, cache>>

-----------------------------------------------------------------------------
Next ==
    \/ \E w \in Workers, n \in Amounts : Commit(w, n) \/ Commit(w, -n)
    \/ \E w \in Workers :
        \/ IncrIfExists(w) \/ QueryBaseline(w) \/ SetBaseline(w) \/ Incr(w)
        \/ GetMiss(w) \/ GetQuery(w) \/ GetSetBaseline(w)
        \/ FormatBooth(w) \/ DeleteKey(w)
        \/ RedisFails(w)
    \/ Expire

Spec == Init /\ [][Next]_vars

(* The same without failures of Redis, expiry or formatting.               *)
Smooth ==
    \/ \E w \in Workers, n \in Amounts : Commit(w, n) \/ Commit(w, -n)
    \/ \E w \in Workers :
        \/ IncrIfExists(w) \/ QueryBaseline(w) \/ SetBaseline(w) \/ Incr(w)
        \/ GetMiss(w) \/ GetQuery(w) \/ GetSetBaseline(w)

SmoothSpec == Init /\ [][Smooth]_vars

-----------------------------------------------------------------------------
(* While the key exists it keeps pace with the database, however updates,  *)
(* misses of other workers and reads interleave: an error can only come in *)
(* when the key is created, or with a call that failed to reach Redis.     *)
ExistingKeyKeepsPace ==
    [][cache # Missing /\ cache' # Missing /\ Drift' # Drift
            => UNCHANGED <<ledger, cache>>]_vars

(* cache.py: the key holds today's revenue, and update_today_revenue       *)
(* returns it updated: at rest, the key equals the sum of the orders.      *)
KeyIsRevenueAtRest ==
    cache # Missing /\ (\A w \in Workers : call[w] = Idle) => cache = ledger

=============================================================================
