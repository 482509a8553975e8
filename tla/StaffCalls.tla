----------------------------- MODULE StaffCalls -----------------------------
(***************************************************************************)
(* The calls for PAYMENT_CONFIRM of one cart: StaffCallService,            *)
(* OrderCancelService and StaffCallTableResetService in Spring, where each *)
(* request is a transaction that others overlap, and the cart's payment in *)
(* Django, which listens to staffcall:completed.  Calls of other types     *)
(* never reach Django.                                                     *)
(*                                                                         *)
(* A transaction has read its rows when it is open and writes them when it *)
(* commits.  The version of a row (@Version) is counted as one bit of each *)
(* transaction that has read it: somebody has written it since.            *)
(***************************************************************************)
EXTENDS Naturals, Sequences, FiniteSets

CONSTANTS
    Calls,          \* the rows staff_call can come to have
    Sessions,       \* session ids in the tokens of the staff
    UserOf,         \* UserOf[s]: the username in the same token
    Threads,        \* requests that can be at work at once
    NoOne,          \* no session, and no call
    MaxMessages, MaxRounds,
    MaxFailures     \* completions of a call that may fail to commit

ByRest == "payment-confirm"     \* what else confirms a payment

ASSUME NobodyIsACall == NoOne \notin Calls /\ ByRest \notin Calls
ASSUME BoundsAreNumbers == MaxMessages \in Nat /\ MaxRounds \in Nat \ {0} /\ MaxFailures \in Nat

VARIABLES
    call,           \* call[c]: the row, as committed
    tx,             \* tx[k]: what the thread has open
    channel,        \* completed calls that Django has not heard of yet
    cart, round,    \* Cart.status, Cart.round
    orderOf,        \* orderOf[r]: the call whose message ordered the round
    failed,         \* failed[c]: completions that were published and rolled back
    overlapped      \* have two emits been at work at once?

vars == <<call, tx, channel, cart, round, orderOf, failed, overlapped>>
djangoVars == <<cart, round, orderOf>>

Rows == [status : {"unborn", "PENDING", "ACCEPTED", "COMPLETED", "CANCELLED", "deleted"},
         session : Sessions \cup {NoOne}]
Locking == {"accept", "cancelAccept", "complete"}
Transactions == [op : Locking \cup {"idle", "emit", "release", "delete", "cancelOrder",
                                     "withdraw", "void"},
                 calls : SUBSET Calls, session : Sessions \cup {NoOne}, stale : BOOLEAN]
Idle == [op |-> "idle", calls |-> {}, session |-> NoOne, stale |-> FALSE]

TypeOK ==
    /\ call \in [Calls -> Rows]
    /\ tx \in [Threads -> Transactions]
    /\ channel \in Seq(Calls) /\ Len(channel) <= MaxMessages
    /\ cart \in {"ACTIVE", "PENDING", "ORDERED"} /\ round \in 1..MaxRounds
    /\ orderOf \in [1..MaxRounds -> Calls \cup {NoOne, ByRest}]
    /\ failed \in [Calls -> 0..MaxFailures]
    /\ overlapped \in BOOLEAN

Init ==
    /\ call = [c \in Calls |-> [status |-> "unborn", session |-> NoOne]]
    /\ tx = [k \in Threads |-> Idle]
    /\ channel = <<>>
    /\ cart = "ACTIVE" /\ round = 1
    /\ orderOf = [r \in 1..MaxRounds |-> NoOne]
    /\ failed = [c \in Calls |-> 0]
    /\ overlapped = FALSE

-----------------------------------------------------------------------------
(* The statuses that keep another call of the same kind away.              *)
Active == {c \in Calls : call[c].status \in {"PENDING", "ACCEPTED"}}

(* Mutant: only calls that nobody has accepted count as the same.          *)
NonePending == \A c \in Calls : call[c].status # "PENDING"

(* emit's count of the calls in progress.                                  *)
NoneActive == Active = {}

Open(k, op, s, rows) ==
    /\ tx[k] = Idle
    /\ tx' = [tx EXCEPT ![k] = [op |-> op, calls |-> rows, session |-> s, stale |-> FALSE]]

(* emit: nothing holds the place of the row that is about to be inserted.  *)
Emit(k) ==
    /\ NoneActive
    /\ Open(k, "emit", NoOne, {})
    /\ overlapped' = (overlapped \/ \E j \in Threads : tx[j].op = "emit")
    /\ UNCHANGED <<call, channel, djangoVars, failed>>

(* Mutant: the query does not lock the row.                                *)
Free(c) == TRUE

(* findByTableCartCallTypeForUpdate waits for whoever has the row, ...     *)
Unlocked(c) == \A k \in Threads : ~(tx[k].op \in Locking /\ c \in tx[k].calls)

(* ... sees no calls that are over, and fails if it finds two.             *)
ForUpdate(c) == Active = {c} /\ Unlocked(c)

Accept(k, s, c) ==
    /\ ForUpdate(c) /\ call[c].status = "PENDING"
    /\ Open(k, "accept", s, {c})
    /\ UNCHANGED <<call, channel, djangoVars, failed, overlapped>>

(* Only by who accepted it; of a call that is PENDING nothing is changed.  *)
CancelAccept(k, s, c) ==
    /\ ForUpdate(c) /\ call[c].status = "ACCEPTED"
    /\ UserOf[call[c].session] = UserOf[s]
    /\ Open(k, "cancelAccept", s, {c})
    /\ UNCHANGED <<call, channel, djangoVars, failed, overlapped>>

(* By anybody.  The message is sent, or lost, before the commit.           *)
Complete(k, s, c) ==
    /\ ForUpdate(c) /\ call[c].status = "ACCEPTED"
    /\ Open(k, "complete", s, {c})
    /\ \/ Len(channel) < MaxMessages /\ channel' = Append(channel, c)
       \/ UNCHANGED channel
    /\ UNCHANGED <<call, djangoVars, failed, overlapped>>

(* A connection of the session was closed.                                 *)
ReleaseBySessionId(k, s) ==
    LET held == {c \in Calls : call[c] = [status |-> "ACCEPTED", session |-> s]}
    IN  /\ held # {}
        /\ Open(k, "release", s, held)
        /\ UNCHANGED <<call, channel, djangoVars, failed, overlapped>>

DeleteByCustomer(k, c) ==
    /\ call[c].status = "PENDING"
    /\ Open(k, "delete", NoOne, {c})
    /\ UNCHANGED <<call, channel, djangoVars, failed, overlapped>>

(* The first half of cancelOrder, up to its request to Django.             *)
CancelOrder(k, c) ==
    /\ call[c].status \in {"PENDING", "ACCEPTED"}
    /\ Open(k, "cancelOrder", NoOne, {c})
    /\ UNCHANGED <<call, channel, djangoVars, failed, overlapped>>

VoidActiveCallsForTable(k) ==
    LET toVoid == {c \in Calls : call[c].status \in {"PENDING", "ACCEPTED", "COMPLETED"}}
    IN  /\ toVoid # {}
        /\ Open(k, "void", NoOne, toVoid)
        /\ UNCHANGED <<call, channel, djangoVars, failed, overlapped>>

-----------------------------------------------------------------------------
(* What a transaction makes of a row it has read.                          *)
Written(op, row, s) ==
    CASE op = "accept"                      -> [status |-> "ACCEPTED", session |-> s]
      [] op \in {"cancelAccept", "release"} -> [status |-> "PENDING", session |-> NoOne]
      [] op = "complete"                    -> [row EXCEPT !.status = "COMPLETED"]
      [] op = "void"                        -> [row EXCEPT !.status = "CANCELLED"]
      [] op \in {"delete", "withdraw"}      -> [row EXCEPT !.status = "deleted"]

(* Mutant: StaffCall has no version.                                       *)
AnyVersion(k) == TRUE

(* @Version: nobody has written a row of the transaction since it read it. *)
VersionsMatch(k) == ~tx[k].stale

Commit(k) ==
    /\ tx[k].op \notin {"idle", "emit", "cancelOrder"}
    /\ \A c \in tx[k].calls : tx[k].op \in Locking \/ Unlocked(c)
    /\ VersionsMatch(k)
    /\ call' = [c \in Calls |-> IF c \in tx[k].calls
                                THEN Written(tx[k].op, call[c], tx[k].session) ELSE call[c]]
    /\ tx' = [j \in Threads |->
                IF j = k THEN Idle
                ELSE [tx[j] EXCEPT !.stale = @ \/ tx[j].calls \cap tx[k].calls # {}]]
    /\ UNCHANGED <<channel, djangoVars, failed, overlapped>>

(* The new row is inserted.                                                *)
CommitEmit(k, c) ==
    /\ tx[k].op = "emit" /\ call[c].status = "unborn"
    /\ call' = [call EXCEPT ![c] = [status |-> "PENDING", session |-> NoOne]]
    /\ tx' = [tx EXCEPT ![k] = Idle]
    /\ UNCHANGED <<channel, djangoVars, failed, overlapped>>

(* The transaction is rolled back: a row is of another version, Django has *)
(* refused, or anything has failed.                                        *)
Fail(k) ==
    /\ tx[k] # Idle
    /\ tx' = [tx EXCEPT ![k] = Idle]
    /\ IF tx[k].op = "complete"
       THEN /\ \A c \in tx[k].calls : failed[c] < MaxFailures
            /\ failed' = [c \in Calls |-> IF c \in tx[k].calls THEN failed[c] + 1 ELSE failed[c]]
       ELSE UNCHANGED failed
    /\ UNCHANGED <<call, channel, djangoVars, overlapped>>

-----------------------------------------------------------------------------
(* The cart in Django: what decides whether a payment may be requested is  *)
(* in Checkout.                                                            *)

EnterPaymentInfo ==
    /\ cart = "ACTIVE"
    /\ cart' = "PENDING"
    /\ UNCHANGED <<call, tx, channel, round, orderOf, failed, overlapped>>

CancelPayment ==
    /\ cart = "PENDING"
    /\ cart' = "ACTIVE"
    /\ UNCHANGED <<round, orderOf>>

(* By the customer, or by cancelOrder, which goes on to delete the call.   *)
CustomerCancels ==
    /\ CancelPayment
    /\ UNCHANGED <<call, tx, channel, failed, overlapped>>

DjangoCancels(k) ==
    /\ tx[k].op = "cancelOrder"
    /\ CancelPayment
    /\ tx' = [tx EXCEPT ![k].op = "withdraw"]
    /\ UNCHANGED <<call, channel, failed, overlapped>>

Confirm(by) ==
    /\ cart = "PENDING"
    /\ cart' = "ORDERED"
    /\ orderOf' = [orderOf EXCEPT ![round] = by]
    /\ UNCHANGED round

(* payment-confirm                                                         *)
ConfirmByRest ==
    /\ Confirm(ByRest)
    /\ UNCHANGED <<call, tx, channel, failed, overlapped>>

(* _handle_staffcall_event: what confirm_payment refuses is forgotten.     *)
HandleCompleted ==
    /\ channel # <<>>
    /\ channel' = Tail(channel)
    /\ Confirm(Head(channel)) \/ UNCHANGED djangoVars
    /\ UNCHANGED <<call, tx, failed, overlapped>>

ResetOrderedCart ==
    /\ cart = "ORDERED" /\ round < MaxRounds
    /\ cart' = "ACTIVE" /\ round' = round + 1
    /\ UNCHANGED <<call, tx, channel, orderOf, failed, overlapped>>

-----------------------------------------------------------------------------
Requests(k) ==
    \/ Emit(k) \/ VoidActiveCallsForTable(k)
    \/ \E s \in Sessions : ReleaseBySessionId(k, s)
    \/ \E c \in Calls : DeleteByCustomer(k, c) \/ CancelOrder(k, c)
    \/ \E s \in Sessions, c \in Calls :
        Accept(k, s, c) \/ CancelAccept(k, s, c) \/ Complete(k, s, c)

Django ==
    EnterPaymentInfo \/ CustomerCancels \/ ConfirmByRest \/ HandleCompleted \/ ResetOrderedCart

Next ==
    \/ \E k \in Threads :
        \/ Requests(k) \/ DjangoCancels(k) \/ Commit(k) \/ Fail(k)
        \/ \E c \in Calls : CommitEmit(k, c)
    \/ Django

Spec == Init /\ [][Next]_vars

-----------------------------------------------------------------------------
(* A cart has one call in progress unless two emits were at work at once:  *)
(* emit's count of earlier calls is all that keeps the second one away,    *)
(* and what accepts, gives back and completes a call finds it by its cart. *)
TwinsOnlyByOverlap == overlapped \/ \A c, d \in Active : c = d

(* Who has accepted a call keeps it until they give it back, or a session  *)
(* it was accepted in is closed: not when an older session's release, read *)
(* before the call went round once more, comes to be committed.            *)
GivesBack(k, c) ==
    /\ tx[k] # Idle /\ tx'[k] = Idle /\ c \in tx[k].calls
    /\ \/ tx[k].op = "cancelAccept" /\ UserOf[tx[k].session] = UserOf[call[c].session]
       \/ tx[k].op = "release" /\ tx[k].session = call[c].session

HeldUntilReleased ==
    [][\A c \in Calls :
        call[c].status = "ACCEPTED" /\ call'[c].status \in {"PENDING", "ACCEPTED"}
            => call'[c] = call[c] \/ \E k \in Threads : GivesBack(k, c)]_vars

(* The calls of which Django was told, or will be, that they are complete. *)
Sent(c) == (\E r \in DOMAIN orderOf : orderOf[r] = c) \/ (\E i \in DOMAIN channel : channel[i] = c)

(* A call that the customer or the staff withdrew, from the cart whose     *)
(* payment was cancelled before, never orders: a completion that overlaps  *)
(* with the withdrawal leaves it COMPLETED, or loses, having published     *)
(* nothing.  (A completion that fails by itself has published before.)     *)
DeletedNeverOrders ==
    \A c \in Calls : call[c].status = "deleted" /\ failed[c] = 0 => ~Sent(c)

(* A call orders one round, however late Django hears of it; each          *)
(* completion that was published and then rolled back may order one more.  *)
OneOrderPerCall ==
    \A c \in Calls :
        Cardinality({r \in 1..MaxRounds : orderOf[r] = c})
            + Cardinality({i \in DOMAIN channel : channel[i] = c}) <= 1 + failed[c]

=============================================================================
