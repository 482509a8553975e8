-------------------------- MODULE StaffCallsProofs --------------------------
(***************************************************************************)
(* Theorems about staff calls, for every set of calls, sessions and        *)
(* threads.  The argument: whoever has locked a row is alone with it and   *)
(* has not been overtaken; whoever has only read it, and has not been      *)
(* overtaken either, still sees it as it is; so every write is the one its *)
(* guard was checked for.                                                  *)
(***************************************************************************)
EXTENDS StaffCalls, Integers, FiniteSetTheorems, TLAPS

(* A transaction that locks its row is alone among those that do.          *)
LocksExclude ==
    \A j, k \in Threads : j # k /\ tx[j].op \in Locking /\ tx[k].op \in Locking
        => tx[j].calls \cap tx[k].calls = {}

LockedIsFresh == \A k \in Threads : tx[k].op \in Locking => ~tx[k].stale

(* What the guard of each operation established is true of its rows as     *)
(* long as nobody else has written one.                                    *)
AsChecked(t, row) ==
    /\ t.op = "accept" => row.status = "PENDING"
    /\ t.op = "cancelAccept" => row.status = "ACCEPTED" /\ UserOf[row.session] = UserOf[t.session]
    /\ t.op = "complete" => row.status = "ACCEPTED"
    /\ t.op = "release" => row.status = "ACCEPTED" /\ row.session = t.session
    /\ t.op = "delete" => row.status = "PENDING"
    /\ t.op \in {"cancelOrder", "withdraw"} => row.status \in {"PENDING", "ACCEPTED"}
    /\ t.op = "void" => row.status \in {"PENDING", "ACCEPTED", "COMPLETED"}

FreshIsAsChecked ==
    \A k \in Threads : ~tx[k].stale => \A c \in tx[k].calls : AsChecked(tx[k], call[c])

RowlessIsEmpty == \A k \in Threads : tx[k].op \in {"idle", "emit"} => tx[k].calls = {}

(* A call Django was told of is over, or its completion is about to be.    *)
SentIsOver ==
    \A c \in Calls : Sent(c) /\ failed[c] = 0 =>
        \/ call[c].status \in {"COMPLETED", "CANCELLED"}
        \/ \E k \in Threads : tx[k].op = "complete" /\ c \in tx[k].calls

(* Emits that never overlap insert at most one active call.                *)
EmitsAlone ==
    ~overlapped =>
        /\ \A j, k \in Threads : tx[j].op = "emit" /\ tx[k].op = "emit" => j = k
        /\ (\E k \in Threads : tx[k].op = "emit") => Active = {}
        /\ \A c, d \in Active : c = d

IInv ==
    /\ TypeOK
    /\ LocksExclude
    /\ LockedIsFresh
    /\ FreshIsAsChecked
    /\ RowlessIsEmpty
    /\ SentIsOver
    /\ EmitsAlone

-----------------------------------------------------------------------------
(* What each operation makes of a row.                                     *)
LEMMA WrittenIs ==
    ASSUME NEW row \in Rows, NEW s
    PROVE  /\ Written("accept", row, s) = [status |-> "ACCEPTED", session |-> s]
           /\ Written("cancelAccept", row, s) = [status |-> "PENDING", session |-> NoOne]
           /\ Written("release", row, s) = [status |-> "PENDING", session |-> NoOne]
           /\ Written("complete", row, s) = [row EXCEPT !.status = "COMPLETED"]
           /\ Written("void", row, s) = [row EXCEPT !.status = "CANCELLED"]
           /\ Written("delete", row, s) = [row EXCEPT !.status = "deleted"]
           /\ Written("withdraw", row, s) = [row EXCEPT !.status = "deleted"]
BY DEF Written

(* Every operation there is, but those that write no row.                  *)
Writing == {"accept", "cancelAccept", "release", "complete", "void", "delete", "withdraw"}

LEMMA WrittenInRows ==
    ASSUME NEW row \in Rows, NEW s \in Sessions \cup {NoOne}, NEW op \in Writing
    PROVE  Written(op, row, s) \in Rows
<1> USE DEF Rows
<1>1. CASE op = "accept" BY <1>1, WrittenIs
<1>2. CASE op \in {"cancelAccept", "release"} BY <1>2, WrittenIs
<1>3. CASE op = "complete" BY <1>3, WrittenIs
<1>4. CASE op = "void" BY <1>4, WrittenIs
<1>5. CASE op \in {"delete", "withdraw"} BY <1>5, WrittenIs
<1> QED
    BY <1>1, <1>2, <1>3, <1>4, <1>5 DEF Writing

LEMMA IInvInit == Init => IInv
<1> SUFFICES ASSUME Init PROVE IInv
    OBVIOUS
<1>1. TypeOK
    <2>1. Idle \in Transactions
        BY DEF Idle, Transactions, Locking
    <2>2. channel \in Seq(Calls) /\ Len(channel) = 0
        BY DEF Init
    <2>3. failed \in [Calls -> 0..MaxFailures] /\ 1 \in 1..MaxRounds
        BY BoundsAreNumbers DEF Init
    <2>4. call \in [Calls -> Rows]
        BY DEF Init, Rows
    <2>5. tx \in [Threads -> Transactions]
        BY <2>1 DEF Init
    <2>6. orderOf \in [1..MaxRounds -> Calls \cup {NoOne, ByRest}]
        BY DEF Init
    <2>7. cart = "ACTIVE" /\ round = 1 /\ overlapped = FALSE
        BY DEF Init
    <2>8. Len(channel) <= MaxMessages
        BY <2>2, BoundsAreNumbers
    <2> QED
        BY <2>2, <2>3, <2>4, <2>5, <2>6, <2>7, <2>8 DEF TypeOK
<1>2. LocksExclude /\ LockedIsFresh /\ FreshIsAsChecked /\ RowlessIsEmpty
    BY DEF Init, LocksExclude, LockedIsFresh, FreshIsAsChecked, RowlessIsEmpty, Idle, Locking
<1>3. SentIsOver
    BY NobodyIsACall DEF Init, SentIsOver, Sent
<1>4. EmitsAlone
    BY DEF Init, EmitsAlone, Active, Idle
<1> QED
    BY <1>1, <1>2, <1>3, <1>4 DEF IInv

(* A request opens transaction t, about rows that are as its guard says.   *)
OpensWith(k, t) ==
    /\ tx[k] = Idle /\ tx' = [tx EXCEPT ![k] = t]
    /\ t \in Transactions /\ t.op \notin {"idle", "withdraw"} /\ ~t.stale
    /\ \A c \in t.calls : AsChecked(t, call[c])
    /\ t.op \in Locking => \A c \in t.calls : Unlocked(c)
    /\ t.op = "emit" => t.calls = {} /\ NoneActive
    /\ IF t.op = "emit" THEN overlapped' = (overlapped \/ \E j \in Threads : tx[j].op = "emit")
                        ELSE UNCHANGED overlapped
    /\ \/ UNCHANGED channel
       \/ \E c \in t.calls : /\ t.op = "complete" /\ Len(channel) < MaxMessages
                             /\ channel' = Append(channel, c)
    /\ UNCHANGED <<call, djangoVars, failed>>

LEMMA RequestsOpen ==
    ASSUME TypeOK, NEW k \in Threads, Requests(k)
    PROVE  \E t : OpensWith(k, t)
<1> DEFINE t(op, s, rows) == [op |-> op, calls |-> rows, session |-> s, stale |-> FALSE]
<1> USE DEF Open, Transactions, Locking, AsChecked, TypeOK
<1>1. CASE Emit(k)
    <2>1. OpensWith(k, t("emit", NoOne, {}))
        BY <1>1 DEF Emit, OpensWith
    <2> QED BY <2>1
<1>2. CASE VoidActiveCallsForTable(k)
    <2> DEFINE toVoid == {c \in Calls : call[c].status \in {"PENDING", "ACCEPTED", "COMPLETED"}}
    <2>1. OpensWith(k, t("void", NoOne, toVoid))
        BY <1>2 DEF VoidActiveCallsForTable, OpensWith
    <2> QED BY <2>1
<1>3. ASSUME NEW s \in Sessions, ReleaseBySessionId(k, s) PROVE \E u : OpensWith(k, u)
    <2> DEFINE held == {c \in Calls : call[c] = [status |-> "ACCEPTED", session |-> s]}
    <2>1. OpensWith(k, t("release", s, held))
        BY <1>3 DEF ReleaseBySessionId, OpensWith
    <2> QED BY <2>1
<1>4. ASSUME NEW c \in Calls, DeleteByCustomer(k, c) PROVE \E u : OpensWith(k, u)
    <2>1. OpensWith(k, t("delete", NoOne, {c}))
        BY <1>4 DEF DeleteByCustomer, OpensWith
    <2> QED BY <2>1
<1>5. ASSUME NEW c \in Calls, CancelOrder(k, c) PROVE \E u : OpensWith(k, u)
    <2>1. OpensWith(k, t("cancelOrder", NoOne, {c}))
        BY <1>5 DEF CancelOrder, OpensWith
    <2> QED BY <2>1
<1>6. ASSUME NEW s \in Sessions, NEW c \in Calls, Accept(k, s, c) PROVE \E u : OpensWith(k, u)
    <2>1. OpensWith(k, t("accept", s, {c}))
        BY <1>6 DEF Accept, ForUpdate, OpensWith
    <2> QED BY <2>1
<1>7. ASSUME NEW s \in Sessions, NEW c \in Calls, CancelAccept(k, s, c) PROVE \E u : OpensWith(k, u)
    <2>1. OpensWith(k, t("cancelAccept", s, {c}))
        BY <1>7 DEF CancelAccept, ForUpdate, OpensWith
    <2> QED BY <2>1
<1>8. ASSUME NEW s \in Sessions, NEW c \in Calls, Complete(k, s, c) PROVE \E u : OpensWith(k, u)
    <2>1. OpensWith(k, t("complete", s, {c}))
        BY <1>8 DEF Complete, ForUpdate, OpensWith
    <2> QED BY <2>1
<1> QED
    BY <1>1, <1>2, <1>3, <1>4, <1>5, <1>6, <1>7, <1>8 DEF Requests

(* Of the rows' invariants, that they survive an opening.                  *)
LEMMA OpenKeeps ==
    ASSUME IInv, NEW k \in Threads, Requests(k)
    PROVE  IInv'
<1>1. PICK t : OpensWith(k, t)
    BY RequestsOpen DEF IInv
<1> USE DEF OpensWith
<1>2. /\ tx'[k] = t /\ tx[k].op = "idle" /\ tx[k].calls = {}
      /\ \A j \in Threads : j # k => tx'[j] = tx[j]
    BY <1>1 DEF IInv, TypeOK, Idle
<1>3. TypeOK'
    <2>1. tx' \in [Threads -> Transactions]
        BY <1>1 DEF IInv, TypeOK
    <2>2. channel' \in Seq(Calls) /\ Len(channel') <= MaxMessages
        <3>1. CASE UNCHANGED channel
            BY <3>1 DEF IInv, TypeOK
        <3>2. ASSUME NEW c \in t.calls, Len(channel) < MaxMessages, channel' = Append(channel, c)
              PROVE  channel' \in Seq(Calls) /\ Len(channel') <= MaxMessages
            <4>1. c \in Calls /\ channel \in Seq(Calls)
                BY <1>1 DEF IInv, TypeOK, Transactions
            <4> QED BY <3>2, <4>1, BoundsAreNumbers
        <3> QED BY <1>1, <3>1, <3>2
    <2>3. overlapped' \in BOOLEAN
        BY <1>1 DEF IInv, TypeOK
    <2> QED
        BY <1>1, <2>1, <2>2, <2>3 DEF IInv, TypeOK, djangoVars
<1>4. LocksExclude'
    BY <1>1, <1>2 DEF IInv, LocksExclude, Unlocked
<1>5. LockedIsFresh'
    BY <1>1, <1>2 DEF IInv, LockedIsFresh
<1>6. FreshIsAsChecked'
    BY <1>1, <1>2 DEF IInv, FreshIsAsChecked, AsChecked
<1>7. RowlessIsEmpty'
    BY <1>1, <1>2 DEF IInv, RowlessIsEmpty
<1>8. SentIsOver'
    <2> SUFFICES ASSUME NEW c \in Calls, Sent(c)', failed'[c] = 0
                 PROVE  \/ call'[c].status \in {"COMPLETED", "CANCELLED"}
                        \/ \E j \in Threads : tx'[j].op = "complete" /\ c \in tx'[j].calls
        BY DEF SentIsOver
    <2>1. CASE Sent(c)
        BY <2>1, <1>1, <1>2 DEF IInv, SentIsOver, djangoVars
    <2>2. CASE ~Sent(c)
        <3>1. t.op = "complete" /\ c \in t.calls
            <4>1. PICK i \in DOMAIN channel' : channel'[i] = c
                BY <2>2, <1>1 DEF Sent, djangoVars
            <4>2. channel' # channel
                BY <2>2, <4>1 DEF Sent
            <4>3. PICK d \in t.calls : t.op = "complete" /\ channel' = Append(channel, d)
                BY <1>1, <4>2
            <4>4. channel \in Seq(Calls) /\ d \in Calls
                BY <1>1, <4>3 DEF IInv, TypeOK, Transactions
            <4>5. i \in 1..Len(channel) + 1
                BY <4>1, <4>3, <4>4
            <4>6. CASE i = Len(channel) + 1
                BY <4>1, <4>3, <4>4, <4>6
            <4>7. CASE i \in 1..Len(channel)
                BY <2>2, <4>1, <4>3, <4>4, <4>7 DEF Sent
            <4>8. Len(channel) \in Nat
                BY <4>4
            <4>9. i = Len(channel) + 1 \/ i \in 1..Len(channel)
                BY <4>5, <4>8
            <4> QED BY <4>6, <4>7, <4>9
        <3> QED BY <3>1, <1>2
    <2> QED BY <2>1, <2>2
<1>9. EmitsAlone'
    <2> SUFFICES ASSUME ~overlapped' PROVE EmitsAlone'
        BY DEF EmitsAlone
    <2>1. EmitsAlone /\ ~overlapped
        BY <1>1 DEF IInv, EmitsAlone
    <2>2. Active' = Active
        BY <1>1 DEF Active, djangoVars
    <2>3. CASE t.op # "emit"
        BY <1>2, <2>1, <2>2, <2>3 DEF EmitsAlone
    <2>4. CASE t.op = "emit"
        BY <1>1, <1>2, <2>1, <2>2, <2>4 DEF EmitsAlone, NoneActive
    <2> QED BY <2>3, <2>4
<1> QED
    BY <1>3, <1>4, <1>5, <1>6, <1>7, <1>8, <1>9 DEF IInv

-----------------------------------------------------------------------------
(* A transaction that may commit finds its rows as it read them, and only  *)
(* those that locked them can be about a row that somebody has locked.     *)
LEMMA CommitFinds ==
    ASSUME IInv, NEW k \in Threads, Commit(k)
    PROVE  /\ \A c \in tx[k].calls : c \in Calls /\ AsChecked(tx[k], call[c])
           /\ tx[k].op \in Writing /\ ~tx[k].stale
           /\ \A j \in Threads, c \in tx[k].calls :
                j # k /\ tx[j].op \in Locking => c \notin tx[j].calls
           /\ \A c \in Calls : call'[c] = IF c \in tx[k].calls
                                THEN Written(tx[k].op, call[c], tx[k].session) ELSE call[c]
           /\ \A j \in Threads : tx'[j] = IF j = k THEN Idle
                ELSE [tx[j] EXCEPT !.stale = @ \/ tx[j].calls \cap tx[k].calls # {}]
<1>1. tx[k] \in Transactions /\ ~tx[k].stale
    BY DEF Commit, VersionsMatch, IInv, TypeOK
<1>2. tx[k].op \in Writing
    BY <1>1 DEF Commit, Transactions, Locking, Writing
<1>3. \A c \in tx[k].calls : c \in Calls /\ AsChecked(tx[k], call[c])
    BY <1>1 DEF IInv, FreshIsAsChecked, Transactions
<1>4. \A j \in Threads, c \in tx[k].calls : j # k /\ tx[j].op \in Locking => c \notin tx[j].calls
    BY DEF Commit, Unlocked, IInv, LocksExclude
<1> QED
    BY <1>1, <1>2, <1>3, <1>4 DEF Commit

(* What a commit makes of its rows: an active call only out of one.        *)
LEMMA CommitMakes ==
    ASSUME IInv, NEW k \in Threads, Commit(k), NEW c \in tx[k].calls
    PROVE  /\ call'[c] \in Rows
           /\ call'[c].status \in {"PENDING", "ACCEPTED"} => call[c].status \in {"PENDING", "ACCEPTED"}
           /\ call[c].status = "COMPLETED" => call'[c].status = "CANCELLED"
           /\ call[c].status # "CANCELLED"
           /\ tx[k].op = "complete" => call'[c].status = "COMPLETED"
           /\ call[c].status = "ACCEPTED" /\ call'[c].status \in {"PENDING", "ACCEPTED"} =>
                \/ tx[k].op = "cancelAccept" /\ UserOf[call[c].session] = UserOf[tx[k].session]
                \/ tx[k].op = "release" /\ call[c].session = tx[k].session
<1> DEFINE s == tx[k].session
<1>1. /\ c \in Calls /\ AsChecked(tx[k], call[c]) /\ tx[k].op \in Writing
      /\ call'[c] = Written(tx[k].op, call[c], s)
    BY CommitFinds
<1>2. call[c] \in Rows /\ s \in Sessions \cup {NoOne}
    BY <1>1 DEF IInv, TypeOK, Transactions
<1>3. call'[c] \in Rows
    BY <1>1, <1>2, WrittenInRows
<1> USE DEF AsChecked, Rows
<1>4. CASE tx[k].op = "accept" BY <1>1, <1>2, <1>3, <1>4, WrittenIs
<1>5. CASE tx[k].op = "cancelAccept" BY <1>1, <1>2, <1>3, <1>5, WrittenIs
<1>6. CASE tx[k].op = "release" BY <1>1, <1>2, <1>3, <1>6, WrittenIs
<1>7. CASE tx[k].op = "complete" BY <1>1, <1>2, <1>3, <1>7, WrittenIs
<1>8. CASE tx[k].op = "void" BY <1>1, <1>2, <1>3, <1>8, WrittenIs
<1>9. CASE tx[k].op \in {"delete", "withdraw"} BY <1>1, <1>2, <1>3, <1>9, WrittenIs
<1> QED
    BY <1>1, <1>4, <1>5, <1>6, <1>7, <1>8, <1>9 DEF Writing

LEMMA CommitKeeps ==
    ASSUME IInv, NEW k \in Threads, Commit(k)
    PROVE  IInv'
<1>1. /\ tx[k].op \in Writing /\ ~tx[k].stale
      /\ \A j \in Threads, c \in tx[k].calls :
            j # k /\ tx[j].op \in Locking => c \notin tx[j].calls
      /\ \A c \in Calls : c \notin tx[k].calls => call'[c] = call[c]
    BY CommitFinds
<1>2. \A j \in Threads : j # k =>
        /\ tx'[j].op = tx[j].op /\ tx'[j].calls = tx[j].calls /\ tx'[j].session = tx[j].session
        /\ tx'[j].stale = (tx[j].stale \/ tx[j].calls \cap tx[k].calls # {})
    <2> SUFFICES ASSUME NEW j \in Threads, j # k
                 PROVE  /\ tx'[j].op = tx[j].op /\ tx'[j].calls = tx[j].calls
                        /\ tx'[j].session = tx[j].session
                        /\ tx'[j].stale = (tx[j].stale \/ tx[j].calls \cap tx[k].calls # {})
        OBVIOUS
    <2> DEFINE stale == tx[j].stale \/ tx[j].calls \cap tx[k].calls # {}
    <2>1. tx'[j] = [tx[j] EXCEPT !.stale = stale]
        BY DEF Commit
    <2>2. tx[j] \in Transactions
        BY DEF IInv, TypeOK
    <2> HIDE DEF stale
    <2>3. /\ tx'[j].op = tx[j].op /\ tx'[j].calls = tx[j].calls /\ tx'[j].session = tx[j].session
          /\ tx'[j].stale = stale
        BY <2>1, <2>2 DEF Transactions
    <2> QED BY <2>3 DEF stale
<1>3. tx'[k].op = "idle" /\ tx'[k].calls = {} /\ ~tx'[k].stale
    <2>1. tx'[k] = Idle
        BY DEF Commit
    <2> QED BY <2>1 DEF Idle
<1>4. TypeOK'
    <2>1. call' \in [Calls -> Rows]
        <3>1. \A c \in Calls : call'[c] \in Rows
            BY <1>1, CommitMakes DEF IInv, TypeOK
        <3> QED BY <3>1 DEF Commit
    <2>2. tx' \in [Threads -> Transactions]
        <3>1. Idle \in Transactions
            BY DEF Idle, Transactions, Locking
        <3>2. \A j \in Threads : [tx[j] EXCEPT !.stale = @ \/ tx[j].calls \cap tx[k].calls # {}] \in Transactions
            BY DEF IInv, TypeOK, Transactions
        <3> QED BY <3>1, <3>2 DEF Commit
    <2> QED
        BY <2>1, <2>2 DEF Commit, djangoVars, IInv, TypeOK
<1>5. LocksExclude'
    BY <1>2, <1>3 DEF IInv, LocksExclude
<1>6. LockedIsFresh'
    BY <1>1, <1>2, <1>3 DEF IInv, LockedIsFresh
<1>7. FreshIsAsChecked'
    <2> SUFFICES ASSUME NEW j \in Threads, ~tx'[j].stale, NEW c \in tx'[j].calls
                 PROVE  AsChecked(tx'[j], call'[c])
        BY DEF FreshIsAsChecked
    <2>1. j # k
        BY <1>3
    <2>2. c \in tx[j].calls /\ ~tx[j].stale /\ c \notin tx[k].calls
        BY <1>2, <2>1
    <2>3. c \in Calls /\ AsChecked(tx[j], call[c])
        BY <2>2 DEF IInv, FreshIsAsChecked, TypeOK, Transactions
    <2> QED
        BY <1>1, <1>2, <2>1, <2>2, <2>3 DEF AsChecked
<1>8. RowlessIsEmpty'
    BY <1>2, <1>3 DEF IInv, RowlessIsEmpty
<1>9. SentIsOver'
    <2> SUFFICES ASSUME NEW c \in Calls, Sent(c), failed[c] = 0
                 PROVE  \/ call'[c].status \in {"COMPLETED", "CANCELLED"}
                        \/ \E j \in Threads : tx'[j].op = "complete" /\ c \in tx'[j].calls
        BY DEF SentIsOver, Sent, Commit, djangoVars
    <2>1. CASE call[c].status \in {"COMPLETED", "CANCELLED"}
        BY <2>1, <1>1, CommitMakes
    <2>2. ASSUME NEW j \in Threads, tx[j].op = "complete", c \in tx[j].calls
          PROVE  \/ call'[c].status \in {"COMPLETED", "CANCELLED"}
                 \/ \E i \in Threads : tx'[i].op = "complete" /\ c \in tx'[i].calls
        BY <2>2, <1>2, CommitMakes
    <2> QED
        BY <2>1, <2>2 DEF IInv, SentIsOver
<1>10. EmitsAlone'
    <2>1. Active' \subseteq Active
        BY <1>1, CommitMakes DEF Active
    <2>2. overlapped' = overlapped
        BY DEF Commit
    <2>3. \A j \in Threads : tx'[j].op = "emit" => tx[j].op = "emit"
        BY <1>2, <1>3
    <2> QED
        BY <2>1, <2>2, <2>3 DEF IInv, EmitsAlone
<1> QED
    BY <1>4, <1>5, <1>6, <1>7, <1>8, <1>9, <1>10 DEF IInv

LEMMA CommitEmitKeeps ==
    ASSUME IInv, NEW k \in Threads, NEW c \in Calls, CommitEmit(k, c)
    PROVE  IInv'
<1>1. /\ tx'[k] = Idle /\ tx[k].op = "emit" /\ tx[k].calls = {}
      /\ \A j \in Threads : j # k => tx'[j] = tx[j]
    BY DEF CommitEmit, IInv, TypeOK, RowlessIsEmpty
<1>2. /\ call[c].status = "unborn" /\ call'[c] = [status |-> "PENDING", session |-> NoOne]
      /\ \A d \in Calls : d # c => call'[d] = call[d]
    BY DEF CommitEmit, IInv, TypeOK
<1>3. TypeOK'
    <2>1. Idle \in Transactions
        BY DEF Idle, Transactions, Locking
    <2>2. [status |-> "PENDING", session |-> NoOne] \in Rows
        BY DEF Rows
    <2> QED
        BY <2>1, <2>2 DEF CommitEmit, djangoVars, IInv, TypeOK
<1>4. tx'[k].op = "idle" /\ tx'[k].calls = {} /\ ~tx'[k].stale
    BY <1>1 DEF Idle
<1>5. LocksExclude' /\ LockedIsFresh' /\ RowlessIsEmpty'
    BY <1>1, <1>4 DEF IInv, LocksExclude, LockedIsFresh, RowlessIsEmpty
<1>6. FreshIsAsChecked'
    <2> SUFFICES ASSUME NEW j \in Threads, ~tx'[j].stale, NEW d \in tx'[j].calls
                 PROVE  AsChecked(tx'[j], call'[d])
        BY DEF FreshIsAsChecked
    <2>1. j # k /\ tx'[j] = tx[j]
        BY <1>1, <1>4
    <2>2. d \in Calls /\ AsChecked(tx[j], call[d]) /\ tx[j] \in Transactions
        BY <2>1 DEF IInv, FreshIsAsChecked, TypeOK, Transactions
    <2>3. CASE d # c
        BY <2>1, <2>2, <2>3, <1>2
    <2>4. CASE d = c
        <3>1. tx[j].op \in {"idle", "emit"}
            BY <2>2, <2>4, <1>2 DEF AsChecked, Transactions, Locking
        <3> QED BY <3>1, <2>1 DEF IInv, RowlessIsEmpty
    <2> QED BY <2>3, <2>4
<1>7. SentIsOver'
    BY <1>1, <1>2, <1>4 DEF CommitEmit, djangoVars, IInv, SentIsOver, Sent
<1>8. EmitsAlone'
    <2> SUFFICES ASSUME ~overlapped
                 PROVE  /\ \A i, j \in Threads : tx'[i].op = "emit" /\ tx'[j].op = "emit" => i = j
                        /\ (\E j \in Threads : tx'[j].op = "emit") => Active' = {}
                        /\ \A b, d \in Active' : b = d
        BY DEF EmitsAlone, CommitEmit
    <2>1. Active = {} /\ \A i, j \in Threads : tx[i].op = "emit" /\ tx[j].op = "emit" => i = j
        BY <1>1 DEF IInv, EmitsAlone
    <2>2. \A j \in Threads : tx'[j].op # "emit"
        BY <2>1, <1>1, <1>4
    <2>3. Active' \subseteq {c}
        BY <2>1, <1>2 DEF Active
    <2> QED BY <2>2, <2>3
<1> QED
    BY <1>3, <1>5, <1>6, <1>7, <1>8 DEF IInv

LEMMA FailKeeps ==
    ASSUME IInv, NEW k \in Threads, Fail(k)
    PROVE  IInv'
<1>1. tx'[k] = Idle /\ \A j \in Threads : j # k => tx'[j] = tx[j]
    BY DEF Fail, IInv, TypeOK
<1>2. tx'[k].op = "idle" /\ tx'[k].calls = {} /\ ~tx'[k].stale
    BY <1>1 DEF Idle
<1>3. /\ failed' \in [Calls -> 0..MaxFailures]
      /\ \A c \in Calls : failed'[c] = 0 => failed[c] = 0
      /\ tx[k].op = "complete" => \A c \in tx[k].calls : failed'[c] # 0
    <2>1. tx[k].calls \subseteq Calls /\ failed \in [Calls -> 0..MaxFailures]
        BY DEF IInv, TypeOK, Transactions
    <2>2. CASE tx[k].op # "complete"
        BY <2>1, <2>2 DEF Fail
    <2>3. CASE tx[k].op = "complete"
        <3>1. /\ \A c \in tx[k].calls : failed[c] < MaxFailures
              /\ failed' = [c \in Calls |-> IF c \in tx[k].calls THEN failed[c] + 1 ELSE failed[c]]
            BY <2>3 DEF Fail
        <3>2. \A c \in Calls : /\ failed[c] \in 0..MaxFailures
                              /\ failed'[c] = IF c \in tx[k].calls THEN failed[c] + 1 ELSE failed[c]
            BY <2>1, <3>1
        <3>3. \A c \in Calls : failed'[c] \in 0..MaxFailures
            BY <3>1, <3>2, BoundsAreNumbers
        <3> QED
            BY <2>1, <3>1, <3>2, <3>3
    <2> QED BY <2>2, <2>3
<1>4. TypeOK'
    <2>1. Idle \in Transactions
        BY DEF Idle, Transactions, Locking
    <2> QED
        BY <2>1, <1>3 DEF Fail, djangoVars, IInv, TypeOK
<1>5. LocksExclude' /\ LockedIsFresh' /\ RowlessIsEmpty'
    BY <1>1, <1>2 DEF IInv, LocksExclude, LockedIsFresh, RowlessIsEmpty
<1>6. FreshIsAsChecked'
    BY <1>1, <1>2 DEF Fail, IInv, FreshIsAsChecked
<1>7. SentIsOver'
    BY <1>1, <1>2, <1>3 DEF Fail, djangoVars, IInv, SentIsOver, Sent
<1>8. EmitsAlone'
    BY <1>1, <1>2 DEF Fail, IInv, EmitsAlone, Active
<1> QED
    BY <1>4, <1>5, <1>6, <1>7, <1>8 DEF IInv

(* What Django does to the cart: a call comes to be sent in no other way   *)
(* than by Complete, of which HandleCompleted hears.                       *)
LEMMA DjangoSends ==
    ASSUME IInv, Django \/ \E k \in Threads : DjangoCancels(k)
    PROVE  /\ \A c \in Calls : Sent(c)' => Sent(c)
           /\ channel' \in Seq(Calls) /\ Len(channel') <= MaxMessages
           /\ cart' \in {"ACTIVE", "PENDING", "ORDERED"} /\ round' \in 1..MaxRounds
           /\ orderOf' \in [1..MaxRounds -> Calls \cup {NoOne, ByRest}]
<1> USE DEF IInv, TypeOK, djangoVars
<1>1. CASE EnterPaymentInfo
    BY <1>1 DEF EnterPaymentInfo, Sent
<1>2. CASE CancelPayment /\ UNCHANGED channel
    BY <1>2 DEF CancelPayment, Sent
<1>3. CASE ConfirmByRest
    BY <1>3, NobodyIsACall DEF ConfirmByRest, Confirm, Sent
<1>4. CASE HandleCompleted
    <2>1. /\ channel \in Seq(Calls) /\ channel # <<>> /\ channel' = Tail(channel)
          /\ Head(channel) \in Calls
        BY <1>4 DEF HandleCompleted
    <2>2. channel' \in Seq(Calls) /\ Len(channel') = Len(channel) - 1 /\ Len(channel) \in Nat
        BY <2>1
    <2>3. \A i \in DOMAIN channel' : i + 1 \in DOMAIN channel /\ channel'[i] = channel[i + 1]
        BY <2>1
    <2>4. 1 \in DOMAIN channel /\ Head(channel) = channel[1]
        BY <2>1
    <2>5. \/ UNCHANGED djangoVars
          \/ /\ orderOf' = [orderOf EXCEPT ![round] = Head(channel)]
             /\ cart' = "ORDERED" /\ round' = round
        BY <1>4 DEF HandleCompleted, Confirm
    <2>6. /\ DOMAIN orderOf' = DOMAIN orderOf
          /\ \A r \in DOMAIN orderOf : orderOf'[r] \in {orderOf[r], channel[1]}
        BY <2>4, <2>5
    <2>7. \A c \in Calls : Sent(c)' => Sent(c)
        BY <2>3, <2>4, <2>6 DEF Sent
    <2> QED
        BY <2>1, <2>2, <2>5, <2>7, BoundsAreNumbers
<1>5. CASE ResetOrderedCart
    BY <1>5, BoundsAreNumbers DEF ResetOrderedCart, Sent
<1> QED
    BY <1>1, <1>2, <1>3, <1>4, <1>5 DEF Django, CustomerCancels, DjangoCancels

LEMMA DjangoKeeps ==
    ASSUME IInv, Django
    PROVE  IInv'
<1>1. UNCHANGED <<call, tx, failed, overlapped>>
    BY DEF Django, EnterPaymentInfo, CustomerCancels, ConfirmByRest, HandleCompleted,
       ResetOrderedCart
<1>2. TypeOK'
    BY <1>1, DjangoSends DEF IInv, TypeOK
<1>3. SentIsOver'
    BY <1>1, DjangoSends DEF IInv, SentIsOver
<1> QED
    BY <1>1, <1>2, <1>3 DEF IInv, LocksExclude, LockedIsFresh, FreshIsAsChecked,
       RowlessIsEmpty, EmitsAlone, Active

LEMMA DjangoCancelsKeeps ==
    ASSUME IInv, NEW k \in Threads, DjangoCancels(k)
    PROVE  IInv'
<1>1. UNCHANGED <<call, failed, overlapped>>
    BY DEF DjangoCancels
<1>2. /\ tx[k].op = "cancelOrder" /\ tx'[k].op = "withdraw"
      /\ tx'[k].calls = tx[k].calls /\ tx'[k].stale = tx[k].stale
      /\ \A j \in Threads : j # k => tx'[j] = tx[j]
    BY DEF DjangoCancels, IInv, TypeOK, Transactions
<1>3. TypeOK'
    <2>1. tx' \in [Threads -> Transactions]
        BY ZenonT(60) DEF DjangoCancels, IInv, TypeOK, Transactions
    <2> QED
        BY <1>1, <2>1, DjangoSends DEF IInv, TypeOK
<1>4. LocksExclude' /\ LockedIsFresh' /\ RowlessIsEmpty'
    BY <1>2 DEF IInv, LocksExclude, LockedIsFresh, RowlessIsEmpty, Locking
<1>5. FreshIsAsChecked'
    BY <1>1, <1>2 DEF IInv, FreshIsAsChecked, AsChecked
<1>6. SentIsOver'
    BY <1>1, <1>2, DjangoSends DEF IInv, SentIsOver
<1>7. EmitsAlone'
    BY <1>1, <1>2 DEF IInv, EmitsAlone, Active
<1> QED
    BY <1>3, <1>4, <1>5, <1>6, <1>7 DEF IInv

LEMMA IInvNext == IInv /\ [Next]_vars => IInv'
<1> SUFFICES ASSUME IInv, [Next]_vars PROVE IInv'
    OBVIOUS
<1>1. CASE UNCHANGED vars
    BY <1>1 DEF vars, djangoVars, IInv, TypeOK, LocksExclude, LockedIsFresh, FreshIsAsChecked,
       RowlessIsEmpty, SentIsOver, Sent, EmitsAlone, Active
<1>2. CASE Next
    BY <1>2, OpenKeeps, DjangoCancelsKeeps, CommitKeeps, FailKeeps, CommitEmitKeeps,
       DjangoKeeps DEF Next
<1> QED
    BY <1>1, <1>2

LEMMA IInvAlways == Spec => []IInv
BY IInvInit, IInvNext, PTL DEF Spec

-----------------------------------------------------------------------------
(* The rows, the transactions and the cart keep their types.               *)
THEOREM TypeCorrect == Spec => []TypeOK
BY IInvAlways, PTL DEF IInv

(* Two calls in progress at one cart come from two emits at work at once.  *)
THEOREM TwinsComeFromOverlap == Spec => []TwinsOnlyByOverlap
<1>1. IInv => TwinsOnlyByOverlap
    BY DEF IInv, EmitsAlone, TwinsOnlyByOverlap
<1> QED
    BY <1>1, IInvAlways, PTL

(* A call that was withdrawn never orders.                                 *)
THEOREM WithdrawnNeverOrders == Spec => []DeletedNeverOrders
<1>1. IInv => DeletedNeverOrders
    <2> SUFFICES ASSUME IInv, NEW c \in Calls, call[c].status = "deleted", failed[c] = 0, Sent(c)
                 PROVE  FALSE
        BY DEF DeletedNeverOrders
    <2>1. PICK k \in Threads : tx[k].op = "complete" /\ c \in tx[k].calls
        BY DEF IInv, SentIsOver
    <2>2. AsChecked(tx[k], call[c])
        BY <2>1 DEF IInv, LockedIsFresh, FreshIsAsChecked, Locking
    <2> QED
        BY <2>1, <2>2 DEF AsChecked
<1> QED
    BY <1>1, IInvAlways, PTL

(* An accepted call leaves its holder only by the holder's own hand.       *)
THEOREM AcceptedCallsAreHeld == Spec => HeldUntilReleased
<1> DEFINE Held == \A c \in Calls :
        call[c].status = "ACCEPTED" /\ call'[c].status \in {"PENDING", "ACCEPTED"}
            => call'[c] = call[c] \/ \E k \in Threads : GivesBack(k, c)
<1>1. IInv /\ [Next]_vars => [Held]_vars
    <2> SUFFICES ASSUME IInv, Next, NEW c \in Calls, call[c].status = "ACCEPTED",
                        call'[c].status \in {"PENDING", "ACCEPTED"}, call'[c] # call[c]
                 PROVE  \E k \in Threads : GivesBack(k, c)
        OBVIOUS
    <2>1. ASSUME NEW k \in Threads, Commit(k) PROVE GivesBack(k, c)
        <3>1. c \in tx[k].calls /\ tx[k].op # "idle" /\ tx'[k] = Idle
            BY <2>1, CommitFinds DEF Writing
        <3>2. \/ tx[k].op = "cancelAccept" /\ UserOf[call[c].session] = UserOf[tx[k].session]
              \/ tx[k].op = "release" /\ call[c].session = tx[k].session
            BY <2>1, <3>1, CommitMakes
        <3> QED
            BY <3>1, <3>2 DEF GivesBack, Idle
    <2>2. ASSUME NEW k \in Threads, NEW d \in Calls, CommitEmit(k, d) PROVE FALSE
        BY <2>2 DEF CommitEmit, IInv, TypeOK
    <2>3. ASSUME NEW k \in Threads, Requests(k) \/ DjangoCancels(k) \/ Fail(k) PROVE FALSE
        BY <2>3, RequestsOpen DEF OpensWith, DjangoCancels, Fail, IInv
    <2>4. CASE Django
        BY <2>4 DEF Django, EnterPaymentInfo, CustomerCancels, ConfirmByRest, HandleCompleted,
           ResetOrderedCart
    <2> QED
        BY <2>1, <2>2, <2>3, <2>4 DEF Next
<1>2. Spec => [][Held]_vars
    BY <1>1, IInvAlways, PTL DEF Spec
<1> QED
    BY <1>2 DEF HeldUntilReleased

-----------------------------------------------------------------------------

-----------------------------------------------------------------------------
(* How often a call orders.                                                *)

(* The rounds a call ordered, and the places its messages wait at.         *)
OrderedBy(c) == {r \in 1..MaxRounds : orderOf[r] = c}
WaitingFor(c) == {i \in DOMAIN channel : channel[i] = c}
Told(c) == Cardinality(OrderedBy(c)) + Cardinality(WaitingFor(c))

(* Nobody can open another completion of the call.                         *)
Finished(c) ==
    \/ call[c].status \in {"COMPLETED", "CANCELLED"}
    \/ \E k \in Threads : tx[k].op = "complete" /\ c \in tx[k].calls

(* Django was told once for each completion that failed, and once more by  *)
(* the one that did not, or may yet not.                                   *)
TellsInTime ==
    \A c \in Calls : Told(c) <= failed[c] + (IF Finished(c) THEN 1 ELSE 0)

LEMMA FinitelyMany ==
    ASSUME NEW by, NEW waiting \in Seq(Calls), NEW c
    PROVE  /\ IsFiniteSet({r \in 1..MaxRounds : by[r] = c})
           /\ Cardinality({r \in 1..MaxRounds : by[r] = c}) \in Nat
           /\ IsFiniteSet({i \in DOMAIN waiting : waiting[i] = c})
           /\ Cardinality({i \in DOMAIN waiting : waiting[i] = c}) \in Nat
<1>1. IsFiniteSet(1..MaxRounds) /\ IsFiniteSet(1..Len(waiting))
    BY FS_Interval, BoundsAreNumbers
<1>2. DOMAIN waiting = 1..Len(waiting)
    OBVIOUS
<1>3. /\ {r \in 1..MaxRounds : by[r] = c} \in SUBSET (1..MaxRounds)
      /\ {i \in DOMAIN waiting : waiting[i] = c} \in SUBSET (1..Len(waiting))
    BY <1>2
<1>4. /\ IsFiniteSet({r \in 1..MaxRounds : by[r] = c})
      /\ IsFiniteSet({i \in DOMAIN waiting : waiting[i] = c})
    BY <1>1, <1>3, FS_Subset
<1> QED
    BY <1>4, FS_CardinalityType

LEMMA FiniteTold ==
    ASSUME TypeOK
    PROVE  \A c : /\ IsFiniteSet(OrderedBy(c)) /\ IsFiniteSet(WaitingFor(c))
                  /\ Cardinality(OrderedBy(c)) \in Nat
                  /\ Cardinality(WaitingFor(c)) \in Nat
                  /\ Told(c) \in Nat
<1>1. channel \in Seq(Calls)
    BY DEF TypeOK
<1>2. \A c : /\ IsFiniteSet(OrderedBy(c)) /\ Cardinality(OrderedBy(c)) \in Nat
             /\ IsFiniteSet(WaitingFor(c)) /\ Cardinality(WaitingFor(c)) \in Nat
    BY <1>1, FinitelyMany, ZenonT(60) DEF OrderedBy, WaitingFor
<1> QED
    BY <1>2 DEF Told

LEMMA FiniteToldNext ==
    ASSUME TypeOK'
    PROVE  \A c : /\ IsFiniteSet(OrderedBy(c)') /\ IsFiniteSet(WaitingFor(c)')
                  /\ Cardinality(OrderedBy(c)') \in Nat
                  /\ Cardinality(WaitingFor(c)') \in Nat
                  /\ Told(c)' \in Nat
<1>1. channel' \in Seq(Calls)
    BY DEF TypeOK
<1>2. \A c : /\ IsFiniteSet(OrderedBy(c)') /\ Cardinality(OrderedBy(c)') \in Nat
             /\ IsFiniteSet(WaitingFor(c)') /\ Cardinality(WaitingFor(c)') \in Nat
    BY <1>1, FinitelyMany, ZenonT(60) DEF OrderedBy, WaitingFor
<1> QED
    BY <1>2 DEF Told

LEMMA ToldUnchanged ==
    ASSUME UNCHANGED <<orderOf, channel>>
    PROVE  \A c : Told(c)' = Told(c)
BY DEF Told, OrderedBy, WaitingFor

(* A message more.                                                         *)
LEMMA MessageAppended ==
    ASSUME TypeOK, NEW d \in Calls, channel' = Append(channel, d), orderOf' = orderOf,
           NEW c \in Calls
    PROVE  Told(c)' = IF c = d THEN Told(c) + 1 ELSE Told(c)
<1> DEFINE n == Len(channel) + 1
<1>1. channel \in Seq(Calls) /\ Len(channel) \in Nat
    BY DEF TypeOK
<1>2. /\ DOMAIN channel' = DOMAIN channel \cup {n} /\ n \notin DOMAIN channel
      /\ channel'[n] = d /\ \A i \in DOMAIN channel : channel'[i] = channel[i]
    BY <1>1
<1>3. OrderedBy(c)' = OrderedBy(c)
    BY DEF OrderedBy
<1>4. IsFiniteSet(WaitingFor(c)) /\ Cardinality(WaitingFor(c)) \in Nat
        /\ Cardinality(OrderedBy(c)) \in Nat
    BY FiniteTold
<1>5. CASE c = d
    <2>1. WaitingFor(c)' = WaitingFor(c) \cup {n} /\ n \notin WaitingFor(c)
        BY <1>2, <1>5 DEF WaitingFor
    <2>2. Cardinality(WaitingFor(c) \cup {n}) = Cardinality(WaitingFor(c)) + 1
        BY <1>4, <2>1, FS_AddElement
    <2> QED
        BY <1>3, <1>4, <1>5, <2>1, <2>2 DEF Told
<1>6. CASE c # d
    <2>1. WaitingFor(c)' = WaitingFor(c)
        BY <1>2, <1>6 DEF WaitingFor
    <2> QED
        BY <1>3, <1>6, <2>1 DEF Told
<1> QED
    BY <1>5, <1>6

(* The first message leaves the channel.                                   *)
LEMMA MessageTaken ==
    ASSUME TypeOK, TypeOK', channel # <<>>, channel' = Tail(channel), NEW c \in Calls
    PROVE  Cardinality(WaitingFor(c)') <=
                Cardinality(WaitingFor(c)) - (IF Head(channel) = c THEN 1 ELSE 0)
<1>1. channel \in Seq(Calls) /\ channel # <<>>
    BY DEF TypeOK
<1>2. /\ 1 \in DOMAIN channel /\ Head(channel) = channel[1]
      /\ \A i \in DOMAIN channel' :
            i \in Nat \ {0} /\ i + 1 \in DOMAIN channel /\ channel'[i] = channel[i + 1]
    BY <1>1
<1> DEFINE W == WaitingFor(c)
           V == WaitingFor(c)'
           f == [i \in V |-> i + 1]
<1>3. IsFiniteSet(W) /\ Cardinality(W) \in Nat /\ Cardinality(V) \in Nat
    BY FiniteTold, FiniteToldNext
<1>4. f \in Injection(V, W \ {1})
    <2>1. \A i \in V : i \in Nat \ {0} /\ i + 1 \in W \ {1}
        BY <1>2 DEF WaitingFor
    <2> QED
        BY <2>1 DEF Injection, IsInjective
<1>5. IsFiniteSet(W \ {1})
        /\ Cardinality(W \ {1}) = IF 1 \in W THEN Cardinality(W) - 1 ELSE Cardinality(W)
    BY <1>3, FS_RemoveElement
<1>6. Cardinality(V) <= Cardinality(W \ {1})
    <2> HIDE DEF f, V, W
    <2> QED
        BY <1>4, <1>5, FS_Injection
<1>7. 1 \in W <=> Head(channel) = c
    BY <1>2 DEF WaitingFor
<1> QED
    BY <1>3, <1>5, <1>6, <1>7

(* Django hears of a call, or of another way to pay: nobody is told more.  *)
LEMMA DjangoTellsNobody ==
    ASSUME IInv, IInv', Django \/ \E k \in Threads : DjangoCancels(k), NEW c \in Calls
    PROVE  Told(c)' <= Told(c)
<1> USE DEF IInv
<1>1. /\ Cardinality(OrderedBy(c)) \in Nat /\ Cardinality(WaitingFor(c)) \in Nat
      /\ IsFiniteSet(OrderedBy(c)) /\ IsFiniteSet(WaitingFor(c)) /\ Told(c) \in Nat
    BY FiniteTold
<1>2. CASE UNCHANGED <<orderOf, channel>>
    BY <1>1, <1>2, ToldUnchanged
<1>3. ASSUME NEW by, orderOf' = [orderOf EXCEPT ![round] = by]
      PROVE  /\ Cardinality(OrderedBy(c)') \in Nat
             /\ Cardinality(OrderedBy(c)') <=
                    Cardinality(OrderedBy(c)) + (IF by = c THEN 1 ELSE 0)
    <2>1. IsFiniteSet(OrderedBy(c) \cup {round})
            /\ Cardinality(OrderedBy(c) \cup {round}) <= Cardinality(OrderedBy(c)) + 1
        <3>1. /\ IsFiniteSet(OrderedBy(c) \cup {round})
              /\ Cardinality(OrderedBy(c) \cup {round}) =
                    IF round \in OrderedBy(c) THEN Cardinality(OrderedBy(c))
                    ELSE Cardinality(OrderedBy(c)) + 1
            BY <1>1, FS_AddElement, Zenon
        <3> QED
            BY <1>1, <3>1
    <2>2. CASE by = c
        <3>1. OrderedBy(c)' \subseteq OrderedBy(c) \cup {round}
            BY <1>3 DEF OrderedBy, TypeOK
        <3>2. Cardinality(OrderedBy(c)') <= Cardinality(OrderedBy(c) \cup {round})
                /\ IsFiniteSet(OrderedBy(c)')
            BY <2>1, <3>1, FS_Subset
        <3>3. Cardinality(OrderedBy(c)') \in Nat /\ Cardinality(OrderedBy(c) \cup {round}) \in Nat
            BY <2>1, <3>2, FS_CardinalityType
        <3> QED
            BY <1>1, <2>1, <2>2, <3>2, <3>3
    <2>3. CASE by # c
        <3>1. OrderedBy(c)' \subseteq OrderedBy(c)
            BY <1>3, <2>3 DEF OrderedBy, TypeOK
        <3>2. Cardinality(OrderedBy(c)') <= Cardinality(OrderedBy(c)) /\ IsFiniteSet(OrderedBy(c)')
            BY <1>1, <3>1, FS_Subset
        <3>3. Cardinality(OrderedBy(c)') \in Nat
            BY <3>2, FS_CardinalityType
        <3> QED
            BY <1>1, <2>3, <3>2, <3>3
    <2> QED
        BY <2>2, <2>3
<1>4. CASE ConfirmByRest
    <2>1. ByRest # c /\ channel' = channel /\ orderOf' = [orderOf EXCEPT ![round] = ByRest]
        BY <1>4, NobodyIsACall DEF ConfirmByRest, Confirm
    <2>2. WaitingFor(c)' = WaitingFor(c)
        BY <2>1 DEF WaitingFor
    <2>3. Cardinality(OrderedBy(c)') \in Nat
            /\ Cardinality(OrderedBy(c)') <= Cardinality(OrderedBy(c))
        <3>1. /\ Cardinality(OrderedBy(c)') \in Nat
              /\ Cardinality(OrderedBy(c)') <=
                    Cardinality(OrderedBy(c)) + (IF ByRest = c THEN 1 ELSE 0)
            <4>1. orderOf' = [orderOf EXCEPT ![round] = ByRest]
                BY <2>1
            <4> QED
                BY <1>3, <4>1
        <3> QED
            BY <1>1, <2>1, <3>1
    <2> QED
        BY <1>1, <2>2, <2>3 DEF Told
<1>5. CASE HandleCompleted
    <2>1. channel # <<>> /\ channel' = Tail(channel)
        BY <1>5 DEF HandleCompleted
    <2>2. Cardinality(WaitingFor(c)') <=
                Cardinality(WaitingFor(c)) - (IF Head(channel) = c THEN 1 ELSE 0)
        BY <2>1, MessageTaken
    <2>3. Cardinality(WaitingFor(c)') \in Nat
        BY FiniteToldNext
    <2> DEFINE one == IF Head(channel) = c THEN 1 ELSE 0
    <2>4. CASE orderOf' = [orderOf EXCEPT ![round] = Head(channel)]
        <3>1. Cardinality(OrderedBy(c)') \in Nat
                /\ Cardinality(OrderedBy(c)') <= Cardinality(OrderedBy(c)) + one
            BY <1>3, <2>4
        <3>2. one \in Nat
            OBVIOUS
        <3> QED
            BY <1>1, <2>2, <2>3, <3>1, <3>2 DEF Told
    <2>5. CASE orderOf' = orderOf
        <3>1. OrderedBy(c)' = OrderedBy(c)
            BY <2>5 DEF OrderedBy
        <3>2. one \in Nat
            OBVIOUS
        <3> QED
            BY <1>1, <2>2, <2>3, <3>1, <3>2 DEF Told
    <2> QED
        BY <1>5, <2>4, <2>5 DEF HandleCompleted, Confirm, djangoVars
<1> QED
    BY <1>2, <1>4, <1>5 DEF Django, EnterPaymentInfo, CustomerCancels, CancelPayment,
       DjangoCancels, ResetOrderedCart

LEMMA TellsInTimeNext ==
    ASSUME IInv, IInv', TellsInTime, [Next]_vars
    PROVE  TellsInTime'
<1> SUFFICES ASSUME NEW c \in Calls
             PROVE  Told(c)' <= failed'[c] + (IF Finished(c)' THEN 1 ELSE 0)
    BY DEF TellsInTime
<1>0. /\ Told(c) <= failed[c] + (IF Finished(c) THEN 1 ELSE 0)
      /\ Told(c) \in Nat /\ failed[c] \in Nat
    BY FiniteTold DEF IInv, TypeOK, TellsInTime
(* Steps that tell nobody and forget no completion.                        *)
<1>q. ASSUME Told(c)' <= Told(c), failed'[c] = failed[c], Finished(c) => Finished(c)', Told(c)' \in Nat
      PROVE  Told(c)' <= failed'[c] + (IF Finished(c)' THEN 1 ELSE 0)
    BY <1>0, <1>q
<1>t. Told(c)' \in Nat
    BY FiniteToldNext DEF IInv
<1>1. ASSUME NEW k \in Threads, Requests(k)
      PROVE  Told(c)' <= failed'[c] + (IF Finished(c)' THEN 1 ELSE 0)
    <2>1. PICK t : OpensWith(k, t)
        BY <1>1, RequestsOpen DEF IInv
    <2>2. /\ tx'[k] = t /\ tx[k].op = "idle" /\ UNCHANGED <<call, failed, orderOf>>
          /\ \A j \in Threads : j # k => tx'[j] = tx[j]
        BY <2>1 DEF OpensWith, IInv, TypeOK, Idle, djangoVars
    <2>3. Finished(c) => Finished(c)'
        BY <2>2 DEF Finished
    <2>4. CASE UNCHANGED channel
        BY <1>q, <1>t, <1>0, <2>2, <2>3, <2>4, ToldUnchanged
    <2>5. ASSUME NEW d \in t.calls, t.op = "complete", channel' = Append(channel, d)
          PROVE  Told(c)' <= failed'[c] + (IF Finished(c)' THEN 1 ELSE 0)
        <3>1. d \in Calls
            BY <2>1 DEF OpensWith, Transactions
        <3>2. Told(c)' = IF c = d THEN Told(c) + 1 ELSE Told(c)
            BY <2>2, <2>5, <3>1, MessageAppended DEF IInv
        <3>3. CASE c # d
            BY <1>0, <1>q, <1>t, <2>2, <2>3, <3>2, <3>3
        <3>4. CASE c = d
            <4>1. Finished(c)'
                BY <2>2, <2>5, <3>4 DEF Finished
            <4>2. ~Finished(c)
                BY <2>1, <2>5, <3>4 DEF OpensWith, AsChecked, Unlocked, Locking, Finished
            <4> QED
                BY <1>0, <2>2, <3>2, <3>4, <4>1, <4>2
        <3> QED
            BY <3>3, <3>4
    <2> QED
        BY <2>1, <2>4, <2>5 DEF OpensWith
<1>2. ASSUME NEW k \in Threads, Commit(k)
      PROVE  Told(c)' <= failed'[c] + (IF Finished(c)' THEN 1 ELSE 0)
    <2>1. UNCHANGED <<channel, orderOf, failed>>
        BY <1>2 DEF Commit, djangoVars
    <2>2. Finished(c) => Finished(c)'
        <3>1. CASE call[c].status \in {"COMPLETED", "CANCELLED"}
            BY <1>2, <3>1, CommitMakes, CommitFinds DEF Finished
        <3>2. ASSUME NEW j \in Threads, tx[j].op = "complete", c \in tx[j].calls
              PROVE  Finished(c)'
            <4>1. CASE j = k
                BY <1>2, <3>2, <4>1, CommitMakes DEF Finished
            <4>2. CASE j # k
                <5>1. tx'[j] = [tx[j] EXCEPT !.stale = @ \/ tx[j].calls \cap tx[k].calls # {}]
                    BY <1>2, <4>2, CommitFinds
                <5>2. tx'[j].op = tx[j].op /\ tx'[j].calls = tx[j].calls
                    BY <5>1 DEF IInv, TypeOK, Transactions
                <5> QED
                    BY <3>2, <5>2 DEF Finished
            <4> QED
                BY <4>1, <4>2
        <3> QED
            BY <3>1, <3>2 DEF Finished
    <2> QED
        BY <1>0, <1>q, <1>t, <2>1, <2>2, ToldUnchanged
<1>3. ASSUME NEW k \in Threads, NEW d \in Calls, CommitEmit(k, d)
      PROVE  Told(c)' <= failed'[c] + (IF Finished(c)' THEN 1 ELSE 0)
    <2>1. UNCHANGED <<channel, orderOf, failed>>
        BY <1>3 DEF CommitEmit, djangoVars
    <2>2. Finished(c) => Finished(c)'
        BY <1>3 DEF CommitEmit, IInv, TypeOK, Finished
    <2> QED
        BY <1>0, <1>q, <1>t, <2>1, <2>2, ToldUnchanged
<1>4. ASSUME NEW k \in Threads, Fail(k)
      PROVE  Told(c)' <= failed'[c] + (IF Finished(c)' THEN 1 ELSE 0)
    <2>1. /\ tx' = [tx EXCEPT ![k] = Idle] /\ UNCHANGED <<call, channel, orderOf>>
          /\ \A j \in Threads : j # k => tx'[j] = tx[j]
        BY <1>4 DEF Fail, djangoVars, IInv, TypeOK
    <2>2. Told(c)' = Told(c)
        BY <2>1, ToldUnchanged
    <2>3. CASE tx[k].op = "complete" /\ c \in tx[k].calls
        <3>1. failed'[c] = failed[c] + 1
            BY <1>4, <2>3 DEF Fail
        <3> QED
            BY <1>0, <2>2, <3>1
    <2>4. CASE ~(tx[k].op = "complete" /\ c \in tx[k].calls)
        <3>1. failed'[c] = failed[c]
            BY <1>4, <2>4 DEF Fail, IInv, TypeOK
        <3>2. Finished(c) => Finished(c)'
            BY <2>1, <2>4 DEF Finished
        <3> QED
            BY <1>0, <1>q, <1>t, <2>2, <3>1, <3>2
    <2> QED
        BY <2>3, <2>4
<1>5. CASE Django
    <2>1. UNCHANGED <<call, tx, failed>>
        BY <1>5 DEF Django, EnterPaymentInfo, CustomerCancels, ConfirmByRest, HandleCompleted,
           ResetOrderedCart
    <2>2. Finished(c) => Finished(c)'
        BY <2>1 DEF Finished
    <2> QED
        BY <1>5, <1>q, <1>t, <2>1, <2>2, DjangoTellsNobody
<1>6. ASSUME NEW k \in Threads, DjangoCancels(k)
      PROVE  Told(c)' <= failed'[c] + (IF Finished(c)' THEN 1 ELSE 0)
    <2>1. /\ UNCHANGED <<call, failed>>
          /\ tx[k].op = "cancelOrder" /\ \A j \in Threads : j # k => tx'[j] = tx[j]
        BY <1>6 DEF DjangoCancels, IInv, TypeOK
    <2>2. Finished(c) => Finished(c)'
        BY <2>1 DEF Finished
    <2> QED
        BY <1>6, <1>q, <1>t, <2>1, <2>2, DjangoTellsNobody
<1>7. CASE UNCHANGED vars
    <2>1. UNCHANGED <<call, tx, failed, channel, orderOf>>
        BY <1>7 DEF vars, djangoVars
    <2>2. Finished(c) => Finished(c)'
        BY <2>1 DEF Finished
    <2> QED
        BY <1>0, <1>q, <1>t, <2>1, <2>2, ToldUnchanged
<1> QED
    BY <1>1, <1>2, <1>3, <1>4, <1>5, <1>6, <1>7 DEF Next

(* Django orders at most one round for a call that staff completed, and    *)
(* one more for each completion that failed after it was published.        *)
THEOREM CallsOrderOnce == Spec => []OneOrderPerCall
<1>1. Init => TellsInTime
    <2> SUFFICES ASSUME Init, NEW c \in Calls
                 PROVE  Told(c) <= failed[c] + (IF Finished(c) THEN 1 ELSE 0)
        BY DEF TellsInTime
    <2>1. OrderedBy(c) = {} /\ WaitingFor(c) = {} /\ failed[c] = 0
        BY NobodyIsACall DEF Init, OrderedBy, WaitingFor
    <2>2. Told(c) = 0
        BY <2>1, FS_EmptySet DEF Told
    <2> QED
        BY <2>1, <2>2
<1>2. IInv /\ IInv' /\ TellsInTime /\ [Next]_vars => TellsInTime'
    BY TellsInTimeNext
<1>3. IInv /\ TellsInTime => OneOrderPerCall
    <2> SUFFICES ASSUME IInv, TellsInTime, NEW c \in Calls PROVE Told(c) <= 1 + failed[c]
        BY DEF OneOrderPerCall, Told, OrderedBy, WaitingFor
    <2>1. Told(c) \in Nat /\ failed[c] \in Nat
        BY FiniteTold DEF IInv, TypeOK
    <2> QED
        BY <2>1 DEF TellsInTime
<1> QED
    BY <1>1, <1>2, <1>3, IInvAlways, PTL DEF Spec

=============================================================================
