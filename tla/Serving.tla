------------------------------ MODULE Serving ------------------------------
(***************************************************************************)
(* Django keeps the items of a table, Spring a row per serving task. Staff *)
(* change items (django/order/services.py), servers catch, complete and    *)
(* give back tasks (ServingTaskService.java), and each side tells the      *)
(* other by Redis publish/subscribe. Spring hands every message to a       *)
(* thread of its own, so messages to it overtake each other; Django reads  *)
(* its messages in one loop (listen_redis.py). A Spring transaction reads  *)
(* its rows, publishes, and writes whole rows when it commits: ServingTask *)
(* has no version. The interval between a Django commit and its            *)
(* publication is part of the time the message is under way.               *)
(***************************************************************************)
EXTENDS Naturals, Sequences, SequencesExt, FiniteSets, Bags

CONSTANTS
    Items,          \* what is served at one table, one order item each
    Parts,          \* those of them that are the parts of one set
    Servers,        \* X-Server-Client-Id of the servers
    SessionOf,      \* SessionOf[w]: the login session of a server's token
    NoOne,          \* nobody has caught the task
    Tasks,          \* the ids of the rows Spring may create: a bound
    Threads,        \* Spring transactions at the same time: a bound
    MaxToSpring, MaxToDjango    \* messages under way in each direction: bounds

ASSUME ServingAssumption ==
    /\ Parts \subseteq Items
    /\ NoOne \notin Servers
    /\ MaxToSpring \in Nat \ {0} /\ MaxToDjango \in Nat \ {0}
    /\ IsFiniteSet(Items) /\ IsFiniteSet(Tasks)
    /\ DOMAIN SessionOf = Servers

VARIABLES
    stat,       \* OrderItem.status
    over,       \* the table was reset
    task,       \* the rows of ServingTask
    lock,       \* the Redis keys lock:serving_task:<id>
    tx,         \* what each Spring transaction is going to write
    toSpring,   \* messages on django:booth:*:order:*
    toDjango,   \* messages on spring:booth:*:order:*
    calm        \* history: see Undisturbed

vars == <<stat, over, task, lock, tx, toSpring, toDjango, calm>>

Targets == {"COOKING", "COOKED", "SERVED"}          \* VALID_STATUSES
ItemStatus == Targets \cup {"SERVING", "CANCELLED"}
TaskStatus == {"SERVE_REQUESTED", "SERVING", "SERVED"}

Row == [item : Items, status : TaskStatus, by : Servers \cup {NoOne}]
Unborn == [status |-> "unborn"]
Deleted == [status |-> "deleted"]

About == {{i} : i \in Items} \cup {Items}
MessageToSpring == [kind : {"cooked", "remove"}, of : About]
MessageToDjango == [kind : {"serving", "served", "cooked"}, item : Items]

Idle == [op |-> "idle"]
Updates ==
    [op : {"update"}, rows : UNION {[S -> Row] : S \in SUBSET Tasks},
     of : SUBSET Items, locked : SUBSET Tasks]
Inserts == [op : {"insert"}, item : Items, of : About]
Deletes == [op : {"delete"}, ids : SUBSET Tasks, of : About]

TypeOK ==
    /\ stat \in [Items -> ItemStatus]
    /\ over \in BOOLEAN
    /\ \A t \in Tasks : task[t] \in Row \cup {Unborn, Deleted}
    /\ lock \subseteq Tasks
    /\ \A k \in Threads :
            \/ tx[k] \in {Idle} \cup Inserts \cup Deletes
            \/ /\ tx[k].op = "update"
               /\ DOMAIN tx[k].rows \subseteq Tasks
               /\ \A t \in DOMAIN tx[k].rows : tx[k].rows[t] \in Row
    /\ BagToSet(toSpring) \subseteq MessageToSpring
    /\ \A n \in 1..Len(toDjango) : toDjango[n] \in MessageToDjango
    /\ Len(toDjango) <= MaxToDjango
    /\ calm \in [Items -> BOOLEAN]

Init ==
    /\ stat = [i \in Items |-> "COOKING"]
    /\ over = FALSE
    /\ task = [t \in Tasks |-> Unborn]
    /\ lock = {}
    /\ tx = [k \in Threads |-> Idle]
    /\ toSpring = EmptyBag
    /\ toDjango = <<>>
    /\ calm = [i \in Items |-> TRUE]

Exists(t) == task[t] \notin {Unborn, Deleted}
Active(t) == task[t].status \in {"SERVE_REQUESTED", "SERVING"}
ActiveOf(S) == {t \in Tasks : Active(t) /\ task[t].item \in S}

-----------------------------------------------------------------------------
(* What counts as a disturbance: Spring is busy with an item while one of  *)
(* its transactions or a message to it concerns the item, and the item is  *)
(* settled once nothing concerns it. calm[i] says that since the item was  *)
(* last put right no message about it was lost, no request about it was    *)
(* made while Spring was busy with it, no transaction about it failed, and *)
(* no change of it was one Spring is not told of.                          *)

Busy(i) ==
    \/ \E k \in Threads : tx[k] # Idle /\ i \in tx[k].of
    \/ \E m \in BagToSet(toSpring) : i \in m.of

Settled(i) == ~Busy(i) /\ \A n \in 1..Len(toDjango) : toDjango[n].item # i

(* calm after a step that is about S and harmless when ok.                 *)
Undisturbed(S, ok) == [i \in Items |-> calm[i] /\ (i \in S => ok)]

-----------------------------------------------------------------------------
(* Requests of servers.                                                    *)

(* The rows a transaction will write, and the message it publishes first.  *)
Begin(k, rows, locked, kind) ==
    LET of == {rows[t].item : t \in DOMAIN rows}
        message(t) == [kind |-> kind, item |-> rows[t].item]
    IN  /\ tx[k] = Idle
        /\ tx' = [tx EXCEPT ![k] = [op |-> "update", rows |-> rows,
                                    of |-> of, locked |-> locked]]
        /\ Len(toDjango) + Cardinality(DOMAIN rows) <= MaxToDjango
        /\ \E order \in SetToSeqs(DOMAIN rows) :
                toDjango' = toDjango \o [n \in DOMAIN order |-> message(order[n])]
        /\ calm' = [i \in Items |-> calm[i] /\ (i \in of => ~Busy(i))]
        /\ UNCHANGED <<stat, over, task, toSpring>>

Given(t, s, w) == [task[t] EXCEPT !.status = s, !.by = w]

(* Mutant: the status of the task is not looked at.                        *)
CatchCaught(k, w, t) ==
    /\ t \notin lock /\ Active(t)
    /\ lock' = lock \cup {t}
    /\ Begin(k, [u \in {t} |-> Given(t, "SERVING", w)], {t}, "serving")

(* catchCall, up to the end of its try block.                              *)
CatchCall(k, w, t) ==
    /\ t \notin lock
    /\ task[t].status = "SERVE_REQUESTED"
    /\ lock' = lock \cup {t}
    /\ Begin(k, [u \in {t} |-> Given(t, "SERVING", w)], {t}, "serving")

(* Its finally: the key is deleted, whoever set it.                        *)
Unlock(k) ==
    /\ tx[k].op = "update" /\ tx[k].locked # {}
    /\ lock' = lock \ tx[k].locked
    /\ tx' = [tx EXCEPT ![k].locked = {}]
    /\ UNCHANGED <<stat, over, task, toSpring, toDjango, calm>>

(* The key lives for five seconds.                                         *)
LockExpires(t) ==
    /\ t \in lock
    /\ lock' = lock \ {t}
    /\ UNCHANGED <<stat, over, task, tx, toSpring, toDjango, calm>>

HeldBy(t, w) == task[t].status = "SERVING" /\ task[t].by = w

(* Mutant: published on the channel of a cancelled call.                   *)
CompleteAsCooked(k, w, t) ==
    /\ HeldBy(t, w)
    /\ Begin(k, [u \in {t} |-> Given(t, "SERVED", w)], {}, "cooked")
    /\ UNCHANGED lock

CompleteCall(k, w, t) ==
    /\ HeldBy(t, w)
    /\ Begin(k, [u \in {t} |-> Given(t, "SERVED", w)], {}, "served")
    /\ UNCHANGED lock

CancelCall(k, w, t) ==
    /\ HeldBy(t, w)
    /\ Begin(k, [u \in {t} |-> Given(t, "SERVE_REQUESTED", NoOne)], {}, "cooked")
    /\ UNCHANGED lock

(* releaseBySessionId, when a websocket of the session closes.             *)
ReleaseBySession(k, s) ==
    LET held == {t \in Tasks : \E w \in Servers : HeldBy(t, w) /\ SessionOf[w] = s}
    IN  /\ held # {}
        /\ Begin(k, [t \in held |-> Given(t, "SERVE_REQUESTED", NoOne)], {}, "cooked")
        /\ UNCHANGED lock

-----------------------------------------------------------------------------
(* Spring's listener and its commits.                                      *)

Received(m) ==
    /\ BagIn(m, toSpring)
    /\ toSpring' = toSpring (-) SetToBag({m})

(* createNewServingTask: nothing when the item has an active task.         *)
HandleCooked(k, m) ==
    /\ m.kind = "cooked" /\ Received(m)
    /\ tx[k] = Idle
    /\ \E i \in m.of :
            tx' = IF ActiveOf({i}) # {} THEN tx
                  ELSE [tx EXCEPT ![k] = [op |-> "insert", item |-> i, of |-> m.of]]
    /\ UNCHANGED <<stat, over, task, lock, toDjango, calm>>

(* removeTasksByOrderItemId, removeTasksByTableNumber.                     *)
HandleRemove(k, m) ==
    /\ m.kind = "remove" /\ Received(m)
    /\ tx[k] = Idle
    /\ tx' = IF ActiveOf(m.of) = {} THEN tx
             ELSE [tx EXCEPT ![k] = [op |-> "delete", ids |-> ActiveOf(m.of), of |-> m.of]]
    /\ UNCHANGED <<stat, over, task, lock, toDjango, calm>>

Done(k) ==
    /\ tx' = [tx EXCEPT ![k] = Idle]
    /\ UNCHANGED <<stat, over, lock, toSpring, toDjango>>

(* A row to write or delete that is gone fails the whole transaction, its  *)
(* other rows included.                                                    *)
Write(k, rows) ==
    LET writable == \A t \in DOMAIN rows : Exists(t)
    IN  /\ task' = IF writable
                   THEN [t \in Tasks |-> IF t \in DOMAIN rows THEN rows[t] ELSE task[t]]
                   ELSE task
        /\ calm' = IF writable THEN calm ELSE Undisturbed(tx[k].of, FALSE)
        /\ Done(k)

CommitUpdate(k) ==
    /\ tx[k].op = "update" /\ tx[k].locked = {}
    /\ Write(k, tx[k].rows)

CommitInsert(k) ==
    /\ tx[k].op = "insert"
    /\ \E t \in Tasks :
            /\ task[t] = Unborn
            /\ task' = [task EXCEPT ![t] =
                    [item |-> tx[k].item, status |-> "SERVE_REQUESTED", by |-> NoOne]]
    /\ Done(k)
    /\ UNCHANGED calm

CommitDelete(k) ==
    /\ tx[k].op = "delete"
    /\ Write(k, [t \in tx[k].ids |-> Deleted])

(* The database fails it: what it published stays published.               *)
Abort(k) ==
    /\ tx[k] # Idle
    /\ tx[k].op = "update" => tx[k].locked = {}
    /\ calm' = Undisturbed(tx[k].of, FALSE)
    /\ Done(k)
    /\ UNCHANGED task

-----------------------------------------------------------------------------
(* Requests of the booth's staff.                                          *)

Send(kind, S) ==
    /\ BagCardinality(toSpring) < MaxToSpring
    /\ toSpring' = toSpring (+) SetToBag({[kind |-> kind, of |-> S]})

(* Each "cooked" message may become a row.                                 *)
RoomForTask ==
    LET pending == {k \in Threads : tx[k].op = "insert"}
    IN  Cardinality({t \in Tasks : task[t] = Unborn})
            > Cardinality(pending) + BagCardinality(toSpring)

(* Mutant: going back to COOKING is not announced.                         *)
AnnouncedForward(i, s) == s # "COOKING"

(* update_order_item_status. To COOKING it is announced from COOKED only;  *)
(* to COOKED it is announced, but Spring leaves an active task as it is.   *)
Announced(i, s) == s = "COOKING" => stat[i] = "COOKED"
Heard(i, s) == stat[i] = "SERVING" => s = "SERVED"

UpdateStatus(i, s) ==
    /\ stat[i] # s
    /\ stat' = [stat EXCEPT ![i] = s]
    /\ s = "COOKED" => RoomForTask
    /\ IF Announced(i, s)
       THEN Send(IF s = "COOKED" THEN "cooked" ELSE "remove", {i})
       ELSE UNCHANGED toSpring
    /\ calm' = [calm EXCEPT ![i] =
                    Settled(i) /\ ~over /\ (s = "SERVED" \/ (@ /\ Heard(i, s)))]
    /\ UNCHANGED <<over, task, lock, tx, toDjango>>

ToServe(i) == stat[i] \in {"COOKED", "SERVING"}

(* cancel_order_item, of all the units of an item or of some of them.      *)
CancelItem(i) ==
    /\ i \notin Parts /\ stat[i] # "CANCELLED"
    /\ stat' = [stat EXCEPT ![i] = "CANCELLED"]
    /\ Send("remove", {i})
    /\ calm' = [calm EXCEPT ![i] = Settled(i) /\ ~over]
    /\ UNCHANGED <<over, task, lock, tx, toDjango>>

CancelSomeUnits(i) ==
    /\ i \notin Parts /\ stat[i] # "CANCELLED"
    /\ Send("remove", {i})
    /\ calm' = Undisturbed({i}, Settled(i) /\ ~ToServe(i))
    /\ UNCHANGED <<stat, over, task, lock, tx, toDjango>>

(* Of a set: the message names the set, which has no task.                 *)
CancelSet ==
    /\ \E i \in Parts : stat[i] # "CANCELLED"
    /\ stat' = [i \in Items |-> IF i \in Parts THEN "CANCELLED" ELSE stat[i]]
    /\ calm' = [i \in Items |-> calm[i] /\ (i \in Parts => Settled(i) /\ ~ToServe(i))]
    /\ UNCHANGED <<over, task, lock, tx, toSpring, toDjango>>

(* reset_tables: one message for the table (those for its items name no    *)
(* table, and Spring skips them).                                          *)
ResetTable ==
    /\ ~over /\ over' = TRUE
    /\ Send("remove", Items)
    /\ calm' = [i \in Items |-> Settled(i)]
    /\ UNCHANGED <<stat, task, lock, tx, toDjango>>

(* It publishes before it commits.                                         *)
ResetFails ==
    /\ ~over
    /\ Send("remove", Items)
    /\ calm' = [i \in Items |-> calm[i] /\ Settled(i) /\ ~ToServe(i)]
    /\ UNCHANGED <<stat, over, task, lock, tx, toDjango>>

-----------------------------------------------------------------------------
(* Django's listener.                                                      *)

(* Mutant: the status is stored as the message has it.                     *)
StoresTheKind(m) ==
    /\ m.kind \in {"serving", "served"}
    /\ stat' = [stat EXCEPT ![m.item] = m.kind]

(* handle_serving_event: whatever the status was.                          *)
HandleServingEvent(m) ==
    /\ m.kind \in {"serving", "served"}
    /\ stat' = [stat EXCEPT ![m.item] = IF m.kind = "serving" THEN "SERVING" ELSE "SERVED"]

(* Mutant: only what its docstring names, SERVED, is rolled back.          *)
RollsBackServed(m) ==
    /\ m.kind = "cooked"
    /\ stat' = IF stat[m.item] = "SERVED"
               THEN [stat EXCEPT ![m.item] = "COOKED"] ELSE stat

(* handle_serving_cancelled.                                               *)
HandleServingCancelled(m) ==
    /\ m.kind = "cooked"
    /\ stat' = IF stat[m.item] \in {"SERVING", "SERVED"}
               THEN [stat EXCEPT ![m.item] = "COOKED"] ELSE stat

Listen ==
    /\ toDjango # <<>>
    /\ HandleServingEvent(Head(toDjango)) \/ HandleServingCancelled(Head(toDjango))
    /\ toDjango' = Tail(toDjango)
    /\ UNCHANGED <<over, task, lock, tx, toSpring, calm>>

(* Redis keeps nothing for a subscriber that is away.                      *)
LoseToDjango ==
    /\ toDjango # <<>>
    /\ toDjango' = Tail(toDjango)
    /\ calm' = Undisturbed({Head(toDjango).item}, FALSE)
    /\ UNCHANGED <<stat, over, task, lock, tx, toSpring>>

LoseToSpring(m) ==
    /\ Received(m)
    /\ calm' = Undisturbed(m.of, FALSE)
    /\ UNCHANGED <<stat, over, task, lock, tx, toDjango>>

-----------------------------------------------------------------------------
ServerRequest ==
    \E k \in Threads :
        \/ \E w \in Servers, t \in Tasks :
                CatchCall(k, w, t) \/ CompleteCall(k, w, t) \/ CancelCall(k, w, t)
        \/ \E w \in Servers : ReleaseBySession(k, SessionOf[w])

StaffRequest ==
    \/ \E i \in Items, s \in Targets : UpdateStatus(i, s)
    \/ \E i \in Items : CancelItem(i) \/ CancelSomeUnits(i)
    \/ CancelSet
    \/ ResetTable

Failure ==
    \/ \E t \in Tasks : LockExpires(t)
    \/ \E k \in Threads : Abort(k)
    \/ ResetFails
    \/ LoseToDjango
    \/ \E m \in BagToSet(toSpring) : LoseToSpring(m)

Handle(m) == \E k \in Threads : HandleCooked(k, m) \/ HandleRemove(k, m)
Proceed(k) == Unlock(k) \/ CommitUpdate(k) \/ CommitInsert(k) \/ CommitDelete(k)

Delivery ==
    \/ \E m \in BagToSet(toSpring) : Handle(m)
    \/ \E k \in Threads : Proceed(k)
    \/ Listen

Next == ServerRequest \/ StaffRequest \/ Failure \/ Delivery

Spec == Init /\ [][Next]_vars

(* Every message gets a thread, a transaction ends, the listener's loop    *)
(* goes on.                                                                *)
FairSpec ==
    /\ Spec
    /\ \A m \in MessageToSpring : WF_vars(Handle(m))
    /\ \A k \in Threads : WF_vars(Proceed(k))
    /\ WF_vars(Listen)

-----------------------------------------------------------------------------
(* What Django's status of an item and Spring's tasks of it should say of  *)
(* each other: an item to serve has one task, caught exactly while the     *)
(* item is SERVING; any other item, and a table that is over, has none.    *)
Agree(i) ==
    IF over \/ ~ToServe(i) THEN ActiveOf({i}) = {}
    ELSE \E t \in Tasks :
            /\ ActiveOf({i}) = {t}
            /\ task[t].status = "SERVING" <=> stat[i] = "SERVING"

(* The two services agree on an item whenever it is settled and calm. In   *)
(* particular the staff's SERVED, a cancellation or a reset puts right     *)
(* whatever lost messages and overlapping requests had left behind.        *)
AgreeWhenSettled == \A i \in Items : calm[i] /\ Settled(i) => Agree(i)

(* A server who has caught a task keeps it: only the server's own request, *)
(* the end of the session or a message from Django takes it back, however  *)
(* late the transactions commit.                                           *)
CaughtStaysCaught ==
    [][\A t \in Tasks, w \in Servers :
            HeldBy(t, w) /\ calm[task[t].item] /\ ~HeldBy(t, w)' =>
                \E k \in Threads :
                    \/ tx[k].op = "delete" /\ t \in tx[k].ids
                    \/ tx[k].op = "update" /\ t \in DOMAIN tx[k].rows
                       /\ tx[k].rows[t].by \in {w, NoOne}]_vars

(* Once nobody asks for anything and nothing fails any more, the two       *)
(* services come to agree on every calm item and stay that way.            *)
Converges ==
    <>[][Delivery]_vars => <>[](\A i \in Items : calm[i] => Agree(i))

-----------------------------------------------------------------------------
(* What the code's own message says: a task somebody caught cannot be      *)
(* caught ("이미 다른 직원이 수락한 요청입니다.", catchCall): the catch    *)
(* that commits finds the task free.                                       *)
CatchesFreeTask ==
    [][\A k \in Threads :
            LET rows == tx[k].rows
            IN  tx[k].op = "update" /\ tx'[k] = Idle /\ task' # task =>
                \A t \in DOMAIN rows :
                    rows[t].status = "SERVING" => task[t].status = "SERVE_REQUESTED"]_vars

=============================================================================
