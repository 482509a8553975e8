# D-Order backend: TLA+ models, model checking and proofs

D-Order takes orders at the tables of a festival booth. A Django service owns
tables, carts, coupons, menus and orders (PostgreSQL); a Spring service owns
staff calls and serving tasks; the two exchange messages over Redis publish and
subscribe; the booth's data is administered on the pages of Django's admin
site. This directory holds TLA+ specifications of that system, the TLC
configurations that check them, and proofs checked by TLAPS.

Paths below are relative to the repository. All specifications are written from
the code; where a document or docstring disagrees with it, the disagreement is
stated as a property and a run shows it (see *Disagreements*).

## 1. Inventory

| component | state | operations | correct when |
|---|---|---|---|
| Checkout (`django/cart`) | one cart per table usage: items, `ACTIVE/PENDING/ORDERED`, round, payment deadline | add, update, delete items; request, cancel, reject, confirm payment; next round | no menu is oversold; a payment becomes one order with the contents it was asked for; the seat fee is in the first order |
| Coupons (`django/coupon`) | codes with `used_at`, the code each cart applies per round | apply, cancel, spend (at confirmation) | a code discounts one order, and an applied code is still good when the customer has paid |
| Menus (`django/menu`) | stock, set compositions | sale, refund, PATCH by the administrator | units are neither lost nor made |
| Order items (`django/order/services.py`) | quantity and status of every item, the order's status and price, the usage's and the booth's totals | status updates by staff, serving events from Spring, rollbacks, cancellations | an order is completed when it was served, cancelled when all of it is, and every refund is counted once |
| Revenue cache (`django/order/cache.py`) | a Redis key beside a sum over the orders | update, read, invalidate | the key is the sum |
| Serving tasks (`spring/.../service/serving`) | one task per cooked item: requested, serving (by whom, in which session), served | create, catch, complete, cancel, session release, removal | one server per task; tasks and order items agree again |
| Staff calls (`spring/.../service/staffcall`) | calls `PENDING/ACCEPTED/COMPLETED/CANCELLED` with a version | emit, accept, unaccept, complete, delete, reset | one active call of a kind per cart; a completed payment call confirms the payment |
| Table sessions (`django/table`) | tables, groups, usages | enter, reset, merge | one live usage per table group; merging keeps orders, items and coupons |
| Booth (`django/booth`) | settings, fee menu, statistics | format, settings | formatting empties the revenue |
| Admin site pages (`django/static/admin/js`) | ticked rows, two boxes of choices, inline rows, calendars, popup windows, what the browser keeps | clicks, keys, forms sent and loaded again | what is sent is what was chosen; no choice, row or window is lost |
| WebSocket layers, authentication, API pages, deployment | none that is persistent | | not modelled (section 7) |

**Interactions.** A customer's payment is a bank transfer: the cart asks for
payment (Django), the customer calls staff (Spring), staff complete the call,
Spring publishes `staffcall:completed` on Redis, and Django's listener
(`core/management/commands/listen_redis.py`) confirms the payment, which makes
the order. Kitchen staff mark items cooked (Django), which publishes
`order:cooked`; Spring makes a serving task; catching, completing or cancelling
it publishes `serving`, `served` or `cooked` back, and Django moves the item.
A reset of a table publishes `order:reset`. Revenue goes to Redis after each
commit (`transaction.on_commit`).

**What is hard.** Requests run in many workers under READ COMMITTED
(`docker-compose.dev.yml:56` runs PostgreSQL; SQLite is a local default), so
what matters is which rows a transaction locks and what it read before it
had the lock. Redis publish/subscribe keeps nothing: a message is lost if the
other side is down, and a handler that fails drops it
(`listen_redis.py:75-78`). Deadlines (three minutes for a payment) pass at any
time. `PROJECT.json` lists the hazards by line.

## 2. Modules

| module | what it is |
|---|---|
| `Totals`, `TotalsProofs` | sums over rows, and what they are worth for every finite set of rows |
| `Catalog` | what a booth sells, lines of a cart, and the units of each menu they need |
| `Checkout` | carts, payment, coupons, stock, orders of one booth |
| `SaleLedger` | abstract specification of `Checkout`: a shelf and a ledger of sales |
| `MCCheckout` | instances of `Checkout` for TLC |
| `CheckoutProofs` | theorems about `Checkout`, its refinement of `SaleLedger` among them |
| `OrderItems` | the items of a table's orders, serving and cancellation |
| `MCOrderItems`, `OrderItemsProofs` | its instances and theorems |
| `Serving`, `MCServing`, `ServingProofs` | Spring's serving tasks, Django's items and the messages between them |
| `StaffCalls`, `MCStaffCalls`, `StaffCallsProofs` | Spring's payment calls of a cart, and the payment they confirm |
| `RevenueCache`, `MCRevenueCache`, `RevenueCacheProofs` | the Redis revenue key, command by command |
| `ChangeList` | the admin's list with boxes to tick and actions to run |
| `SelectFilter` | the two boxes a choice of many is made with |
| `Formset` | rows of an inline formset, and their select2 |
| `Places` | what a filter leaves of a list, told by counting places |
| `CalendarDates`, `DateWidgets` | the Gregorian calendar as the scripts reckon it; calendar and clock beside a date field |
| `RelatedPopups` | the windows that add, change and delete related objects |
| `Preferences` | theme, side bar and folded filters, kept by the browser for its tabs |
| `AdminPages`, `MCAdminPages` | composes the admin modules; its instance |
| `FormWidgetsProofs`, `AdminPagesProofs` | theorems about the boxes and the inline rows, and about every other widget |

### Checkout

One action per service function of `cart/services.py`, plus the coupon
functions, the rejection event of `order/services.py`, a table reset as the
carts see it, and the two halves of a menu PATCH. Most functions are one
database transaction that locks the cart row first and then the menus and the
coupon code it decides about, so each is one atomic action. In particular a
payment request locks the menus *before* it reads the other carts'
reservations, so two requests for one menu are ordered by its lock. The
exception is the menu PATCH, which reads the row without a lock and saves every
column: `EditMenu` and `SaveMenu`, with anything in between.

| variable | code |
|---|---|
| `stock` | `Menu.stock` |
| `items`, `status`, `round` | `CartItem` rows, `Cart.status`, `Cart.round` |
| `live` | `Cart.pending_expires_at` is set and in the future |
| `open` | `TableUsage.ended_at` is null |
| `applied`, `used` | `CartCouponApply` rows, `CouponCode.used_at` |
| `orders` | the `Order` rows, in the order they were made |
| `edits` | menu PATCH requests between read and save |

Two things may surprise a reader and are the code's: a cart whose deadline has
passed stays `PENDING` and can still be confirmed (only its reservation is
gone), and a rejected payment is ignored for a cart that ever had an order.
Confirmations and cancellations are enabled whenever the cart's status allows,
which covers late, repeated and reordered messages; those that find another
status change nothing.

Abstractions: the catalogue is constant; prices and the amount of a discount are
left out (the code is what matters to a coupon); a cart row exists from the
start (the code creates it on the first request); `_ensure_table_usage_alive`
is evaluated with the cart's lock, though the code reads the usage just before,
and the same holds for the look at existing orders in a rejection. Merging
carts is not modelled (section 7).

### OrderItems

Items are `MENU`, `FEE`, `SET` or `PART` of a set. `update_order_item_status`
and `handle_serving_event` lock their item and look at the other items of the
order *as committed*: they are two steps, `UpdateStatus`/`HandleServed` (lock,
decide) and `CommitStatus`. `_cancel_order_item_atomic` joins the order row to
its first statement but locks the item only; a request that waits for that lock
has an old price: `RequestCancel` reads it, `CancelOrderItem` does the rest
under the locks of the item, its children, the order and the usage. The serving
handlers run in the one listener process. Django's handlers do not look at the
item's status, so the model lets Spring's messages come for any item at any
time, which includes every loss, duplication and reordering.

| variable | code |
|---|---|
| `qty`, `stat`, `servedAt` | `OrderItem.quantity`, `status`, `served_at` set |
| `orderStatus`, `price` | `Order.order_status`, `order_price` |
| `accumulated`, `revenues` | `TableUsage.accumulated_amount`, `Booth.total_revenues` |
| `stock` | `Menu.stock`, relative to when the orders were made |
| `tx` | each worker's transaction in flight |

Cancelling a part of a set alone is refused without a change of state and not
enumerated. The quantity of a part is a multiple of its set's, as
`_finalize_payment_core` makes it (an assumption of the module).

### Serving

One table's items as both services see them. A server's request is a Spring
transaction in two steps: it reads its rows and publishes to Django, then
commits whole rows (`CatchCall`, `CompleteCall`, `CancelCall`,
`ReleaseBySession`, then `CommitUpdate`); `catchCall` deletes its Redis lock in
between (`Unlock`), and the lock may expire. A message from Django gets a thread
of its own and so may be overtaken; it too reads first and writes at its commit
(`HandleCooked`, `HandleRemove`, then `CommitInsert`, `CommitDelete`). A commit
that misses one of its rows fails as a whole, as Hibernate's check of the number
of rows written does. Django's listener is one loop over a queue in order.
Messages are lost both ways, transactions fail after they published, and a reset
may fail after it did.

| variable | code |
|---|---|
| `stat` | `OrderItem.status` |
| `over` | the table's usage was ended by a reset |
| `task` | the rows of `serving_task`; `by` is `catched_by` with `locked_by_session_id`, the server's login session (`SessionOf`) |
| `lock` | the keys `lock:serving_task:<id>` |
| `tx` | the rows each Spring transaction has yet to write |
| `toSpring`, `toDjango` | messages under way, a bag and a queue |
| `calm` | history: nothing has disturbed the item since it was put right |

The code has many ways to leave the two services apart, and nothing repairs
them by itself. `calm[i]` becomes false with each: a lost message, a failed
transaction, a request about an item while Spring is busy with it, staff taking
a `SERVING` item back (Spring is not told, or ignores it), a partial refund
(Spring removes the task), a cancelled set (Spring is told of the set, and the
tasks are its parts'), a failed reset. It becomes true again when staff set the
item to `SERVED`, cancel it, or reset the table, while nothing about it is under
way. Django's `served`, `cooking`, `refund` and `reset` messages all remove
tasks and are one kind here. What happens to the order and its money is
`OrderItems`' subject, where Spring's messages may come at any time; `Serving`
says which do come.

### StaffCalls

The calls for `PAYMENT_CONFIRM` of one cart and the cart's payment. A request is
a transaction in two steps: it is open with the rows it has read (`Emit`,
`Accept`, `CancelAccept`, `Complete`, `ReleaseBySessionId`, `DeleteByCustomer`,
`CancelOrder`, `VoidActiveCallsForTable`) and then commits them (`Commit`,
`CommitEmit`) or rolls back (`Fail`, at any time). Accepting, giving back and
completing find the call by its cart with a row lock, and fail while two calls
match; the other requests read without one. `StaffCall` has a `@Version`, which
is one bit of each open transaction, `stale`: somebody has written a row of it
since. A completion publishes before it commits and the message may be lost or
wait; `cancelOrder` cancels Django's payment by HTTP between its read and its
commit (`DjangoCancels`). Django refuses what it cannot confirm and forgets it.

| variable | code |
|---|---|
| `call` | `StaffCall.status`, `lockedBySessionId` |
| `tx` | what each request has read and not yet written |
| `channel` | `staffcall:completed` messages on their way |
| `cart`, `round`, `orderOf` | `Cart.status`, `round`, and what confirmed each round |
| `failed`, `overlapped` | history: completions that rolled back; two emits at once |

Every token of a member of the staff has a user name, and only sessions with a
token accept, so the code's fallbacks for missing names are not modelled. What
else `emit` refuses (a missing cart, a table of another booth, an inactive
table) changes nothing. Whether a payment may be requested is `Checkout`'s
subject: here a request is possible whenever the cart is `ACTIVE`.

### RevenueCache

`ledger` is what `_query_db` would return, `cache` the key, `call` each
worker's program counter. `update_today_revenue` is up to four commands (the
Lua script, the query, `SET NX`, `INCRBY`), each an action; so is
`get_today_revenue`. Any command may fail (`RedisFails`), the key may expire at
any time, and formatting a booth deletes the orders first and the key after the
commit. `Spec` has all of it; `SmoothSpec` leaves out failures, expiry and
formatting.

### Admin pages

The admin site is where the booth's data is made and repaired, and its pages
run the scripts of `django/static/admin/js`. They are Django's own, kept in the
repository as collected static files, and they are the part of this program in
which a long sequence of legal clicks matters most. Only what this project's
`admin.py` files use is modelled. One module stands for one widget with one
action per event handler, and `AdminPages` puts them together: a page's widgets
share no state with those of another page, so a behaviour stays on one page.

| module | state | code |
|---|---|---|
| `ChangeList` | ticked rows, the bar's parts, `select_across` | `actions.js`, `cancel.js` |
| `SelectFilter` | `SelectBox.cache`, the options selected, both filters, what was sent | `SelectBox.js`, `SelectFilter2.js` |
| `Formset` | the rows with the number in their id and in their names, `TOTAL_FORMS`, the links | `inlines.js`, `autocomplete.js` |
| `DateWidgets` over `CalendarDates` | calendars, clocks, which month is drawn, the two inputs | `DateTimeShortcuts.js`, `calendar.js`, `core.js` |
| `RelatedPopups` | open windows by name, `relatedWindows` of each page, options, values and links of the selects | `RelatedObjectLookups.js`, `popup_response.js` |
| `Preferences` | `localStorage`, `sessionStorage`, and what each tab shows | `theme.js`, `nav_sidebar.js`, `filters.js` |

Texts are members of small sets; dates are numbers and go through the code's own
formatting and parsing, as the properties are about them. `DateWidgets` has the
field of a cart's deadline, on a page where an inline row may be added and every
widget is set up again. The browser is in one of the zones of `BrowserZones`,
each with an offset before and one after the minute at which its clocks are
changed; `Now` takes the offset of the present, moves the clock, and reads the
date at the offset of the moved minute, as `now` and `Date` do. The years 0 to 99
are those `Date` takes for 19xx (`FullYear`).

`RelatedPopups` has two kinds of first page: the rows of a set menu, whose dishes
are select2 with options from the server, and an order's item, whose dish is a
plain select with an empty option and a link to delete. A row has three names of
an object, and they may differ: its `option`, which is made when the object is
chosen and renamed by the row's own change window; the name its `select2` took
from the option once and keeps; and the one that is `rendered`, which the answer
of a change window overwrites whatever the row has chosen by then
(`RelatedObjectLookups.js:172-177`). So a row may show the new name of one dish
over the value of another, until something is chosen in it again. The other rows
are not told of a new name, as their selects are no "available-source"
(line 101), and go on showing the old one. Objects change from this page only, so
what the server offers a row is a name the object has, or had when the list was
fetched. The server saves what a form sends, or refuses it, for some rows as a
whole or for single fields, and shows it again.

What a filter leaves of a list is `Picked` (`Places`): the elements at a set of
places, the i-th of which is the one with i places up to it. `SelectSeq` would
say the same, but the provers know it only as an operator without a definition.

## 3. Runs

| run | question | instance |
|---|---|---|
| `CheckoutRounds` | rounds, coupons, fee, freezing, refinement | 2 tables, 1 menu (2 units), a set of two of it, the fee, 1 code, 2 rounds |
| `CheckoutStock` | overselling and reservations | 3 tables, 2 menus (2 units), a set of one and two of them, no coupon, 1 round |
| `Orders` | refunds, units, cancellation, completion | two orders of a usage, one of 2 dishes, one of a set bought twice with 4 parts and the fee; 2 staff and the listener |
| `OrderServedTwice` | *violation*: both dishes of an order `SERVED`, order still `PAID` | as `Orders` |
| `OrderRefundLost` | *violation*: a refund lost from `order_price` | as `Orders` |
| `ServingOneDish` | agreement, who holds a task, convergence | 1 dish, 2 servers with sessions of their own, 1 task, 2 transactions, 2 messages each way |
| `ServingTable` | agreement with several tasks in one transaction | a dish and a part of a set, 1 server, 2 tasks, 2 transactions, 1 message each way |
| `ServingCaughtTwice` | *violation*: a caught task is caught again | as `ServingOneDish` |
| `RevenuePace` | an existing key keeps pace | 3 workers, amounts 1 and 2, revenue up to 2, drift up to 2 |
| `RevenueCold` | *violation*: a cold key counts an order twice | the same, `SmoothSpec` |
| `StaffCalls` | who holds a call, what it orders, twins | 2 calls, 3 sessions of 2 users, 2 transactions, 2 messages, 2 rounds, 1 failed completion per call |
| `AdminPages` | the widgets of the admin site | see *Bounds* |

What the properties say:

* `NeverOversold`: the stock is never negative, with stale PATCHes, lapsed
  reservations and sets.
* `ReservationErodedOnlyByLapsed`: a stock that covers all live reservations
  stops covering them only by a confirmation whose own reservation has lapsed,
  or a menu edit.
* `OneOrderPerRound`: one order for each finished round and none for an
  unfinished one.
* `CouponSpentOnce`, `CouponStillGood`: a code buys one order; while a cart has
  it applied and unpaid, nobody else has it and it is unused.
* `FeePaidFirst`: first orders contain the seat fee.
* `FrozenWhilePending`: between request and confirmation nothing of the cart,
  its round or its coupon changes, and the order has these contents.
* `LedgerSpec`: the whole implements `SaleLedger` with `shelf <- stock`,
  `sales <- orders`.
* `RefundsCountedOnce`: the usage's and the booth's totals go down by exactly
  the units cancelled. `UnitsReturned`: so does the stock go up, also for sets
  cancelled in parts with rounding.
* `CancelledTogether`: `CANCELLED` exactly with the last unit, also for two
  requests at once. `CompletedWasServed`: nothing unserved in a completed order.
* `AgreeWhenSettled`: when nothing about a calm item is under way, Django and
  Spring say the same of it: one task for an item to serve, caught exactly while
  the item is `SERVING`, and none for another. With the meaning of `calm` this
  says that the disturbances named above are all there are, and that the staff's
  `SERVED`, a cancellation and a reset put every one of them right, duplicate
  tasks included.
* `CaughtStaysCaught`: a server loses a caught task of a calm item only by a
  request of its own, the end of its session or a message from Django.
* `Converges`: once requests and failures stop, the two agree on every calm item
  for good.
* `ExistingKeyKeepsPace`: with the key present, the difference between key (plus
  amounts on their way) and database changes only by a call that fails.
* `HeldUntilReleased`: who has accepted a call loses it only by giving it back
  or by the close of a session it was accepted in. What makes this hard is a
  release that read the call before it went round once more.
* `DeletedNeverOrders`: a call withdrawn by customer or staff has sent Django
  nothing, however a completion overlaps with the withdrawal; only a completion
  that failed by itself may have published before.
* `OneOrderPerCall`: a call orders one round however late its message, and one
  more for each completion that published and rolled back.
* `TwinsOnlyByOverlap`: two calls of a cart are in progress only if two emits
  overlapped. Twins do come about then, and neither can be accepted until one is
  withdrawn.
* `AcrossNeedsAllRows`: an action is sent for all objects, beyond the page, only
  while every row of the page is ticked.
* `ChoicesConserved`: each choice is in one of the two boxes, once, whatever is
  filtered, moved or added by a popup; `HiddenAreChosen`: what a filter hides of
  the chosen ones is told to the user and sent with the form all the same.
* `FormsInSequence`: names, ids, `TOTAL_FORMS` and the links of inline rows are
  as the server will count them; `RowsAreWhole`: a removed row takes its errors
  along, and each row's dish became a select2 once.
* `OpenBoxesClose`: a calendar or clock that is open can be closed by a click
  elsewhere. `GridIsTheMonth`: what a calendar draws is the month of the
  Gregorian calendar, for the configured first day of the week, in the years that
  `Date` takes as they are. `DatesGoRound`: a date in the input is where the
  calendar opens, a picked day arrives in the input, and the links of the box write
  the server's days, unless the browser's clocks are changed between the present
  and the minute it is moved to (section 5).
* `WindowsHaveOpeners`: an open window has its page, the page knows it, and the
  select it answers to is there. `SelectsAreSound`: the links of a field are about
  what it has chosen, and it offers that; a plain field offers the objects as the
  server has them. Of a row it says how wrong its names may be: they are names the
  object has or had, none older than the one its select2 keeps, and what is shown
  belongs to another object than the chosen one only if a window of the row gave
  that object the name too late.
* `ShownAsKept`: each tab shows theme, side bar, quick filter and folds as the
  browser kept them when it last read or wrote them.

**Bounds.** Two tables are enough for every conflict between two carts, and the
third in `CheckoutStock` is there because eroding a reservation takes a holder,
a lapsed payer and a bystander. Two units against a set that takes two make
each sale decide about the next. `MaxLine = 1` keeps a line at one unit, which
is enough as sets take several units at once; `MaxRound = 1` gives a first and
a later round, the only ones the code tells apart. In `OrderItems` two items
are the fewest with a write skew, two staff and the listener the fewest with
every pair of overlapping transactions, and a set bought twice is cancelled in
two halves. Requests about the two orders meet only in the sums of the usage and
the booth: `OneOrderAtATime` keeps TLC to behaviours in which one of the orders
is still as it was paid. In `RevenueCache` three workers let two race
for a baseline while the third formats or reads. `MaxRevenue` and `MaxDrift`
bound the sums only. In `Serving` two transactions are the fewest that overlap;
one task row suffices for one dish's servers to contend, and two rows in
`ServingTable` make duplicates of a task and transactions over two items.
`MaxToSpring`, `MaxToDjango` bound messages under way. `ServingTable` stops at
states after a reset in which no item is calm (`UntilDisturbed`): none becomes
calm again, so its invariant says nothing of what follows.

In `StaffCalls` a call that is given back can be accepted anew, so two calls and
two transactions make every pair overlap and let a third request run before the
older of two commits; `MaxFailures` bounds the completions that roll back and
`MaxRounds` the orders there are to make. In `AdminPages` four rows are the
fewest in which a range ticked with Shift has an inside; one choice comes from a
popup, one word hides two of three; four inline rows reach `MAX_NUM_FORMS`, with
up to two saved and one extra. The clock stands at 14:30 by UTC on 31 March 2040:
still the server's day in Seoul, half past ten in the morning in New York, and the
next day in Auckland, where summer time ended half an hour ago, so that the server's
midnight, the end of a month and a change of clocks are all near. Calendars are
leafed a month either way (`MaxAway`) from today and from the dates that are typed,
among them a day that does not exist and the end of February in 1900; three zones
have offsets to both sides of the server's. Two
windows is how deep the pages' fields lead; two tabs share the browser.

Only `StaffCalls` sets `CHECK_DEADLOCK FALSE`: once all its calls are over and
the last round is ordered nothing is left to do. Symmetry is over tables, staff,
workers, task rows, transactions, calls, or the sessions of one user; no
property names one of them, and `ServingOneDish`, which checks a liveness
property, uses none.

## 4. Fairness

Only `Serving!FairSpec` assumes any, for `Converges`: weak fairness of handling
each message to Spring (the Redis container starts a thread for it), of each
Spring transaction going on to its commit, and of Django's listener loop. Nothing
is assumed of customers, servers or staff, nor that messages are not lost:
`Converges` is about behaviours in which, from some time on, only deliveries and
commits happen. That a confirmed transfer becomes an order is promised by
nothing: the message of a completed call may be lost, and the customer's cart
then waits until somebody confirms it by REST.

## 5. Disagreements between the code and its documentation

* `OrderServedTwice`: `django/order/services.py:33` says an order becomes
  `COMPLETED` when all its items are `SERVED`. The check reads other items without
  a lock: two staff set the two dishes of an order to `SERVED` in overlapping
  transactions, each sees the other's dish still `COOKING`, and both commit. Nothing
  checks the order again unless one of its items is updated once more.
* `OrderRefundLost`: `django/order/services.py:334` says the refund is taken
  off the order's price. The new price is computed from a value read before the
  lock, so overlapping cancellations of one order lose one. The usage (locked)
  and the booth (an `F()` expression) are right: `RefundsCountedOnce`.
* `ServingCaughtTwice`: `ServingTaskService.java:171` and `183` refuse a task
  another server has accepted. The lock is deleted in `finally`, before the
  transaction commits, and rows have no version: two servers are both told they
  have the task.
* `RevenueCold`: `django/order/cache.py:139` says the updated revenue is
  returned. The update runs after the commit, so the baseline read on a missing
  key already contains the amount that is then added. The tests replace
  `_query_db` and cannot see it.

Two more disagreements have no run of their own. The comment at
`DateTimeShortcuts.js:48` says `now` accounts for the server's time zone. It moves
the present by the difference of two offsets, and the date is read at the browser's
offset of the moved instant. Where the browser's clocks are changed in between, an
hour is lost or gained: on the instance of `AdminPages`, with the server in Seoul at
23:30 on 31 March and the browser in Auckland, half an hour after summer time ended
there, the links reckon from 1 April. `DatesGoRound` excepts such hours
(`NoChangeMeanwhile`) and no others. And the docstring at
`django/cart/services.py:186` says carts past their deadline are first restored
to `ACTIVE`, and `_cleanup_invalid_pending_carts` (231-238), which the function
calls for it, returns at once, by a later policy. `Checkout` follows the code:
such carts stay `PENDING`.

## 6. Proofs

A theorem holds for every value of the constants that meets the named assumptions
of its module: types of the constants, and that what is a set of database rows,
or of workers, is finite. The invariants were first checked by TLC on the runs'
instances. Every theorem has the form `Init => IInv`, `IInv /\ [Next]_vars =>
IInv'`, `IInv => Property`, with one step per action.

**Sums** (`TotalsProofs`). Stock, refunds and revenue are sums over rows, taken
by the fold of the community modules, which chooses its elements. The induction
theorems of the library take an operator as a parameter and cannot be used. The
lemmas are proved instead with a smallest set for which they fail: strict
inclusion is well-founded on the subsets of a finite set, so if a lemma failed
for some set of rows it would fail for one all of whose proper subsets are right.
In this way: the fold's function exists, the order of the rows does not matter,
one row's change is the sum's change, sums add up and are monotone. Every
theorem about money, stock or numbers of workers rests on these.

**Checkout**, from `CatalogAssumption` and `CheckoutAssumption`:

* `TypeCorrect`, `StockNeverOversold`. The stock needs one strengthening: the
  values that edits have read are not negative either, since a PATCH writes them
  back (`StockInv`).
* `OrderOncePerRound`, `CouponNeverSpentTwice`, `AppliedCouponStillGood`,
  `FirstOrderPaysFee` from one inductive invariant, `IInv`. `OneOrderPerRound` is
  nearly inductive by itself. The coupons are not: a used code must be tied to
  the order that spent it and to the `applied` row it came from, which is kept
  because `cancel_coupon_apply` touches the current round of an unpaid cart
  only. The fee is checked when payment is *requested*, so the invariant carries
  it through `PENDING`.
* `PaymentFreezesCart` and `CheckoutIsLedger`: the action property and the
  refinement, one step per action; only `ConfirmPayment` (a sale) and `SaveMenu`
  (a restock) are visible in the ledger.
* `PromisedUnitsAreKept`: what a cart takes from the stock when it pays is what
  it had reserved, so a payment within its deadline moves both sides alike; a
  request adds a reservation only after the check against all others, and
  everything else only releases some.

**Order items**, from `OrderItemsAssumption`:

* `CompletedOrdersWereServed`, `OrdersCancelledTogether`. The invariant adds what
  a transaction in flight knows: the verdict it took stays true until it commits,
  because items only leave the set of served ones by steps that keep
  `served_at`, and a cancelled item has no units.
* `TypeCorrect`, `RefundsAreCountedOnce`, `CancelledUnitsReturn`, from an
  invariant that ties what was bought to what is left. A part is always there in
  the proportion of its set (`InProportion`): a proportional cancellation rounds,
  and what makes it exact is that the quantities of parts started as multiples of
  the set's and have been cancelled with it since. `Counted` says that usage,
  booth and stock differ from their start by the units cancelled. The old price a
  waiting cancellation has read (`CancelOrderItem`) enters none of the three,
  which is why they are right and `order_price` is not (section 5).

**Revenue cache**, from `RevenueCacheAssumption`: `TypeCorrect`, and
`KeyKeepsPace`: with the key there, a step moves the key, the day's orders and the
amounts under way so that the distance between them stays. It needs the types
and that a worker that only reads brings no amount (`PaceInv`).

**Staff calls**, from `NobodyIsACall` and `BoundsAreNumbers`:

* `TypeCorrect`, `TwinsComeFromOverlap`, `WithdrawnNeverOrders`,
  `AcceptedCallsAreHeld`. `IInv` says what the two mechanisms guarantee. Row
  locks: two locking transactions share no row (`LocksExclude`), and what one
  has locked nobody has written since (`LockedIsFresh`). Versions: a
  transaction that is not stale still finds its rows as it checked them
  (`FreshIsAsChecked`). Then, a call that has sent a message is over or is about
  to be by the transaction that sent it (`SentIsOver`), and an emit at work has
  either company or no active call (`EmitsAlone`). `RowlessIsEmpty` says which
  transactions hold no row.
* `CallsOrderOnce`: messages under way, orders made and completions that failed
  are counted against each other (`TellsInTime`, `Told`, `Finished`): a call
  that is not over and not being completed has published once for each
  completion that rolled back, so one that commits adds one.

**Serving**, from `ServingAssumption`: `TypeCorrect`, `ServicesAgree`,
`CaughtIsKept`. The promise is about calm items that nothing is under way for, so
the invariant has to say what is true of a calm item while something is. `SInv`
says that it is in one of six situations: nothing is under way and the services
agree (`Quiet`); Django has asked for a task, by message (`Asked`) or in a
transaction that inserts it (`Inserting`); Django has no use for the item's tasks
any more, by message (`Clearing`) or in a transaction that deletes them
(`Deleting`); or one transaction of a server has published what it will write
(`Updating`), and the messages in Django's queue lead to the same. In each at
most one message and one transaction concern the item: whatever makes two of
them disturbs the item, and that is what `calm` records. `Prepared` adds what an
open transaction holds: rows of the items it is about, as they will be written.

**Admin pages**, from the seven assumptions of `AdminPages`: a field has one name; no
object has that of none; something is there to show; lower case stays lower case; choices are finitely
many rows of a table, the chosen ones among them; the limits of a formset are
natural numbers; dates have a month and a day between 1 and 31, although the day
may be none of that month, and clocks differ from UTC by whole minutes, by no more
than a day, before and after one change of a zone's clocks (with more, or with other days, a date that is rolled would pass more than
one month's end, and `Rolled` passes one). A step of the pages is a step of one
widget and leaves the other five alone (`OneWidgetMoves`), so each theorem has an
invariant of its widget's variables:

* `NoChoiceIsLost`, `HiddenAreToldAndSent` (`FormWidgetsProofs`), for any choices
  and words. Every choice there is stands at one place of one box (`HoldAll`);
  what is sent, and how many are hidden, is told from that. Moving is the work:
  what is picked and what is left of a list are as many as the places there are
  (`PickedAndRest` and the lemmas about ranks before it), because an i-th place for
  every i takes every place once.
* `ServerFindsEveryForm`, `RowsComeAndGoWhole` (`FormWidgetsProofs`), for any
  limits and any number of rows. `FormsInSequence` counts only the forms, while
  rows of errors stand between them; the invariant says it place by place
  (`WellKept`): a form's numbers are the number of forms before it, saved forms
  stand first, errors right before the form they are about. Deleting a row, with
  its errors, and counting the others anew keeps that (`Removal`, `Renumbering`).
  The page the server sends is put together block by block by `FlattenSeq`, a
  recursive function, so that its forms are counted by induction over the blocks.
  The library's induction theorems take an operator as a parameter; `CountingUp`
  says it of a set of numbers instead, by the smallest number missing from it.
* `AcrossIsForAllRows`, for any number of rows; the bar offers "select all" only
  with every row ticked (`QuestionNeedsAllRows`).
* `OpenWindowsAnswer`, for any fields; a window is one deeper than the page it
  belongs to (`RelatedAreDeeper`), so that closing what is below a page reaches
  all of it.
* `FieldsAnswerForThemselves`, for any objects; a window changes or deletes one of
  the model's objects, and only a window of the order item's dish deletes
  (`WindowsAreAbout`), so that no row can keep what is gone; what a row's window
  changes has an option in the row (`RenamedAreOffered`), since it was chosen there
  when the window was opened and a row loses no option before the page is left.
* `TabsShowWhatIsKept`, for any tabs and texts; the text of the quick filter is
  kept in lower case (`KeptInLower`), so that it hides as much when it is put
  back.
* `BoxesCanBeClosed`, `MonthsAreDrawnRight`, `DatesComeBack`, for any number of
  widgets, every year, month and first day of the week. The headings of a month are
  right in the years that `Date` takes as they are (`DaysUnderTheirHeadings`), and
  the links for a browser of any offset at which no clocks are changed in between
  (`NowIsServers`); that they may be wrong otherwise is told in section 5. The
  three rest on the calendar: `IsLeapYear` is the reckoning of Date (`LeapYears`), the
  list of month lengths is right (`MonthsAreAsLong`), a month follows the one
  before it by its length (`MonthsFollow`), and so a day that is rolled over the
  end of a month is the same day (`RolledIsSameDay`).
* `TypeCorrect`, the types of all six: what the invariants above do not say of
  them, the actions keep by themselves (`TypesInv`).

**Only model-checked.** Every invariant and every action property of the passing
runs is stated by a theorem. What remains with TLC is `Converges`, as liveness
under fairness is out of the provers' reach; the four disagreements, which are
counterexamples on an instance; and that the actions of each model can be taken
at all, which a safety theorem does not say.

## 7. Not modelled

* Authentication and permissions decide who may call an operation and not what
  it does. WebSocket snapshots are pushed after commits and write nothing.
  Statistics and history only read. `create_order_from_event` handles a message
  that nothing in the repository publishes.
* Table sessions beyond the end of usages. A merge reads and rewrites the usages,
  carts, items and coupon rows of several tables without locks; what could go
  wrong lies between its single statements and those of every cart operation,
  finer than the atomic transactions of `Checkout`, and an atomic merge would
  show nothing of it.
* Creating and deleting coupons, menus and sets: the catalogue and the codes are
  constant. `delete_coupon_if_unused` (`coupon/services.py:101`) looks for applied
  codes without locking them; a cart that applies one in between loses it by the
  cascade.
* Prices and discounts: an order has a price per item, and refunds are taken from
  it at that price, as the code does. What the discount of a cancelled order
  leaves in the cached revenue is not shown.
* The order in which transactions take their row locks. They are atomic actions
  here; the database breaks a deadlock between two by aborting one.
* In the admin pages: raw-id lookups, prepopulated fields, stacked inlines and
  lists with editable cells, which no admin of this project has, and Django
  REST framework's pages. `coreapi` and its documentation pages are collected
  with the static files but no URL of the project serves a page that loads them;
  `ajax-form.js` sends a form and shows the answer. jQuery, select2 and XRegExp
  are third-party libraries.

## Running

    tlc -workers 2 -config CheckoutRounds.cfg MCCheckout
    tlapm CheckoutProofs.tla

`AdminPages` takes about three minutes, `StaffCalls` and `ServingTable` about two,
every other run about one or less. `FormWidgetsProofs` and `AdminPagesProofs` take four to five minutes from
nothing, `ServingProofs` a minute and a half, every other proof module less.
