--------------------------- MODULE CommerceOrders ---------------------------
(***************************************************************************)
(* Orders and products of tec-commerce-service: order.service.ts,          *)
(* product.service.ts and the consumer order.consumer.ts, called by        *)
(* overlapping requests.  Nothing validates what a request sends: clients  *)
(* may ask for any quantity, and sellers send any stock, negative ones     *)
(* too.  A quantity that is missing, or that the column cannot hold, ends  *)
(* the transaction (AbortOrder).  Prices, addresses and the timeline are   *)
(* left out.                                                               *)
(***************************************************************************)
EXTENDS ServiceRequests

CONSTANTS
    Products,    \* ids of products
    Orders,      \* ids of orders; bound: an order needs a free id
    Quantities,  \* numbers that clients send as the quantity of an item
    Stocks,      \* numbers that sellers send as the stock
    MaxDrift     \* bound: no seller corrects a stock that is further off

ASSUME OrderAssumption ==
    Quantities \subseteq Int /\ Stocks \subseteq Int /\ MaxDrift \in Nat

VARIABLES
    listed,    \* column status of a product, "absent" before it is created
    stock,     \* column stock
    order,     \* rows of the orders table
    due,       \* history: units the sellers have said there are, less those taken
               \* by committed orders, plus those given back
    returned,  \* history: how often the units of an order were given back
    outrun,    \* history: orders written by a request after they had changed
    orderReq   \* what each running request is doing

orderVars == <<listed, stock, order, due, returned, outrun, orderReq>>
productVars == <<listed, stock, due>>
historyVars == <<returned, outrun>>

\* Quantities per product; a product that is not ordered has quantity 0
NoItems == [q \in Products |-> 0]
Baskets == [Products -> Quantities \cup {0}]

\* The items of a request: at least one, each of another product.  One that names
\* a product twice is refused.
Wanted == UNION {[S -> Quantities] : S \in SUBSET Products \ {{}}}
Items(b) == [q \in Products |-> IF q \in DOMAIN b THEN b[q] ELSE 0]

OrderStatus == {"absent", "PENDING", "PAID", "CANCELLED"}
OrderRow(s, b, p) == [status |-> s, items |-> b, payment |-> p]

OrderPc == {"idle", "create", "payment", "checkout", "cancel", "update"}
NoTarget == "none"
\* target: id of the order or the product; level: the stock, read: the order's
\* status that the request has read
OrderStep(pc, target, items, payment, level, read) ==
    [pc |-> pc, target |-> target, items |-> items, payment |-> payment,
     level |-> level, read |-> read]
OrderIdle == OrderStep("idle", NoTarget, NoItems, NoPayment, NoItems, "absent")

OrderInit ==
    /\ listed = [q \in Products |-> "absent"]
    /\ stock = NoItems
    /\ order = [o \in Orders |-> OrderRow("absent", NoItems, NoPayment)]
    /\ due = NoItems
    /\ returned = [o \in Orders |-> 0]
    /\ outrun = {}
    /\ orderReq = [r \in Requests |-> OrderIdle]

OrderAt(r, pc) == orderReq[r].pc = pc
StartOrder(r, step) == orderReq' = [orderReq EXCEPT ![r] = step]
EndOrder(r) == orderReq' = [orderReq EXCEPT ![r] = OrderIdle]

\* A request writes its order: was it overtaken since it read the order?
NoteOutrun(r) ==
    outrun' = IF order[orderReq[r].target].status = orderReq[r].read
              THEN outrun ELSE outrun \cup {orderReq[r].target}

-----------------------------------------------------------------------------
(* order.service.ts: the reads and checks                                    *)

StockOf(b) == [q \in Products |-> IF q \in DOMAIN b THEN stock[q] ELSE 0]

\* Fault: the stock is not compared with the quantity
CreateOrderUnchecked(r, b) ==
    /\ OrderAt(r, "idle")
    /\ \A q \in DOMAIN b : listed[q] = "ACTIVE"
    /\ StartOrder(r, OrderStep("create", NoTarget, Items(b), NoPayment, StockOf(b), "absent"))
    /\ UNCHANGED <<productVars, order, historyVars>>

\* Products found and ACTIVE, each with enough stock, which is all that is asked
\* of a quantity
CreateOrder(r, b) ==
    /\ OrderAt(r, "idle")
    /\ \A q \in DOMAIN b : listed[q] = "ACTIVE" /\ b[q] <= stock[q]
    /\ StartOrder(r, OrderStep("create", NoTarget, Items(b), NoPayment, StockOf(b), "absent"))
    /\ UNCHANGED <<productVars, order, historyVars>>

\* checkout: 404 or 409 unless the order is PENDING
Checkout(r, o, p) ==
    /\ OrderAt(r, "idle") /\ order[o].status = "PENDING"
    /\ StartOrder(r, OrderStep("payment", o, NoItems, p, NoItems, order[o].status))
    /\ UNCHANGED <<productVars, order, historyVars>>

\* 409 if the payment is another order's
LookUpPayment(r) ==
    /\ OrderAt(r, "payment")
    /\ LET q == orderReq[r] IN
           IF \E o \in Orders \ {q.target} : order[o].payment = q.payment
           THEN EndOrder(r)
           ELSE StartOrder(r, OrderStep("checkout", q.target, NoItems, q.payment, NoItems, q.read))
    /\ UNCHANGED <<productVars, order, historyVars>>

\* Fault: cancellable also holds PAID
CancelPaidOrder(r, o) ==
    /\ OrderAt(r, "idle") /\ order[o].status \in {"PENDING", "PAID"}
    /\ StartOrder(r, OrderStep("cancel", o, order[o].items, NoPayment, NoItems, order[o].status))
    /\ UNCHANGED <<productVars, order, historyVars>>

CancelOrder(r, o) ==
    /\ OrderAt(r, "idle") /\ order[o].status = "PENDING"
    /\ StartOrder(r, OrderStep("cancel", o, order[o].items, NoPayment, NoItems, order[o].status))
    /\ UNCHANGED <<productVars, order, historyVars>>

-----------------------------------------------------------------------------
(* order.service.ts: the transactions                                        *)

\* Fault: the new stock is computed from the stock that was read
CommitOrderAbsolute(r, o) ==
    /\ OrderAt(r, "create") /\ order[o].status = "absent"
    /\ order' = [order EXCEPT ![o] = OrderRow("PENDING", orderReq[r].items, NoPayment)]
    /\ stock' = [q \in Products |-> IF orderReq[r].items[q] = 0 THEN stock[q]
                                    ELSE orderReq[r].level[q] - orderReq[r].items[q]]
    /\ due' = [q \in Products |-> due[q] - orderReq[r].items[q]]
    /\ EndOrder(r)
    /\ UNCHANGED <<listed, returned, outrun>>

\* order.create with its items, then a decrement per item; one by a negative
\* quantity adds to the stock
CommitOrder(r, o) ==
    /\ OrderAt(r, "create") /\ order[o].status = "absent"
    /\ order' = [order EXCEPT ![o] = OrderRow("PENDING", orderReq[r].items, NoPayment)]
    /\ stock' = [q \in Products |-> stock[q] - orderReq[r].items[q]]
    /\ due' = [q \in Products |-> due[q] - orderReq[r].items[q]]
    /\ EndOrder(r)
    /\ UNCHANGED <<listed, returned, outrun>>

\* Fault: payment_id has no unique index
CommitCheckoutUnindexed(r) ==
    /\ OrderAt(r, "checkout")
    /\ LET q == orderReq[r] IN
           order' = [order EXCEPT ![q.target] = OrderRow("PAID", order[q.target].items, q.payment)]
    /\ NoteOutrun(r) /\ EndOrder(r)
    /\ UNCHANGED <<productVars, returned>>

\* Fault: the payment is stored first and the status changed in a later transaction
CommitCheckoutBinds(r) ==
    /\ OrderAt(r, "checkout")
    /\ LET q == orderReq[r] IN
           /\ \A o \in Orders \ {q.target} : order[o].payment # q.payment
           /\ order' = [order EXCEPT ![q.target] =
                  OrderRow(order[q.target].status, order[q.target].items, q.payment)]
    /\ NoteOutrun(r) /\ EndOrder(r)
    /\ UNCHANGED <<productVars, returned>>

\* The update is by id alone; only the unique index on payment_id can refuse it
CommitCheckout(r) ==
    /\ OrderAt(r, "checkout")
    /\ LET q == orderReq[r] IN
           /\ \A o \in Orders \ {q.target} : order[o].payment # q.payment
           /\ order' = [order EXCEPT ![q.target] =
                  OrderRow("PAID", order[q.target].items, q.payment)]
    /\ NoteOutrun(r) /\ EndOrder(r)
    /\ UNCHANGED <<productVars, returned>>

\* The update is by id alone; the units read with the order are given back,
\* taken away if the quantity is negative
CommitCancel(r) ==
    /\ OrderAt(r, "cancel")
    /\ LET q == orderReq[r] IN
           /\ order' = [order EXCEPT ![q.target] =
                  OrderRow("CANCELLED", order[q.target].items, order[q.target].payment)]
           /\ returned' = [returned EXCEPT ![q.target] = @ + 1]
    /\ stock' = [q \in Products |-> stock[q] + orderReq[r].items[q]]
    /\ due' = [q \in Products |-> due[q] + orderReq[r].items[q]]
    /\ NoteOutrun(r) /\ EndOrder(r)
    /\ UNCHANGED listed

\* P2002, a deadlock, the transaction's timeout or the end of the process
AbortOrder(r) ==
    /\ ~OrderAt(r, "idle")
    /\ EndOrder(r)
    /\ UNCHANGED <<productVars, order, historyVars>>

-----------------------------------------------------------------------------
(* product.service.ts                                                        *)

CreateProduct(q, n) ==
    /\ listed[q] = "absent"
    /\ listed' = [listed EXCEPT ![q] = "ACTIVE"]
    /\ stock' = [stock EXCEPT ![q] = n]
    /\ due' = [due EXCEPT ![q] = n]
    /\ UNCHANGED <<order, historyVars, orderReq>>

\* What the stock is too high by
Drift(q) == stock[q] - due[q]

\* findById: the stock the seller's correction starts from
ReadProduct(r, q) ==
    /\ OrderAt(r, "idle") /\ listed[q] # "absent"
    /\ Drift(q) \in -MaxDrift..MaxDrift    \* bound
    /\ StartOrder(r, OrderStep("update", q, NoItems, NoPayment,
                               [p \in Products |-> IF p = q THEN stock[q] ELSE 0], "absent"))
    /\ UNCHANGED <<productVars, order, historyVars>>

\* update with a stock: the number the seller sends, and the status if one is sent
UpdateProduct(r, n, s) ==
    /\ OrderAt(r, "update")
    /\ LET q == orderReq[r].target IN
           /\ listed' = [listed EXCEPT ![q] = s]
           /\ stock' = [stock EXCEPT ![q] = n]
           /\ due' = [due EXCEPT ![q] = @ + n - orderReq[r].level[q]]
    /\ EndOrder(r)
    /\ UNCHANGED <<order, historyVars>>

\* update without a stock; SOLD_OUT is to orders what INACTIVE is
UpdateStatus(q, s) ==
    /\ listed[q] # "absent"
    /\ listed' = [listed EXCEPT ![q] = s]
    /\ UNCHANGED <<stock, due, order, historyVars, orderReq>>

\* delete, of an INACTIVE product too
DeleteProduct(q) ==
    /\ listed[q] # "absent"
    /\ listed' = [listed EXCEPT ![q] = "INACTIVE"]
    /\ UNCHANGED <<stock, due, order, historyVars, orderReq>>

-----------------------------------------------------------------------------

OrderNext ==
    \/ \E r \in Requests :
        \/ \E b \in Wanted : CreateOrder(r, b)
        \/ \E o \in Orders : CommitOrder(r, o) \/ CancelOrder(r, o)
        \/ \E o \in Orders, p \in Payments : Checkout(r, o, p)
        \/ LookUpPayment(r) \/ CommitCheckout(r) \/ CommitCancel(r) \/ AbortOrder(r)
        \/ \E q \in Products : ReadProduct(r, q)
        \/ \E n \in Stocks, s \in {"ACTIVE", "INACTIVE"} : UpdateProduct(r, n, s)
    \/ \E q \in Products :
        \/ DeleteProduct(q)
        \/ \E s \in {"ACTIVE", "INACTIVE"} : UpdateStatus(q, s)
        \/ \E n \in Stocks : CreateProduct(q, n)

OrderSpec == OrderInit /\ [][OrderNext]_orderVars

-----------------------------------------------------------------------------
(* Properties *)

\* Every variable has its type, and a request at work has something to work on.
OrderTypeOK ==
    /\ listed \in [Products -> {"absent", "ACTIVE", "INACTIVE"}]
    /\ stock \in [Products -> Int]
    /\ order \in [Orders -> [status: OrderStatus, items: Baskets,
                             payment: Payments \cup {NoPayment}]]
    /\ due \in [Products -> Int]
    /\ returned \in [Orders -> Nat] /\ outrun \subseteq Orders
    /\ orderReq \in [Requests ->
           [pc: OrderPc, target: Orders \cup Products \cup {NoTarget}, items: Baskets,
            payment: Payments \cup {NoPayment}, level: [Products -> Int], read: OrderStatus]]
    /\ \A r \in Requests :
           /\ orderReq[r].pc \in {"payment", "checkout"} =>
                  orderReq[r].target \in Orders /\ orderReq[r].payment \in Payments
           /\ OrderAt(r, "cancel") => orderReq[r].target \in Orders
           /\ OrderAt(r, "update") => orderReq[r].target \in Products

\* A payment pays for one order, however checkouts overlap between the look-up
\* of the payment and the update.
OneOrderPerPayment ==
    \A o1, o2 \in Orders :
        order[o1].payment = order[o2].payment /\ order[o1].payment # NoPayment => o1 = o2

\* What the sellers declared less what orders took is the stock; no decrement
\* and no return is lost.  The two part only when a seller's absolute number
\* overwrites a stock that has changed since the seller read it.
SellerOutrun(r, q) ==
    /\ OrderAt(r, "update") /\ orderReq'[r] # orderReq[r]
    /\ orderReq[r].target = q /\ stock[q] # orderReq[r].level[q]
StockDriftsOnlyWhenOutrun ==
    [][\A q \in Products : Drift(q)' # Drift(q) => \E r \in Requests : SellerOutrun(r, q)]_orderVars

\* createOrder checks the stock before its transaction and accepts negative
\* quantities, and a seller may declare any stock: these, and nothing else, take
\* a stock below zero.  An order of a positive quantity does so only if its check
\* was overtaken, one of a negative quantity only when it is cancelled, whether
\* requests overlap or not, and a seller only by the number he sends.
BuyerOutrun(r, q) ==
    /\ OrderAt(r, "create") /\ orderReq'[r] # orderReq[r]
    /\ orderReq[r].items[q] > 0 /\ stock[q] < orderReq[r].level[q]
TakesBack(r, q) ==
    /\ OrderAt(r, "cancel") /\ orderReq'[r] # orderReq[r]
    /\ orderReq[r].items[q] < 0
SellerSends(q) ==
    /\ stock'[q] \in Stocks
    /\ \/ listed[q] = "absent"
       \/ \E r \in Requests :
            OrderAt(r, "update") /\ orderReq'[r] # orderReq[r] /\ orderReq[r].target = q
BelowZeroHasCause ==
    [][\A q \in Products : stock'[q] < 0 /\ stock'[q] < stock[q] =>
           \/ \E r \in Requests : BuyerOutrun(r, q) \/ TakesBack(r, q)
           \/ SellerSends(q)]_orderVars

\* An order nobody was overtaken on is settled once: it is paid and keeps its
\* units, or it is cancelled, unpaid, and its units were given back exactly once.
SettledOnce ==
    \A o \in Orders \ outrun :
        /\ order[o].status = "PAID" <=> order[o].payment # NoPayment
        /\ returned[o] = (IF order[o].status = "CANCELLED" THEN 1 ELSE 0)

\* The consumer of payment.completed looks for a PENDING order that carries the
\* payment of the event.
OrdersFound(p) == {o \in Orders : order[o].status = "PENDING" /\ order[o].payment = p}

\* It never finds one: a payment is stored by checkout only, together with PAID.
\* No order is ever paid by an event.
ConsumerFindsNothing == \A p \in Payments : OrdersFound(p) = {}
=============================================================================
