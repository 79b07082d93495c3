------------------------ MODULE CommerceOrders_proofs ------------------------
(***************************************************************************)
(* Proofs about CommerceOrders for any products, orders, payments and      *)
(* requests.                                                               *)
(***************************************************************************)
EXTENDS CommerceOrders, TLAPS

Targets == Orders \cup Products \cup {NoTarget}
PaymentIds == Payments \cup {NoPayment}
OrderRows == [status: OrderStatus, items: Baskets, payment: PaymentIds]
OrderSteps == [pc: OrderPc, target: Targets, items: Baskets, payment: PaymentIds,
               level: [Products -> Int], read: OrderStatus]

\* An order that is not yet paid carries no payment.
UnpaidHasNone ==
    \A o \in Orders : order[o].status \in {"absent", "PENDING"} => order[o].payment = NoPayment

\* A checkout or a cancellation at work has read PENDING.
PendingWhenRead ==
    \A r \in Requests :
        orderReq[r].pc \in {"payment", "checkout", "cancel"} => orderReq[r].read = "PENDING"

\* createOrder at work has read enough stock of every product.
StockedWhenRead ==
    \A r \in Requests : OrderAt(r, "create") =>
        \A q \in Products : orderReq[r].items[q] <= orderReq[r].level[q]

\* A product that has no row has no stock, and nobody has ordered it.
AbsentUntouched ==
    \A q \in Products : listed[q] = "absent" =>
        /\ stock[q] = 0 /\ due[q] = 0
        /\ \A o \in Orders : order[o].items[q] = 0
        /\ \A r \in Requests : orderReq[r].items[q] = 0

OrderInv ==
    /\ OrderTypeOK /\ OneOrderPerPayment /\ SettledOnce
    /\ UnpaidHasNone /\ PendingWhenRead /\ StockedWhenRead /\ AbsentUntouched

-----------------------------------------------------------------------------
(* Rows and slots                                                            *)

\* Nothing ordered is a basket.
LEMMA NoItemsType ==
    /\ NoItems \in Baskets /\ NoItems \in [Products -> Int]
    /\ \A q \in Products : NoItems[q] = 0
  <1>1. NoItems = [q \in Products |-> 0] /\ 0 \in Quantities \cup {0}
    BY DEF NoItems
  <1>2. QED BY <1>1 DEF Baskets

\* Quantities are integers.
LEMMA BasketType ==
    ASSUME NEW b \in Baskets, NEW q \in Products
    PROVE  b[q] \in Int
  <1>1. b[q] \in Quantities \/ b[q] = 0
    BY DEF Baskets
  <1>2. CASE b[q] \in Quantities
    BY <1>2, OrderAssumption
  <1>3. CASE b[q] = 0
    BY <1>3
  <1>4. QED BY <1>1, <1>2, <1>3

\* A request that starts an operation holds that step; the others hold theirs.
LEMMA StartSlot ==
    ASSUME orderReq \in [Requests -> OrderSteps], NEW r \in Requests,
           NEW pc \in OrderPc, NEW t \in Targets, NEW b \in Baskets, NEW p \in PaymentIds,
           NEW n \in [Products -> Int], NEW s \in OrderStatus,
           StartOrder(r, OrderStep(pc, t, b, p, n, s))
    PROVE  /\ orderReq' \in [Requests -> OrderSteps]
           /\ orderReq'[r].pc = pc /\ orderReq'[r].target = t /\ orderReq'[r].items = b
           /\ orderReq'[r].payment = p /\ orderReq'[r].level = n /\ orderReq'[r].read = s
           /\ \A x \in Requests : x # r => orderReq'[x] = orderReq[x]
  <1> DEFINE v == OrderStep(pc, t, b, p, n, s)
  <1>1. /\ v \in OrderSteps /\ v.pc = pc /\ v.target = t /\ v.items = b /\ v.payment = p
        /\ v.level = n /\ v.read = s
    BY DEF OrderSteps, OrderStep
  <1>2. orderReq' = [orderReq EXCEPT ![r] = v]
    BY DEF StartOrder
  <1> HIDE DEF v
  <1>3. orderReq' \in [Requests -> OrderSteps] /\ orderReq'[r] = v
    BY <1>1, <1>2
  <1>4. \A x \in Requests : x # r => orderReq'[x] = orderReq[x]
    BY <1>2
  <1>5. QED BY <1>1, <1>3, <1>4

\* A request that ends is idle.
LEMMA EndSlot ==
    ASSUME orderReq \in [Requests -> OrderSteps], NEW r \in Requests, EndOrder(r)
    PROVE  /\ orderReq' \in [Requests -> OrderSteps]
           /\ orderReq'[r].pc = "idle" /\ orderReq'[r].items = NoItems
           /\ \A x \in Requests : x # r => orderReq'[x] = orderReq[x]
  <1>1. StartOrder(r, OrderStep("idle", NoTarget, NoItems, NoPayment, NoItems, "absent"))
    BY DEF EndOrder, OrderIdle, StartOrder
  <1>2. /\ "idle" \in OrderPc /\ NoTarget \in Targets /\ NoPayment \in PaymentIds
        /\ "absent" \in OrderStatus
    BY DEF OrderPc, Targets, PaymentIds, OrderStatus
  <1>3. QED BY <1>1, <1>2, NoItemsType, StartSlot

\* An update of one order leaves the others alone.
LEMMA StoreOrder ==
    ASSUME order \in [Orders -> OrderRows], NEW o \in Orders, NEW s \in OrderStatus,
           NEW b \in Baskets, NEW p \in PaymentIds, order' = [order EXCEPT ![o] = OrderRow(s, b, p)]
    PROVE  /\ order' \in [Orders -> OrderRows]
           /\ order'[o].status = s /\ order'[o].items = b /\ order'[o].payment = p
           /\ \A x \in Orders : x # o => order'[x] = order[x]
  <1> DEFINE v == OrderRow(s, b, p)
  <1>1. v \in OrderRows /\ v.status = s /\ v.items = b /\ v.payment = p
    BY DEF OrderRows, OrderRow
  <1>2. order' = [order EXCEPT ![o] = v]
    OBVIOUS
  <1> HIDE DEF v
  <1>3. order' \in [Orders -> OrderRows] /\ order'[o] = v
    BY <1>1, <1>2
  <1>4. \A x \in Orders : x # o => order'[x] = order[x]
    BY <1>2
  <1>5. QED BY <1>1, <1>3, <1>4

-----------------------------------------------------------------------------
(* The steps preserve the invariant                                          *)

\* A request starts or goes on: the rows stay as they are.
LEMMA StartInv ==
    ASSUME OrderInv, UNCHANGED <<productVars, order, historyVars>>, NEW r \in Requests,
           NEW pc \in OrderPc, NEW t \in Targets, NEW b \in Baskets, NEW p \in PaymentIds,
           NEW n \in [Products -> Int], NEW s \in OrderStatus,
           StartOrder(r, OrderStep(pc, t, b, p, n, s)),
           pc \in {"payment", "checkout"} => t \in Orders /\ p \in Payments,
           pc = "cancel" => t \in Orders,
           pc = "update" => t \in Products,
           pc \in {"payment", "checkout", "cancel"} => s = "PENDING",
           pc = "create" => \A q \in Products : b[q] <= n[q],
           \A q \in Products : listed[q] = "absent" => b[q] = 0
    PROVE  OrderInv'
  <1>1. OrderTypeOK /\ orderReq \in [Requests -> OrderSteps]
    BY DEF OrderInv, OrderTypeOK, OrderSteps, Targets, PaymentIds
  <1>2. /\ orderReq' \in [Requests -> OrderSteps]
        /\ orderReq'[r].pc = pc /\ orderReq'[r].target = t /\ orderReq'[r].items = b
        /\ orderReq'[r].payment = p /\ orderReq'[r].level = n /\ orderReq'[r].read = s
        /\ \A x \in Requests : x # r => orderReq'[x] = orderReq[x]
    BY <1>1, StartSlot
  <1>3. /\ listed' = listed /\ stock' = stock /\ due' = due /\ order' = order
        /\ returned' = returned /\ outrun' = outrun
    BY DEF productVars, historyVars
  <1>4. OrderTypeOK'
    BY <1>1, <1>2, <1>3 DEF OrderTypeOK, OrderSteps, Targets, PaymentIds, OrderAt
  <1>5. OneOrderPerPayment' /\ SettledOnce' /\ UnpaidHasNone'
    BY <1>3 DEF OrderInv, OneOrderPerPayment, SettledOnce, UnpaidHasNone
  <1>6. PendingWhenRead'
    BY <1>2 DEF OrderInv, PendingWhenRead
  <1>7. StockedWhenRead'
    BY <1>2 DEF OrderInv, StockedWhenRead, OrderAt
  <1>8. AbsentUntouched'
    BY <1>2, <1>3 DEF OrderInv, AbsentUntouched
  <1>9. QED BY <1>4, <1>5, <1>6, <1>7, <1>8 DEF OrderInv

\* The types of what is stored, as sets.
LEMMA Types ==
    ASSUME OrderInv
    PROVE  /\ orderReq \in [Requests -> OrderSteps] /\ order \in [Orders -> OrderRows]
           /\ listed \in [Products -> {"absent", "ACTIVE", "INACTIVE"}]
           /\ stock \in [Products -> Int] /\ due \in [Products -> Int]
           /\ returned \in [Orders -> Nat] /\ outrun \subseteq Orders
           /\ \A r \in Requests :
                  /\ orderReq[r].pc \in OrderPc /\ orderReq[r].target \in Targets
                  /\ orderReq[r].items \in Baskets /\ orderReq[r].payment \in PaymentIds
                  /\ orderReq[r].level \in [Products -> Int] /\ orderReq[r].read \in OrderStatus
           /\ \A o \in Orders :
                  /\ order[o].status \in OrderStatus /\ order[o].items \in Baskets
                  /\ order[o].payment \in PaymentIds
  <1>1. /\ orderReq \in [Requests -> OrderSteps] /\ order \in [Orders -> OrderRows]
    BY DEF OrderInv, OrderTypeOK, OrderSteps, OrderRows, Targets, PaymentIds
  <1>2. \A r \in Requests :
                  /\ orderReq[r].pc \in OrderPc /\ orderReq[r].target \in Targets
                  /\ orderReq[r].items \in Baskets /\ orderReq[r].payment \in PaymentIds
                  /\ orderReq[r].level \in [Products -> Int] /\ orderReq[r].read \in OrderStatus
    BY <1>1 DEF OrderSteps
  <1>3. \A o \in Orders :
                  /\ order[o].status \in OrderStatus /\ order[o].items \in Baskets
                  /\ order[o].payment \in PaymentIds
    BY <1>1 DEF OrderRows
  <1>4. QED BY <1>1, <1>2, <1>3 DEF OrderInv, OrderTypeOK

\* The items of a request are a basket.
LEMMA ItemsType ==
    ASSUME NEW b \in Wanted
    PROVE  /\ Items(b) \in Baskets
           /\ \A q \in Products : Items(b)[q] = IF q \in DOMAIN b THEN b[q] ELSE 0
           /\ \A q \in DOMAIN b : q \in Products /\ b[q] \in Int
  <1>1. PICK S \in SUBSET Products : b \in [S -> Quantities]
    BY DEF Wanted
  <1>2. QED BY <1>1, OrderAssumption DEF Items, Baskets

\* createOrder has compared the quantities with the stock it read.
LEMMA CreateOrderInv ==
    ASSUME OrderInv, NEW r \in Requests, NEW b \in Wanted, CreateOrder(r, b)
    PROVE  OrderInv'
  <1>1. StockOf(b) \in [Products -> Int]
    BY Types DEF StockOf
  <1>2. \A q \in Products :
           Items(b)[q] <= StockOf(b)[q] /\ (listed[q] = "absent" => Items(b)[q] = 0)
    <2>1. SUFFICES ASSUME NEW q \in Products
                   PROVE  /\ Items(b)[q] <= StockOf(b)[q]
                          /\ listed[q] = "absent" => Items(b)[q] = 0
      OBVIOUS
    <2>2. CASE q \in DOMAIN b
      BY <2>2, ItemsType DEF CreateOrder, StockOf
    <2>3. CASE q \notin DOMAIN b
      BY <2>3, ItemsType DEF StockOf
    <2>4. QED BY <2>2, <2>3
  <1>3. "create" \in OrderPc /\ NoTarget \in Targets /\ NoPayment \in PaymentIds /\ "absent" \in OrderStatus
    BY DEF OrderPc, Targets, PaymentIds, OrderStatus
  <1>4. /\ StartOrder(r, OrderStep("create", NoTarget, Items(b), NoPayment, StockOf(b), "absent"))
        /\ UNCHANGED <<productVars, order, historyVars>>
    BY DEF CreateOrder
  <1>5. Items(b) \in Baskets
    BY ItemsType
  <1>6. QED BY <1>1, <1>2, <1>3, <1>4, <1>5, StartInv

\* The other reads: a PENDING order, or a product that has a row.
LEMMA ReadInv ==
    ASSUME OrderInv, NEW r \in Requests,
           \/ \E o \in Orders : CancelOrder(r, o) \/ \E p \in Payments : Checkout(r, o, p)
           \/ \E q \in Products : ReadProduct(r, q)
    PROVE  OrderInv'
  <1>0. /\ "payment" \in OrderPc /\ "cancel" \in OrderPc /\ "update" \in OrderPc
        /\ NoPayment \in PaymentIds /\ Payments \subseteq PaymentIds
        /\ Orders \subseteq Targets /\ Products \subseteq Targets
        /\ "absent" \in OrderStatus /\ "PENDING" \in OrderStatus
    BY DEF OrderPc, Targets, PaymentIds, OrderStatus
  <1>1. ASSUME NEW o \in Orders, NEW p \in Payments, Checkout(r, o, p)
        PROVE  OrderInv'
    <2>1. /\ StartOrder(r, OrderStep("payment", o, NoItems, p, NoItems, "PENDING"))
          /\ UNCHANGED <<productVars, order, historyVars>>
      BY <1>1 DEF Checkout
    <2>2. QED BY <1>0, <2>1, NoItemsType, StartInv
  <1>2. ASSUME NEW o \in Orders, CancelOrder(r, o)
        PROVE  OrderInv'
    <2>1. /\ StartOrder(r, OrderStep("cancel", o, order[o].items, NoPayment, NoItems, "PENDING"))
          /\ UNCHANGED <<productVars, order, historyVars>>
      BY <1>2 DEF CancelOrder
    <2>2. PICK b \in Baskets : b = order[o].items
      BY Types
    <2>3. \A q \in Products : listed[q] = "absent" => b[q] = 0
      BY <2>2 DEF OrderInv, AbsentUntouched
    <2>4. StartOrder(r, OrderStep("cancel", o, b, NoPayment, NoItems, "PENDING"))
      BY <2>1, <2>2
    <2>5. QED BY <1>0, <2>1, <2>3, <2>4, NoItemsType, StartInv
  <1>3. ASSUME NEW q \in Products, ReadProduct(r, q)
        PROVE  OrderInv'
    <2>1. PICK n \in [Products -> Int] : n = [p \in Products |-> IF p = q THEN stock[q] ELSE 0]
      <3>1. stock[q] \in Int
        BY Types
      <3>2. [p \in Products |-> IF p = q THEN stock[q] ELSE 0] \in [Products -> Int]
        BY <3>1
      <3>3. QED BY <3>2, Zenon
    <2>2. /\ StartOrder(r, OrderStep("update", q, NoItems, NoPayment, n, "absent"))
          /\ UNCHANGED <<productVars, order, historyVars>>
      BY <1>3, <2>1 DEF ReadProduct
    <2>3. QED BY <1>0, <2>2, NoItemsType, StartInv
  <1>4. QED BY <1>1, <1>2, <1>3
\* checkout goes on, or ends because the payment is another order's.
LEMMA LookUpInv ==
    ASSUME OrderInv, NEW r \in Requests, LookUpPayment(r)
    PROVE  OrderInv'
  <1>1. UNCHANGED <<productVars, order, historyVars>> /\ orderReq[r].pc = "payment"
    BY DEF LookUpPayment, OrderAt
  <1>2. /\ orderReq[r].target \in Orders /\ orderReq[r].payment \in Payments
        /\ orderReq[r].read = "PENDING"
    BY <1>1 DEF OrderInv, OrderTypeOK, PendingWhenRead
  <1>3. /\ "idle" \in OrderPc /\ "checkout" \in OrderPc /\ NoPayment \in PaymentIds
        /\ NoTarget \in Targets /\ orderReq[r].target \in Targets
        /\ orderReq[r].payment \in PaymentIds
        /\ "absent" \in OrderStatus /\ "PENDING" \in OrderStatus
    BY <1>2 DEF OrderPc, Targets, PaymentIds, OrderStatus
  <1>4. CASE EndOrder(r)
    <2>1. StartOrder(r, OrderStep("idle", NoTarget, NoItems, NoPayment, NoItems, "absent"))
      BY <1>4 DEF EndOrder, OrderIdle, StartOrder
    <2>2. QED BY <1>1, <1>3, <2>1, NoItemsType, StartInv
  <1>5. CASE StartOrder(r, OrderStep("checkout", orderReq[r].target, NoItems,
                                     orderReq[r].payment, NoItems, orderReq[r].read))
    <2>1. PICK t \in Orders, p \in Payments : t = orderReq[r].target /\ p = orderReq[r].payment
      BY <1>2
    <2>2. t \in Targets /\ p \in PaymentIds
      BY DEF Targets, PaymentIds
    <2>3. StartOrder(r, OrderStep("checkout", t, NoItems, p, NoItems, "PENDING"))
      BY <1>2, <1>5, <2>1
    <2>4. QED BY <1>1, <1>3, <2>2, <2>3, NoItemsType, StartInv
  <1>6. QED BY <1>4, <1>5 DEF LookUpPayment

\* A request is aborted before its transaction.
LEMMA AbortInv ==
    ASSUME OrderInv, NEW r \in Requests, AbortOrder(r)
    PROVE  OrderInv'
  <1>1. /\ "idle" \in OrderPc /\ NoTarget \in Targets /\ NoPayment \in PaymentIds
        /\ "absent" \in OrderStatus
    BY DEF OrderPc, Targets, PaymentIds, OrderStatus
  <1>2. /\ StartOrder(r, OrderStep("idle", NoTarget, NoItems, NoPayment, NoItems, "absent"))
        /\ UNCHANGED <<productVars, order, historyVars>>
    BY DEF AbortOrder, EndOrder, OrderIdle, StartOrder
  <1>3. QED BY <1>1, <1>2, NoItemsType, StartInv

\* A request that ends keeps what the invariant says of the other requests.
LEMMA EndRequests ==
    ASSUME OrderInv, NEW r \in Requests, EndOrder(r)
    PROVE  /\ orderReq' \in [Requests -> OrderSteps]
           /\ PendingWhenRead' /\ StockedWhenRead'
           /\ \A x \in Requests :
                  \/ orderReq'[x] = orderReq[x]
                  \/ orderReq'[x].pc = "idle" /\ orderReq'[x].items = NoItems
  <1>1. /\ orderReq' \in [Requests -> OrderSteps]
        /\ orderReq'[r].pc = "idle" /\ orderReq'[r].items = NoItems
        /\ \A x \in Requests : x # r => orderReq'[x] = orderReq[x]
    BY Types, EndSlot
  <1>2. PendingWhenRead' /\ StockedWhenRead'
    BY <1>1 DEF OrderInv, PendingWhenRead, StockedWhenRead, OrderAt
  <1>3. QED BY <1>1, <1>2

\* The end of a request keeps what the type invariant says of requests.
LEMMA EndTypes ==
    ASSUME OrderInv, NEW r \in Requests, EndOrder(r),
           listed' \in [Products -> {"absent", "ACTIVE", "INACTIVE"}],
           stock' \in [Products -> Int], order' \in [Orders -> OrderRows],
           due' \in [Products -> Int],
           returned' \in [Orders -> Nat], outrun' \subseteq Orders
    PROVE  OrderTypeOK'
  <1>1. /\ orderReq' \in [Requests -> OrderSteps]
        /\ \A x \in Requests : orderReq'[x] = orderReq[x] \/ orderReq'[x].pc = "idle"
    BY EndRequests
  <1>2. \A x \in Requests :
           /\ orderReq'[x].pc \in {"payment", "checkout"} =>
                  orderReq'[x].target \in Orders /\ orderReq'[x].payment \in Payments
           /\ orderReq'[x].pc = "cancel" => orderReq'[x].target \in Orders
           /\ orderReq'[x].pc = "update" => orderReq'[x].target \in Products
    BY <1>1 DEF OrderInv, OrderTypeOK, OrderAt
  <1>3. QED BY <1>1, <1>2 DEF OrderTypeOK, OrderRows, OrderSteps, Targets, PaymentIds, OrderAt

\* createOrder's transaction: a new PENDING order, and its units leave the stock.
LEMMA CommitOrderInv ==
    ASSUME OrderInv, NEW r \in Requests, NEW o \in Orders, CommitOrder(r, o)
    PROVE  OrderInv'
  <1>1. PICK b \in Baskets : b = orderReq[r].items
    BY Types
  <1>2. /\ EndOrder(r) /\ order[o].status = "absent" /\ OrderAt(r, "create")
        /\ order' = [order EXCEPT ![o] = OrderRow("PENDING", b, NoPayment)]
        /\ stock' = [q \in Products |-> stock[q] - b[q]]
        /\ due' = [q \in Products |-> due[q] - b[q]]
        /\ listed' = listed /\ returned' = returned /\ outrun' = outrun
    BY <1>1 DEF CommitOrder
  <1>3. /\ order' \in [Orders -> OrderRows]
        /\ order'[o].status = "PENDING" /\ order'[o].items = b /\ order'[o].payment = NoPayment
        /\ \A x \in Orders : x # o => order'[x] = order[x]
    <2>1. "PENDING" \in OrderStatus /\ NoPayment \in PaymentIds
      BY DEF OrderStatus, PaymentIds
    <2>2. QED BY <1>2, <2>1, Types, StoreOrder
  <1>4. /\ stock' \in [Products -> Int] /\ due' \in [Products -> Int]
        /\ \A q \in Products : stock'[q] = stock[q] - b[q] /\ due'[q] = due[q] - b[q]
    BY <1>2, Types, BasketType
  <1>5. OrderTypeOK'
    BY <1>2, <1>3, <1>4, Types, EndTypes
  <1>6. OneOrderPerPayment' /\ UnpaidHasNone'
    BY <1>3 DEF OrderInv, OneOrderPerPayment, UnpaidHasNone
  <1>7. SettledOnce'
    BY <1>2, <1>3 DEF OrderInv, SettledOnce, UnpaidHasNone
  <1>8. AbsentUntouched'
    <2>1. SUFFICES ASSUME NEW q \in Products, listed[q] = "absent"
                   PROVE  /\ stock'[q] = 0 /\ due'[q] = 0
                          /\ \A x \in Orders : order'[x].items[q] = 0
                          /\ \A x \in Requests : orderReq'[x].items[q] = 0
      BY <1>2 DEF AbsentUntouched
    <2>2. b[q] = 0 /\ stock[q] = 0 /\ due[q] = 0
      BY <1>1, <2>1 DEF OrderInv, AbsentUntouched
    <2>3. stock'[q] = 0 /\ due'[q] = 0
      BY <1>2, <1>4, <2>2
    <2>4. \A x \in Orders : order'[x].items[q] = 0
      BY <1>3, <2>1, <2>2 DEF OrderInv, AbsentUntouched
    <2>5. \A x \in Requests : orderReq'[x].items[q] = 0
      BY <1>2, <2>1, NoItemsType, EndRequests DEF OrderInv, AbsentUntouched
    <2>6. QED BY <2>3, <2>4, <2>5
  <1>9. QED BY <1>2, <1>5, <1>6, <1>7, <1>8, EndRequests DEF OrderInv

\* checkout's update: PAID, together with the payment.
LEMMA CommitCheckoutInv ==
    ASSUME OrderInv, NEW r \in Requests, CommitCheckout(r)
    PROVE  OrderInv'
  <1>1. OrderAt(r, "checkout") /\ EndOrder(r) /\ NoteOutrun(r)
    BY DEF CommitCheckout
  <1>2. PICK o \in Orders, p \in Payments, b \in Baskets :
            o = orderReq[r].target /\ p = orderReq[r].payment /\ b = order[o].items
    BY <1>1, Types DEF OrderInv, OrderTypeOK, OrderAt
  <1>3. orderReq[r].read = "PENDING"
    BY <1>1 DEF OrderInv, PendingWhenRead, OrderAt
  <1>4. /\ \A x \in Orders : x # o => order[x].payment # p
        /\ order' = [order EXCEPT ![o] = OrderRow("PAID", b, p)]
        /\ listed' = listed /\ stock' = stock /\ due' = due /\ returned' = returned
        /\ outrun' = IF order[o].status = "PENDING" THEN outrun ELSE outrun \cup {o}
    BY <1>2, <1>3 DEF CommitCheckout, NoteOutrun, productVars
  <1>5. /\ order' \in [Orders -> OrderRows]
        /\ order'[o].status = "PAID" /\ order'[o].items = b /\ order'[o].payment = p
        /\ \A x \in Orders : x # o => order'[x] = order[x]
    <2>1. "PAID" \in OrderStatus /\ p \in PaymentIds
      BY DEF OrderStatus, PaymentIds
    <2>2. QED BY <1>4, <2>1, Types, StoreOrder
  <1>6. OrderTypeOK'
    <2>1. outrun' \subseteq Orders
      BY <1>4, Types
    <2>2. QED BY <1>1, <1>4, <1>5, <2>1, Types, EndTypes
  <1>7. OneOrderPerPayment' /\ UnpaidHasNone'
    BY <1>4, <1>5 DEF OrderInv, OneOrderPerPayment, UnpaidHasNone
  <1>8. SettledOnce'
    <2>1. SUFFICES ASSUME NEW x \in Orders \ outrun'
                   PROVE  /\ order'[x].status = "PAID" <=> order'[x].payment # NoPayment
                          /\ returned'[x] = (IF order'[x].status = "CANCELLED" THEN 1 ELSE 0)
      BY DEF SettledOnce
    <2>2. CASE x = o
      <3>1. order[o].status = "PENDING" /\ o \notin outrun
        BY <1>4, <2>1, <2>2
      <3>2. returned[o] = 0
        BY <3>1 DEF OrderInv, SettledOnce
      <3>3. QED BY <1>4, <1>5, <2>2, <3>2, ServiceAssumption
    <2>3. CASE x # o
      BY <1>4, <1>5, <2>1, <2>3 DEF OrderInv, SettledOnce
    <2>4. QED BY <2>2, <2>3
  <1>9. AbsentUntouched'
    BY <1>1, <1>2, <1>4, <1>5, NoItemsType, EndRequests DEF OrderInv, AbsentUntouched
  <1>10. QED BY <1>1, <1>6, <1>7, <1>8, <1>9, EndRequests DEF OrderInv

\* cancelOrder's transaction: the units go back to the stock.
LEMMA CommitCancelInv ==
    ASSUME OrderInv, NEW r \in Requests, CommitCancel(r)
    PROVE  OrderInv'
  <1>1. OrderAt(r, "cancel") /\ EndOrder(r) /\ NoteOutrun(r)
    BY DEF CommitCancel
  <1>2. PICK o \in Orders, p \in PaymentIds, b \in Baskets, i \in Baskets :
            /\ o = orderReq[r].target /\ p = order[o].payment /\ b = order[o].items
            /\ i = orderReq[r].items
    BY <1>1, Types DEF OrderInv, OrderTypeOK, OrderAt
  <1>3. orderReq[r].read = "PENDING"
    BY <1>1 DEF OrderInv, PendingWhenRead, OrderAt
  <1>4. /\ order' = [order EXCEPT ![o] = OrderRow("CANCELLED", b, p)]
        /\ listed' = listed
        /\ stock' = [q \in Products |-> stock[q] + i[q]]
        /\ due' = [q \in Products |-> due[q] + i[q]]
        /\ returned' = [returned EXCEPT ![o] = @ + 1]
        /\ outrun' = IF order[o].status = "PENDING" THEN outrun ELSE outrun \cup {o}
    BY <1>2, <1>3 DEF CommitCancel, NoteOutrun
  <1>5. /\ order' \in [Orders -> OrderRows]
        /\ order'[o].status = "CANCELLED" /\ order'[o].items = b /\ order'[o].payment = p
        /\ \A x \in Orders : x # o => order'[x] = order[x]
    <2>1. "CANCELLED" \in OrderStatus
      BY DEF OrderStatus
    <2>2. QED BY <1>4, <2>1, Types, StoreOrder
  <1>6. /\ stock' \in [Products -> Int] /\ due' \in [Products -> Int]
        /\ \A q \in Products : stock'[q] = stock[q] + i[q] /\ due'[q] = due[q] + i[q]
    BY <1>4, Types, BasketType
  <1>7. /\ returned' \in [Orders -> Nat] /\ returned'[o] = returned[o] + 1
        /\ \A x \in Orders : x # o => returned'[x] = returned[x]
    BY <1>4, Types
  <1>8. OrderTypeOK'
    <2>1. outrun' \subseteq Orders
      BY <1>4, Types
    <2>2. QED BY <1>1, <1>4, <1>5, <1>6, <1>7, <2>1, Types, EndTypes
  <1>9. OneOrderPerPayment' /\ UnpaidHasNone'
    BY <1>2, <1>5 DEF OrderInv, OneOrderPerPayment, UnpaidHasNone
  <1>10. SettledOnce'
    <2>1. SUFFICES ASSUME NEW x \in Orders \ outrun'
                   PROVE  /\ order'[x].status = "PAID" <=> order'[x].payment # NoPayment
                          /\ returned'[x] = (IF order'[x].status = "CANCELLED" THEN 1 ELSE 0)
      BY DEF SettledOnce
    <2>2. CASE x = o
      <3>1. order[o].status = "PENDING" /\ o \notin outrun
        BY <1>4, <2>1, <2>2
      <3>2. returned[o] = 0 /\ p = NoPayment
        BY <1>2, <3>1 DEF OrderInv, SettledOnce, UnpaidHasNone
      <3>3. QED BY <1>5, <1>7, <2>2, <3>2
    <2>3. CASE x # o
      BY <1>4, <1>5, <1>7, <2>1, <2>3 DEF OrderInv, SettledOnce
    <2>4. QED BY <2>2, <2>3
  <1>11. AbsentUntouched'
    <2>1. SUFFICES ASSUME NEW q \in Products, listed[q] = "absent"
                   PROVE  /\ stock'[q] = 0 /\ due'[q] = 0
                          /\ \A x \in Orders : order'[x].items[q] = 0
                          /\ \A x \in Requests : orderReq'[x].items[q] = 0
      BY <1>4 DEF AbsentUntouched
    <2>2. i[q] = 0 /\ stock[q] = 0 /\ due[q] = 0
      BY <1>2, <2>1 DEF OrderInv, AbsentUntouched
    <2>3. stock'[q] = 0 /\ due'[q] = 0
      BY <1>4, <1>6, <2>2
    <2>4. \A x \in Orders : order'[x].items[q] = 0
      BY <1>2, <1>5, <2>1 DEF OrderInv, AbsentUntouched
    <2>5. \A x \in Requests : orderReq'[x].items[q] = 0
      BY <1>1, <2>1, NoItemsType, EndRequests DEF OrderInv, AbsentUntouched
    <2>6. QED BY <2>3, <2>4, <2>5
  <1>12. QED BY <1>1, <1>8, <1>9, <1>10, <1>11, EndRequests DEF OrderInv

\* The seller's update: the product has a row.
LEMMA UpdateProductInv ==
    ASSUME OrderInv, NEW r \in Requests, NEW n \in Stocks, NEW s \in {"ACTIVE", "INACTIVE"},
           UpdateProduct(r, n, s)
    PROVE  OrderInv'
  <1>1. OrderAt(r, "update") /\ EndOrder(r) /\ n \in Int
    BY OrderAssumption DEF UpdateProduct
  <1>2. PICK q \in Products, m \in Int : q = orderReq[r].target /\ m = n - orderReq[r].level[q]
    <2>1. PICK q \in Products : q = orderReq[r].target
      BY <1>1 DEF OrderInv, OrderTypeOK
    <2>2. orderReq[r].level[q] \in Int
      BY Types
    <2>3. n - orderReq[r].level[q] \in Int
      BY <1>1, <2>2
    <2>4. QED BY <2>1, <2>3
  <1>3. /\ listed' = [listed EXCEPT ![q] = s] /\ stock' = [stock EXCEPT ![q] = n]
        /\ due' = [due EXCEPT ![q] = @ + m]
        /\ order' = order /\ returned' = returned /\ outrun' = outrun
    <2>1. due[q] + n - orderReq[r].level[q] = due[q] + m
      <3>1. due[q] \in Int /\ orderReq[r].level[q] \in Int
        BY Types
      <3>2. QED BY <1>1, <1>2, <3>1
    <2>2. QED BY <1>2, <2>1 DEF UpdateProduct, historyVars
  <1>4. /\ listed' \in [Products -> {"absent", "ACTIVE", "INACTIVE"}]
        /\ stock' \in [Products -> Int] /\ due' \in [Products -> Int]
        /\ listed'[q] # "absent"
        /\ \A x \in Products : x # q =>
               listed'[x] = listed[x] /\ stock'[x] = stock[x] /\ due'[x] = due[x]
    BY <1>1, <1>3, Types
  <1>5. OrderTypeOK'
    BY <1>1, <1>3, <1>4, Types, EndTypes
  <1>6. OneOrderPerPayment' /\ UnpaidHasNone' /\ SettledOnce'
    BY <1>3 DEF OrderInv, OneOrderPerPayment, UnpaidHasNone, SettledOnce
  <1>7. AbsentUntouched'
    BY <1>1, <1>3, <1>4, NoItemsType, EndRequests DEF OrderInv, AbsentUntouched
  <1>8. QED BY <1>1, <1>5, <1>6, <1>7, EndRequests DEF OrderInv

\* A new product, one that is deleted, and one whose status the seller sets.
LEMMA ProductInv ==
    ASSUME OrderInv, NEW q \in Products,
           \/ DeleteProduct(q)
           \/ \E s \in {"ACTIVE", "INACTIVE"} : UpdateStatus(q, s)
           \/ \E n \in Stocks : CreateProduct(q, n)
    PROVE  OrderInv'
  <1>1. /\ order' = order /\ orderReq' = orderReq
        /\ returned' = returned /\ outrun' = outrun
    BY DEF DeleteProduct, UpdateStatus, CreateProduct, historyVars
  <1>2. /\ listed' \in [Products -> {"absent", "ACTIVE", "INACTIVE"}]
        /\ stock' \in [Products -> Int] /\ due' \in [Products -> Int]
        /\ listed'[q] # "absent"
        /\ \A x \in Products : x # q =>
               listed'[x] = listed[x] /\ stock'[x] = stock[x] /\ due'[x] = due[x]
    <2>1. CASE DeleteProduct(q) \/ \E s \in {"ACTIVE", "INACTIVE"} : UpdateStatus(q, s)
      BY <2>1, Types DEF DeleteProduct, UpdateStatus
    <2>2. CASE \E n \in Stocks : CreateProduct(q, n)
      <3>1. PICK n \in Stocks : CreateProduct(q, n)
        BY <2>2
      <3>2. n \in Int
        BY OrderAssumption
      <3>3. QED BY <3>1, <3>2, Types DEF CreateProduct
    <2>3. QED BY <2>1, <2>2
  <1>3. OrderTypeOK'
    BY <1>1, <1>2 DEF OrderInv, OrderTypeOK, OrderAt
  <1>4. OneOrderPerPayment' /\ UnpaidHasNone' /\ SettledOnce' /\ PendingWhenRead' /\ StockedWhenRead'
    BY <1>1 DEF OrderInv, OneOrderPerPayment, UnpaidHasNone, SettledOnce, PendingWhenRead,
                StockedWhenRead, OrderAt
  <1>5. AbsentUntouched'
    BY <1>1, <1>2 DEF OrderInv, AbsentUntouched
  <1>6. QED BY <1>3, <1>4, <1>5 DEF OrderInv

\* At the start there are no products, no orders and no requests.
LEMMA StartOrderInv ==
    ASSUME OrderInit
    PROVE  OrderInv
  <1>1. /\ "idle" \in OrderPc /\ NoTarget \in Targets /\ NoPayment \in PaymentIds
        /\ "absent" \in OrderStatus
    BY DEF OrderPc, Targets, PaymentIds, OrderStatus
  <1>2. /\ order \in [Orders -> OrderRows]
        /\ \A o \in Orders : /\ order[o].status = "absent" /\ order[o].items = NoItems
                             /\ order[o].payment = NoPayment
    BY <1>1, NoItemsType DEF OrderInit, OrderRow, OrderRows
  <1>3. /\ orderReq \in [Requests -> OrderSteps]
        /\ \A r \in Requests : orderReq[r].pc = "idle" /\ orderReq[r].items = NoItems
    BY <1>1, NoItemsType DEF OrderInit, OrderIdle, OrderStep, OrderSteps
  <1>4. OrderTypeOK
    BY <1>2, <1>3, NoItemsType
       DEF OrderInit, OrderTypeOK, OrderRows, OrderSteps, Targets, PaymentIds, OrderAt
  <1>5. OneOrderPerPayment /\ SettledOnce /\ UnpaidHasNone
    BY <1>2 DEF OrderInit, OneOrderPerPayment, SettledOnce, UnpaidHasNone
  <1>6. PendingWhenRead /\ StockedWhenRead
    BY <1>3 DEF PendingWhenRead, StockedWhenRead, OrderAt
  <1>7. AbsentUntouched
    BY <1>2, <1>3, NoItemsType DEF OrderInit, AbsentUntouched
  <1>8. QED BY <1>4, <1>5, <1>6, <1>7 DEF OrderInv

\* Every step preserves the invariant.
LEMMA OrderInvStep ==
    ASSUME OrderInv, [OrderNext]_orderVars
    PROVE  OrderInv'
  <1>1. ASSUME NEW r \in Requests, NEW b \in Wanted, CreateOrder(r, b)
        PROVE  OrderInv'
    BY <1>1, CreateOrderInv
  <1>2. ASSUME NEW r \in Requests, NEW o \in Orders, CommitOrder(r, o)
        PROVE  OrderInv'
    BY <1>2, CommitOrderInv
  <1>3. ASSUME NEW r \in Requests,
               \/ \E o \in Orders : CancelOrder(r, o) \/ \E p \in Payments : Checkout(r, o, p)
               \/ \E q \in Products : ReadProduct(r, q)
        PROVE  OrderInv'
    BY <1>3, ReadInv
  <1>4. ASSUME NEW r \in Requests, LookUpPayment(r) \/ AbortOrder(r)
        PROVE  OrderInv'
    BY <1>4, LookUpInv, AbortInv
  <1>5. ASSUME NEW r \in Requests, CommitCheckout(r) \/ CommitCancel(r)
        PROVE  OrderInv'
    BY <1>5, CommitCheckoutInv, CommitCancelInv
  <1>6. ASSUME NEW r \in Requests, NEW n \in Stocks, NEW s \in {"ACTIVE", "INACTIVE"},
               UpdateProduct(r, n, s)
        PROVE  OrderInv'
    BY <1>6, UpdateProductInv
  <1>7. ASSUME NEW q \in Products,
               \/ DeleteProduct(q)
               \/ \E s \in {"ACTIVE", "INACTIVE"} : UpdateStatus(q, s)
               \/ \E n \in Stocks : CreateProduct(q, n)
        PROVE  OrderInv'
    BY <1>7, ProductInv
  <1>8. CASE UNCHANGED orderVars
    BY <1>8 DEF orderVars, OrderInv, OrderTypeOK, OneOrderPerPayment, SettledOnce, UnpaidHasNone,
                PendingWhenRead, StockedWhenRead, AbsentUntouched, OrderAt
  <1>9. QED BY <1>1, <1>2, <1>3, <1>4, <1>5, <1>6, <1>7, <1>8 DEF OrderNext

\* The inductive invariant holds in every reachable state.
LEMMA OrderInvariance == OrderSpec => []OrderInv
  <1>1. OrderInit => OrderInv
    BY StartOrderInv
  <1>2. OrderInv /\ [OrderNext]_orderVars => OrderInv'
    BY OrderInvStep
  <1>3. QED BY <1>1, <1>2, PTL DEF OrderSpec

-----------------------------------------------------------------------------
(* What a step does to the stock                                             *)

\* The stock and what it should be part only in an update whose seller has
\* read another stock.
LEMMA DriftStep ==
    ASSUME OrderInv, [OrderNext]_orderVars, NEW q \in Products, Drift(q)' # Drift(q)
    PROVE  \E r \in Requests : SellerOutrun(r, q)
  <1>0. stock[q] \in Int /\ due[q] \in Int
    BY Types
  <1>1. ASSUME stock'[q] = stock[q], due'[q] = due[q]
        PROVE  FALSE
    BY <1>1 DEF Drift
  <1>2. ASSUME NEW r \in Requests, NEW o \in Orders, CommitOrder(r, o)
        PROVE  FALSE
    <2>1. orderReq[r].items[q] \in Int
      BY Types, BasketType
    <2>2. /\ stock'[q] = stock[q] - orderReq[r].items[q]
          /\ due'[q] = due[q] - orderReq[r].items[q]
      BY <1>2 DEF CommitOrder
    <2>3. QED BY <1>0, <2>1, <2>2 DEF Drift
  <1>3. ASSUME NEW r \in Requests, CommitCancel(r)
        PROVE  FALSE
    <2>1. orderReq[r].items[q] \in Int
      BY Types, BasketType
    <2>2. /\ stock'[q] = stock[q] + orderReq[r].items[q]
          /\ due'[q] = due[q] + orderReq[r].items[q]
      BY <1>3 DEF CommitCancel
    <2>3. QED BY <1>0, <2>1, <2>2 DEF Drift
  <1>4. ASSUME NEW r \in Requests, NEW n \in Stocks, NEW s \in {"ACTIVE", "INACTIVE"},
               UpdateProduct(r, n, s)
        PROVE  SellerOutrun(r, q)
    <2>1. OrderAt(r, "update") /\ EndOrder(r)
      BY <1>4 DEF UpdateProduct
    <2>2. orderReq[r].target = q
      BY <1>1, <1>4, <2>1, Types DEF UpdateProduct
    <2>3. /\ stock'[q] = n /\ due'[q] = due[q] + n - orderReq[r].level[q]
      BY <1>4, <2>2, Types DEF UpdateProduct
    <2>4. stock[q] # orderReq[r].level[q]
      <3>1. orderReq[r].level[q] \in Int /\ n \in Int
        BY Types, OrderAssumption
      <3>2. QED BY <1>0, <2>1, <2>3, <3>1 DEF Drift
    <2>5. orderReq'[r] # orderReq[r]
      BY <2>1, Types, EndSlot DEF OrderAt
    <2>6. QED BY <2>1, <2>2, <2>4, <2>5 DEF SellerOutrun
  <1>5. ASSUME NEW p \in Products, NEW n \in Stocks, CreateProduct(p, n)
        PROVE  FALSE
    <2>1. n \in Int
      BY OrderAssumption
    <2>2. p = q
      BY <1>1, <1>5, <2>1, Types DEF CreateProduct
    <2>3. stock[q] = 0 /\ due[q] = 0 /\ stock'[q] = n /\ due'[q] = n
      BY <1>5, <2>2, Types DEF CreateProduct, OrderInv, AbsentUntouched
    <2>4. QED BY <1>0, <2>1, <2>3 DEF Drift
  <1>6. ASSUME UNCHANGED <<stock, due>>
        PROVE  FALSE
    BY <1>1, <1>6
  <1>7. CASE \E r \in Requests, n \in Stocks, s \in {"ACTIVE", "INACTIVE"} :
                 UpdateProduct(r, n, s)
    BY <1>4, <1>7
  <1>8. CASE \/ \E r \in Requests :
                    \/ \E b \in Wanted : CreateOrder(r, b)
                    \/ \E o \in Orders : CancelOrder(r, o) \/ \E p \in Payments : Checkout(r, o, p)
                    \/ \E p \in Products : ReadProduct(r, p)
                    \/ LookUpPayment(r) \/ CommitCheckout(r) \/ AbortOrder(r)
             \/ \E p \in Products :
                    DeleteProduct(p) \/ \E s \in {"ACTIVE", "INACTIVE"} : UpdateStatus(p, s)
             \/ UNCHANGED orderVars
    BY <1>6, <1>8 DEF CreateOrder, CancelOrder, Checkout, ReadProduct, LookUpPayment, CommitCheckout,
                      AbortOrder, DeleteProduct, UpdateStatus, productVars, historyVars, orderVars
  <1>9. QED BY <1>2, <1>3, <1>5, <1>7, <1>8 DEF OrderNext

\* What a step that takes the stock below zero can be.
LEMMA BelowZeroStep ==
    ASSUME OrderInv, [OrderNext]_orderVars, NEW q \in Products, stock'[q] < 0, stock'[q] < stock[q]
    PROVE  (\E r \in Requests : BuyerOutrun(r, q) \/ TakesBack(r, q)) \/ SellerSends(q)
  <1>0. stock[q] \in Int
    BY Types
  <1>1. ASSUME NEW r \in Requests, NEW o \in Orders, CommitOrder(r, o)
        PROVE  BuyerOutrun(r, q)
    <2>1. OrderAt(r, "create") /\ EndOrder(r) /\ stock'[q] = stock[q] - orderReq[r].items[q]
      BY <1>1 DEF CommitOrder
    <2>2. orderReq[r].items[q] \in Int /\ orderReq[r].level[q] \in Int
      BY Types, BasketType
    <2>3. orderReq[r].items[q] <= orderReq[r].level[q]
      BY <2>1 DEF OrderInv, StockedWhenRead
    <2>4. orderReq[r].items[q] > 0 /\ stock[q] < orderReq[r].level[q]
      BY <1>0, <2>1, <2>2, <2>3
    <2>5. orderReq'[r] # orderReq[r]
      BY <2>1, Types, EndSlot DEF OrderAt
    <2>6. QED BY <2>1, <2>4, <2>5 DEF BuyerOutrun
  <1>2. ASSUME NEW r \in Requests, CommitCancel(r)
        PROVE  TakesBack(r, q)
    <2>1. OrderAt(r, "cancel") /\ EndOrder(r) /\ stock'[q] = stock[q] + orderReq[r].items[q]
      BY <1>2 DEF CommitCancel
    <2>2. orderReq[r].items[q] \in Int
      BY Types, BasketType
    <2>3. orderReq[r].items[q] < 0
      BY <1>0, <2>1, <2>2
    <2>4. orderReq'[r] # orderReq[r]
      BY <2>1, Types, EndSlot DEF OrderAt
    <2>5. QED BY <2>1, <2>3, <2>4 DEF TakesBack
  <1>3. ASSUME NEW p \in Products, NEW n \in Stocks, stock' = [stock EXCEPT ![p] = n]
        PROVE  p = q /\ stock'[q] \in Stocks
    BY <1>0, <1>3, Types
  <1>4. ASSUME stock' = stock
        PROVE  FALSE
    BY <1>0, <1>4
  <1>5. ASSUME NEW r \in Requests, NEW n \in Stocks, NEW s \in {"ACTIVE", "INACTIVE"},
               UpdateProduct(r, n, s)
        PROVE  SellerSends(q)
    <2>1. OrderAt(r, "update") /\ EndOrder(r) /\ orderReq[r].target \in Products
      BY <1>5 DEF UpdateProduct, OrderInv, OrderTypeOK
    <2>2. stock' = [stock EXCEPT ![orderReq[r].target] = n]
      BY <1>5 DEF UpdateProduct
    <2>3. orderReq[r].target = q /\ stock'[q] \in Stocks
      BY <1>3, <2>1, <2>2
    <2>4. orderReq'[r] # orderReq[r]
      BY <2>1, Types, EndSlot DEF OrderAt
    <2>5. QED BY <2>1, <2>3, <2>4 DEF SellerSends
  <1>6. ASSUME NEW p \in Products, NEW n \in Stocks, CreateProduct(p, n)
        PROVE  SellerSends(q)
    BY <1>3, <1>6 DEF CreateProduct, SellerSends
  <1>7. CASE \/ \E r \in Requests :
                    \/ \E b \in Wanted : CreateOrder(r, b)
                    \/ \E o \in Orders : CancelOrder(r, o) \/ \E p \in Payments : Checkout(r, o, p)
                    \/ \E p \in Products : ReadProduct(r, p)
                    \/ LookUpPayment(r) \/ CommitCheckout(r) \/ AbortOrder(r)
             \/ \E p \in Products :
                    DeleteProduct(p) \/ \E s \in {"ACTIVE", "INACTIVE"} : UpdateStatus(p, s)
             \/ UNCHANGED orderVars
    BY <1>4, <1>7 DEF CreateOrder, CancelOrder, Checkout, ReadProduct, LookUpPayment, CommitCheckout,
                      AbortOrder, DeleteProduct, UpdateStatus, productVars, historyVars, orderVars
  <1>8. QED BY <1>1, <1>2, <1>5, <1>6, <1>7 DEF OrderNext

-----------------------------------------------------------------------------
(* The theorems                                                              *)

\* The services' variables keep their types, for any number of products, orders
\* and overlapping requests.
THEOREM OrderTypes == OrderSpec => []OrderTypeOK
  <1>1. OrderInv => OrderTypeOK
    BY DEF OrderInv
  <1>2. QED BY <1>1, OrderInvariance, PTL

\* A payment pays for one order, however checkouts overlap.
THEOREM PaymentPaysOnce == OrderSpec => []OneOrderPerPayment
  <1>1. OrderInv => OneOrderPerPayment
    BY DEF OrderInv
  <1>2. QED BY <1>1, OrderInvariance, PTL

\* An order that no overtaken request has written is settled once.
THEOREM OrdersSettleOnce == OrderSpec => []SettledOnce
  <1>1. OrderInv => SettledOnce
    BY DEF OrderInv
  <1>2. QED BY <1>1, OrderInvariance, PTL

\* The consumer of payment.completed never finds an order to pay.
THEOREM ConsumerPaysNothing == OrderSpec => []ConsumerFindsNothing
  <1>1. OrderInv => ConsumerFindsNothing
    BY ServiceAssumption DEF OrderInv, UnpaidHasNone, ConsumerFindsNothing, OrdersFound
  <1>2. QED BY <1>1, OrderInvariance, PTL

\* No decrement and no return of units is lost; only a seller's absolute number
\* overwrites a stock that has changed.
THEOREM OnlySellersOverwrite == OrderSpec => StockDriftsOnlyWhenOutrun
  <1>1. OrderInv /\ [OrderNext]_orderVars =>
            [\A q \in Products : Drift(q)' # Drift(q) => \E r \in Requests : SellerOutrun(r, q)]_orderVars
    BY DriftStep
  <1>2. QED BY <1>1, OrderInvariance, PTL DEF OrderSpec, StockDriftsOnlyWhenOutrun

\* The stock falls below zero in three ways and no other: an order of a positive
\* quantity whose check was overtaken, the cancellation of an order of a negative
\* quantity, or the number a seller sends.  Quantities and stocks are any integers,
\* as in the code; only the first of the three needs overlapping requests.
THEOREM BelowZeroIsExplained == OrderSpec => BelowZeroHasCause
  <1>1. OrderInv /\ [OrderNext]_orderVars =>
            [\A q \in Products : stock'[q] < 0 /\ stock'[q] < stock[q] =>
                 \/ \E r \in Requests : BuyerOutrun(r, q) \/ TakesBack(r, q)
                 \/ SellerSends(q)]_orderVars
    BY BelowZeroStep
  <1>2. QED BY <1>1, OrderInvariance, PTL DEF OrderSpec, BelowZeroHasCause
=============================================================================
