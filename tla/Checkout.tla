------------------------------ MODULE Checkout ------------------------------
(***************************************************************************)
(* Checkout, from the order draft to stock and money: the Stripe session   *)
(* and its webhook (use-cases/payment/useCases.ts), cash on delivery, the  *)
(* cash settlement and the administrator's status changes                  *)
(* (use-cases/order/useCases.ts), over products whose stock is moved in    *)
(* the same transaction (application/inventory/useCases.ts).  A unit of    *)
(* work is one synchronous SQLite transaction, hence one step; what        *)
(* interleaves are the units of work of a request, Stripe, and everybody   *)
(* else.  An order is known by its draft: the transaction looks for the    *)
(* draft's order before it creates one and the column is unique.           *)
(***************************************************************************)
EXTENDS Naturals, Sequences, FiniteSets, FiniteSetsExt

CONSTANTS
  Product,      \* products on sale
  Draft,        \* order drafts; the storefront uses one for both payments
  Lines,        \* the products of each draft, in order, one piece of each
  CashProduct,  \* products with allowCashOnDelivery
  Request,      \* initialize requests in flight
  Event,        \* identities Stripe gives the event of one paid session
  StartStock,   \* pieces of each product at the start
  MaxEdits      \* bound: the administrator's edits of products

ASSUME LinesAssumption ==
  \A d \in Draft : Lines[d] \in Seq(Product) /\ Lines[d] # <<>>
ASSUME DraftAssumption == IsFiniteSet(Draft)
ASSUME NumbersAssumption == StartStock \in Nat /\ MaxEdits \in Nat

VARIABLES
  product,   \* products: status, stock, price, paused
  received,  \* pieces of each product received since the start
  ord,       \* orders, by draft
  tasks,     \* the order has picking, packing or shipment work under way
  restored,  \* orders with an order-cancel stock movement
  invoice,   \* orders with a sales-invoice outbox event
  payment,   \* Stripe payments, by draft
  expected,  \* expected_amount_cents of the Stripe payments
  cash,      \* orders with the payment and event rows of a cash settlement
  handled,   \* payment_events: the Stripe events processed, by draft
  session,   \* external: the Checkout Session Stripe holds for the payment
  request,   \* where each initialize request is
  edits      \* edits of products so far

shop   == <<product, received, edits>>
orders == <<ord, tasks, restored, invoice>>
money  == <<payment, expected, cash, handled>>
vars   == <<shop, orders, money, session, request>>

Price == {1, 2}
ProductRow ==
  [status : {"published", "sold", "archived"}, stock : Nat,
   price : Price, paused : BOOLEAN]
OrderStatus ==
  {"none", "pending", "confirmed", "processing", "shipped", "cancelled"}
OrderRow ==
  [status : OrderStatus, paid : BOOLEAN, by : {"none", "stripe", "cash"}]
PaymentRow ==
  [status : {"none", "pending", "paid", "refund"},
   reference : BOOLEAN, linked : BOOLEAN]
Idle == [at |-> "idle"]
RequestState ==
  {Idle} \union [at : {"provider", "save"}, draft : Draft]

NoOrder   == [status |-> "none", paid |-> FALSE, by |-> "none"]
NoPayment == [status |-> "none", reference |-> FALSE, linked |-> FALSE]

Items(d) == {Lines[d][i] : i \in DOMAIN Lines[d]}
Exists(d) == ord[d].status # "none"

TypeOK ==
  /\ product \in [Product -> ProductRow]
  /\ received \in [Product -> Nat]
  /\ ord \in [Draft -> OrderRow]
  /\ tasks \in SUBSET Draft
  /\ restored \in SUBSET Draft
  /\ invoice \in SUBSET Draft
  /\ payment \in [Draft -> PaymentRow]
  /\ DOMAIN expected = Draft
  /\ cash \in SUBSET Draft
  /\ handled \in [Draft -> SUBSET Event]
  /\ session \in [Draft -> {"none", "open", "paid"}]
  /\ request \in [Request -> RequestState]
  /\ edits \in Nat

Init ==
  /\ product = [p \in Product |-> [status |-> "published",
                                   stock |-> StartStock,
                                   price |-> 1, paused |-> FALSE]]
  /\ received = [p \in Product |-> 0]
  /\ ord = [d \in Draft |-> NoOrder]
  /\ tasks = {}
  /\ restored = {}
  /\ invoice = {}
  /\ payment = [d \in Draft |-> NoPayment]
  /\ expected = [d \in Draft |-> 0]
  /\ cash = {}
  /\ handled = [d \in Draft |-> {}]
  /\ session = [d \in Draft |-> "none"]
  /\ request = [r \in Request |-> Idle]
  /\ edits = 0
-----------------------------------------------------------------------------
(***************************************************************************)
(* What the current products make of a draft.                              *)
(***************************************************************************)
\* The check of one line; a pause is a conflict, the rest is terminal.
Refusal(p) ==
  IF product[p].status # "published" THEN "terminal"
  ELSE IF product[p].paused THEN "conflict"
  ELSE IF product[p].stock < 1 THEN "terminal"
  ELSE "none"

Available(d) == \A i \in DOMAIN Lines[d] : Refusal(Lines[d][i]) = "none"

\* Lines are checked in order: the first one refused decides the error.
Paused(d) ==
  \E i \in DOMAIN Lines[d] :
    /\ Refusal(Lines[d][i]) = "conflict"
    /\ \A j \in DOMAIN Lines[d] : j < i => Refusal(Lines[d][j]) = "none"

Subtotal(d) ==
  MapThenSumSet(LAMBDA i : product[Lines[d][i]].price, DOMAIN Lines[d])

\* A second line of a product passes the checks, then its stock movement
\* collides with the first one's key and the transaction is rolled back.
Repeats(d) ==
  \E i, j \in DOMAIN Lines[d] : i # j /\ Lines[d][i] = Lines[d][j]

\* The sale of a draft's pieces: the last piece makes the product Sold.
Sold(d) ==
  [p \in Product |->
    IF p \notin Items(d) THEN product[p]
    ELSE [product[p] EXCEPT
           !.stock = @ - 1,
           !.status = IF product[p].stock = 1 THEN "sold" ELSE @]]

\* Mutant: an archived product does not get its piece back.
ReturnedUnlessArchived(d) ==
  [p \in Product |->
    IF p \notin Items(d) \/ product[p].status = "archived" THEN product[p]
    ELSE [product[p] EXCEPT
           !.stock = @ + 1,
           !.status = IF @ = "sold" THEN "published" ELSE @]]

\* The rollback of a sale: only a product still Sold is published again.
Returned(d) ==
  [p \in Product |->
    IF p \notin Items(d) THEN product[p]
    ELSE [product[p] EXCEPT
           !.stock = @ + 1,
           !.status = IF @ = "sold" THEN "published" ELSE @]]
-----------------------------------------------------------------------------
(***************************************************************************)
(* A Stripe checkout: one payment per draft, kept from the first request   *)
(* on; then the provider's call, outside any transaction; then the session *)
(* is recorded, unless the webhook already did.                            *)
(***************************************************************************)
Prepare(r, d) ==
  /\ request[r] = Idle
  /\ \/ payment[d].status # "none" /\ UNCHANGED <<payment, expected>>
     \/ /\ payment[d].status = "none"
        /\ Available(d)
        /\ payment' = [payment EXCEPT ![d].status = "pending"]
        /\ expected' = [expected EXCEPT ![d] = Subtotal(d)]
  /\ request' = [request EXCEPT ![r] = [at |-> "provider", draft |-> d]]
  /\ UNCHANGED <<shop, orders, cash, handled, session>>

\* The idempotency key makes Stripe answer with the one session.
CreateSession(r) ==
  /\ request[r].at = "provider"
  /\ LET d == request[r].draft IN
     session' = [session EXCEPT ![d] = IF @ = "none" THEN "open" ELSE @]
  /\ request' = [request EXCEPT ![r].at = "save"]
  /\ UNCHANGED <<shop, orders, money>>

\* setProviderReference: a pending payment learns its session, once.
Referenced(d) ==
  [payment[d] EXCEPT !.reference = TRUE]

SaveReference(r) ==
  /\ request[r].at = "save"
  /\ LET d == request[r].draft IN
     payment' = [payment EXCEPT ![d] =
       IF payment[d].status = "pending" /\ ~payment[d].linked
       THEN Referenced(d) ELSE payment[d]]
  /\ request' = [request EXCEPT ![r] = Idle]
  /\ UNCHANGED <<shop, orders, expected, cash, handled, session>>

\* The request dies with its process, or the provider's answer is lost.
Forget(r) ==
  /\ request[r] # Idle
  /\ request' = [request EXCEPT ![r] = Idle]
  /\ UNCHANGED <<shop, orders, money, session>>

\* External: the customer pays; from then on Stripe delivers its events.
PaySession(d) ==
  /\ session[d] = "open"
  /\ session' = [session EXCEPT ![d] = "paid"]
  /\ UNCHANGED <<shop, orders, money, request>>
-----------------------------------------------------------------------------
(***************************************************************************)
(* The webhook.  Every outcome but a thrown error records the event in the *)
(* transaction that acts on it; a thrown error (a paused product, an order *)
(* that already has a payment) rolls everything back, and Stripe retries.  *)
(***************************************************************************)
\* A delivery of an event that no row records yet.  Stripe may deliver an
\* event again at any time; once recorded it is a duplicate and changes
\* nothing.
Delivered(d, e) ==
  /\ session[d] = "paid"
  /\ e \notin handled[d]
  /\ handled' = [handled EXCEPT ![d] = @ \union {e}]
  /\ UNCHANGED <<session, expected, cash, request, received, edits, tasks,
                 restored>>

AlreadyRefused(d, e) ==
  /\ payment[d].status = "refund"
  /\ Delivered(d, e)
  /\ UNCHANGED <<product, ord, invoice, payment>>

\* Mutant: no unique index on payments.order_id.
MayLinkAgain(d) == payment[d].linked \/ d \in Draft

\* payments.order_id is unique: one payment row per order.
MayLink(d) == payment[d].linked \/ d \notin cash

Linked(d) ==
  [payment EXCEPT ![d] =
    [Referenced(d) EXCEPT !.status = "paid", !.linked = TRUE]]

Refunded(d) ==
  [payment EXCEPT ![d] = [Referenced(d) EXCEPT !.status = "refund"]]

Sellable(d) == Available(d) /\ Subtotal(d) = expected[d]

\* The draft has no order: the paid session creates it.
Fulfil(d, e) ==
  /\ payment[d].status # "refund"
  /\ ~Exists(d)
  /\ Sellable(d)
  /\ ~Repeats(d)
  /\ MayLink(d)
  /\ Delivered(d, e)
  /\ ord' = [ord EXCEPT ![d] =
       [status |-> "processing", paid |-> TRUE, by |-> "stripe"]]
  /\ product' = Sold(d)
  /\ invoice' = invoice \union {d}
  /\ payment' = Linked(d)

\* The draft has an order, whatever its kind and status: it is returned as
\* it stands and the payment is linked to it.
LinkExisting(d, e) ==
  /\ payment[d].status # "refund"
  /\ Exists(d)
  /\ MayLink(d)
  /\ Delivered(d, e)
  /\ payment' = Linked(d)
  /\ UNCHANGED <<product, ord, invoice>>

\* Mutants: a paused product's error is recorded as if it were handled; the
\* loss of the last piece is not recognised as terminal.
RefuseOrForget(d, e) ==
  /\ payment[d].status = "pending"
  /\ ~Exists(d)
  /\ ~Sellable(d)
  /\ Delivered(d, e)
  /\ payment' = IF Paused(d) THEN payment ELSE Refunded(d)
  /\ UNCHANGED <<product, ord, invoice>>
RefusePriceOnly(d, e) ==
  /\ payment[d].status = "pending"
  /\ ~Exists(d)
  /\ Available(d)
  /\ ~Sellable(d)
  /\ Delivered(d, e)
  /\ payment' = Refunded(d)
  /\ UNCHANGED <<product, ord, invoice>>

\* The draft can no longer be sold as paid: an operator refunds by hand.
Refuse(d, e) ==
  /\ payment[d].status = "pending"
  /\ ~Exists(d)
  /\ ~Paused(d)
  /\ ~Sellable(d)
  /\ Delivered(d, e)
  /\ payment' = Refunded(d)
  /\ UNCHANGED <<product, ord, invoice>>

Webhook(d, e) ==
  \/ AlreadyRefused(d, e)
  \/ Fulfil(d, e)
  \/ LinkExisting(d, e)
  \/ Refuse(d, e)
-----------------------------------------------------------------------------
(***************************************************************************)
(* Cash on delivery and the administrator's changes of an order.           *)
(***************************************************************************)
\* A repeated request finds the draft's order and changes nothing.
PlaceCashOrder(d) ==
  /\ ~Exists(d)
  /\ Items(d) \subseteq CashProduct
  /\ Available(d)
  /\ ~Repeats(d)
  /\ ord' = [ord EXCEPT ![d] =
       [status |-> "pending", paid |-> FALSE, by |-> "cash"]]
  /\ product' = Sold(d)
  /\ UNCHANGED <<received, edits, tasks, restored, invoice, money, session,
                 request>>

\* The guarded update looks at the payment status, not at the order's.
Settle(d) ==
  /\ ord[d].by = "cash"
  /\ ~ord[d].paid
  /\ ~payment[d].linked  \* the settlement's payment row is the order's only one
  /\ ord' = [ord EXCEPT ![d].paid = TRUE]
  /\ cash' = cash \union {d}
  /\ invoice' = invoice \union {d}
  /\ UNCHANGED <<shop, tasks, restored, payment, expected, handled, session,
                 request>>

OrderStatusTransitions ==
  {<<"pending", "confirmed">>, <<"pending", "processing">>,
   <<"confirmed", "processing">>, <<"processing", "shipped">>}

Advance(d, status) ==
  /\ <<ord[d].status, status>> \in OrderStatusTransitions
  /\ ord' = [ord EXCEPT ![d].status = status]
  /\ UNCHANGED <<shop, tasks, restored, invoice, money, session, request>>

\* The stock movement's key makes the rollback happen once.
Cancel(d) ==
  /\ ord[d].status \in {"pending", "confirmed", "processing"}
  /\ d \notin tasks
  /\ ord' = [ord EXCEPT ![d].status = "cancelled"]
  /\ product' = IF d \in restored THEN product ELSE Returned(d)
  /\ restored' = restored \union {d}
  /\ UNCHANGED <<received, edits, tasks, invoice, money, session, request>>

BeginFulfilment(d) ==
  /\ ord[d].status = "processing"
  /\ d \notin tasks
  /\ tasks' = tasks \union {d}
  /\ UNCHANGED <<shop, ord, restored, invoice, money, session, request>>

AbandonFulfilment(d) ==
  /\ d \in tasks
  /\ tasks' = tasks \ {d}
  /\ UNCHANGED <<shop, ord, restored, invoice, money, session, request>>
-----------------------------------------------------------------------------
(***************************************************************************)
(* The administrator's edits of a product.                                 *)
(***************************************************************************)
Edit(p, row) ==
  /\ edits < MaxEdits
  /\ edits' = edits + 1
  /\ product' = [product EXCEPT ![p] = row]
  /\ UNCHANGED <<orders, money, session, request>>

PauseSale(p) ==
  /\ ~product[p].paused
  /\ Edit(p, [product[p] EXCEPT !.paused = TRUE])
  /\ UNCHANGED received

ResumeSale(p) ==
  /\ product[p].paused
  /\ product' = [product EXCEPT ![p].paused = FALSE]
  /\ UNCHANGED <<received, edits, orders, money, session, request>>

Reprice(p) ==
  /\ Edit(p, [product[p] EXCEPT !.price = 3 - @])
  /\ UNCHANGED received

SetStatus(p, status) ==
  /\ status # product[p].status
  /\ Edit(p, [product[p] EXCEPT !.status = status])
  /\ UNCHANGED received

Receive(p) ==
  /\ Edit(p, [product[p] EXCEPT !.stock = @ + 1])
  /\ received' = [received EXCEPT ![p] = @ + 1]

EditProduct(p) ==
  \/ PauseSale(p) \/ ResumeSale(p)
  \/ Reprice(p)
  \/ \E status \in {"published", "archived"} : SetStatus(p, status)
  \/ Receive(p)
-----------------------------------------------------------------------------
Next ==
  \/ \E r \in Request :
       \/ \E d \in Draft : Prepare(r, d)
       \/ CreateSession(r) \/ SaveReference(r) \/ Forget(r)
  \/ \E d \in Draft :
       \/ PaySession(d)
       \/ \E e \in Event : Webhook(d, e)
       \/ PlaceCashOrder(d) \/ Settle(d)
       \/ \E status \in OrderStatus : Advance(d, status)
       \/ Cancel(d) \/ BeginFulfilment(d) \/ AbandonFulfilment(d)
  \/ \E p \in Product : EditProduct(p)

Spec == Init /\ [][Next]_vars

\* Stripe keeps delivering an event it has no 2xx for.
LiveSpec == Spec /\ \A d \in Draft, e \in Event : WF_vars(Webhook(d, e))
-----------------------------------------------------------------------------
(***************************************************************************)
(* Properties.                                                             *)
(***************************************************************************)
\* Every piece is in stock or in exactly one order that was not cancelled:
\* nothing is oversold, sold twice, restored twice or lost, across both kinds
\* of checkout, replays, cancellations and purchase receipts.
Holding(p) == {d \in Draft : Exists(d) /\ ord[d].status # "cancelled"
                                       /\ p \in Items(d)}

StockConserved ==
  \A p \in Product :
    /\ product[p].stock >= 0
    /\ product[p].stock + Cardinality(Holding(p)) = StartStock + received[p]

\* A processed webhook event has settled the customer's charge one way: the
\* payment is paid and linked to an order of the draft, or it awaits a
\* manual refund and no order was made of it.  And an order made by Stripe
\* has a session that was really paid.
ChargesAreSettled ==
  \A d \in Draft :
    /\ handled[d] # {} =>
         \/ payment[d].status = "paid" /\ payment[d].linked /\ Exists(d)
         \/ payment[d].status = "refund" /\ ~payment[d].linked
                                         /\ ord[d].by # "stripe"
    /\ ord[d].by = "stripe" => session[d] = "paid" /\ payment[d].linked

\* An order counts as paid through exactly one payment, Stripe's or the cash
\* settlement's, and then its invoice has been requested.
PaidOnce ==
  \A d \in Draft :
    /\ ~(payment[d].linked /\ d \in cash)
    /\ ord[d].paid => (payment[d].linked \/ d \in cash) /\ d \in invoice

\* A customer who has paid gets the order or the refund queue in the end,
\* unless for ever a paused product, a repeated line or a cash settlement
\* stands in the way.
Blocked(d) ==
  \/ ~Exists(d) /\ (Paused(d) \/ (Sellable(d) /\ Repeats(d)))
  \/ d \in cash /\ ~payment[d].linked

Answered(d) == payment[d].status \in {"paid", "refund"}

ChargesAreAnswered ==
  \A d \in Draft : session[d] = "paid" ~> (Answered(d) \/ []Blocked(d))

\* A paid Stripe payment has a paid order whose invoice is requested, "payment,
\* event, order, inventory, stock movement and paid-order invoice outbox
\* completion share one atomic UnitOfWork": not so when the draft already had
\* a cash order.
FulfilledChargeIsBooked ==
  \A d \in Draft :
    payment[d].status = "paid" => ord[d].paid /\ d \in invoice
=============================================================================
