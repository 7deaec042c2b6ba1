--------------------------- MODULE Checkout_proofs ---------------------------
(***************************************************************************)
(* Proofs about Checkout, for every set of products, drafts, requests and  *)
(* events: stock is conserved, a processed charge is settled, and an order *)
(* is paid once.  The inductive invariant is the type invariant, one       *)
(* condition on the rows of each draft (Row), and StockConserved.          *)
(***************************************************************************)
EXTENDS Checkout, FiniteSetTheorems, TLAPS

\* What the order, payment and settlement rows of one draft agree on.
Row(d) ==
  /\ Exists(d) <=> ord[d].by # "none"
  /\ d \in cash => ord[d].by = "cash" /\ ord[d].paid
  /\ payment[d].linked <=> payment[d].status = "paid"
  /\ payment[d].linked => Exists(d) /\ d \notin cash
  /\ payment[d].status = "refund" => ord[d].by # "stripe"
  /\ handled[d] # {} => payment[d].status \in {"paid", "refund"}
  /\ ord[d].by = "stripe" => session[d] = "paid" /\ payment[d].linked
  /\ ord[d].paid => (payment[d].linked \/ d \in cash) /\ d \in invoice
  /\ d \in restored => ord[d].status = "cancelled"

Books == \A d \in Draft : Row(d)

IInv == TypeOK /\ Books /\ StockConserved
-----------------------------------------------------------------------------
(***************************************************************************)
(* The stock movements.                                                    *)
(***************************************************************************)
\* The items of a draft are products.
LEMMA ItemsAreProducts ==
  ASSUME NEW d \in Draft
  PROVE  Items(d) \subseteq Product
BY LinesAssumption DEF Items

\* A draft whose lines all pass the checks sells pieces that are there.
LEMMA AvailableInStock ==
  ASSUME TypeOK, NEW d \in Draft, Available(d), NEW p \in Items(d)
  PROVE  product[p].stock \in Nat /\ product[p].stock >= 1
<1>1. PICK i \in DOMAIN Lines[d] : p = Lines[d][i]
  BY DEF Items
<1>2. Refusal(p) = "none"
  BY <1>1 DEF Available
<1>3. p \in Product
  BY ItemsAreProducts
<1>4. product[p].stock \in Nat
  BY <1>3 DEF TypeOK, ProductRow
<1>5. ~(product[p].stock < 1)
  BY <1>2 DEF Refusal
<1> QED
  BY <1>4, <1>5

\* A sale takes one piece of each item and leaves the rows well typed.
LEMMA SoldRows ==
  ASSUME TypeOK, NEW d \in Draft, Available(d)
  PROVE  /\ Sold(d) \in [Product -> ProductRow]
         /\ \A p \in Product :
              Sold(d)[p].stock = IF p \in Items(d) THEN product[p].stock - 1
                                 ELSE product[p].stock
<1> SUFFICES ASSUME NEW p \in Product
             PROVE  /\ Sold(d)[p] \in ProductRow
                    /\ Sold(d)[p].stock = IF p \in Items(d)
                                          THEN product[p].stock - 1
                                          ELSE product[p].stock
  BY DEF Sold
<1>1. product[p] \in ProductRow
  BY DEF TypeOK
<1>2. CASE p \notin Items(d)
  BY <1>1, <1>2 DEF Sold
<1>3. CASE p \in Items(d)
  <2>1. product[p].stock \in Nat /\ product[p].stock >= 1
    BY <1>3, AvailableInStock
  <2>2. product[p].stock - 1 \in Nat
    BY <2>1
  <2> QED
    BY <1>1, <1>3, <2>2 DEF Sold, ProductRow
<1> QED
  BY <1>2, <1>3

\* A rollback gives one piece of each item back.
LEMMA ReturnedRows ==
  ASSUME TypeOK, NEW d \in Draft
  PROVE  /\ Returned(d) \in [Product -> ProductRow]
         /\ \A p \in Product :
              Returned(d)[p].stock = IF p \in Items(d)
                                     THEN product[p].stock + 1
                                     ELSE product[p].stock
<1> SUFFICES ASSUME NEW p \in Product
             PROVE  /\ Returned(d)[p] \in ProductRow
                    /\ Returned(d)[p].stock = IF p \in Items(d)
                                              THEN product[p].stock + 1
                                              ELSE product[p].stock
  BY DEF Returned
<1>1. product[p] \in ProductRow /\ product[p].stock + 1 \in Nat
  BY DEF TypeOK, ProductRow
<1>2. CASE p \notin Items(d)
  BY <1>1, <1>2 DEF Returned
<1>3. CASE p \in Items(d)
  BY <1>1, <1>3 DEF Returned, ProductRow
<1> QED
  BY <1>2, <1>3
-----------------------------------------------------------------------------
(***************************************************************************)
(* Type correctness.                                                       *)
(***************************************************************************)
\* Recording the session keeps a payment a payment.
LEMMA ReferencedRow ==
  ASSUME TypeOK, NEW d \in Draft
  PROVE  Referenced(d) \in PaymentRow
<1>1. payment[d] \in PaymentRow
  BY DEF TypeOK
<1> QED
  BY <1>1 DEF Referenced, PaymentRow

\* The initial state is well typed.
LEMMA TypeInit == Init => TypeOK
<1> SUFFICES ASSUME Init
             PROVE  TypeOK
  OBVIOUS
<1> QED
  BY NumbersAssumption
  DEF Init, TypeOK, ProductRow, Price, OrderRow, OrderStatus, NoOrder,
      PaymentRow, NoPayment, RequestState, Idle

\* Every step keeps the types.
LEMMA TypeNext == TypeOK /\ [Next]_vars => TypeOK'
<1> SUFFICES ASSUME TypeOK, [Next]_vars
             PROVE  TypeOK'
  OBVIOUS
<1> USE DEF TypeOK, shop, orders, money
<1>1. ASSUME NEW r \in Request, NEW d \in Draft, Prepare(r, d)
      PROVE  TypeOK'
  <2>1. [payment EXCEPT ![d].status = "pending"] \in [Draft -> PaymentRow]
    BY DEF PaymentRow
  <2>2. payment' \in [Draft -> PaymentRow] /\ DOMAIN expected' = Draft
    BY <1>1, <2>1 DEF Prepare
  <2>3. request' \in [Request -> RequestState]
    BY <1>1 DEF Prepare, RequestState
  <2> QED
    BY <1>1, <2>2, <2>3 DEF Prepare
<1>2. ASSUME NEW r \in Request, CreateSession(r)
      PROVE  TypeOK'
  BY <1>2 DEF CreateSession, RequestState, Idle
<1>3. ASSUME NEW r \in Request, SaveReference(r)
      PROVE  TypeOK'
  <2> DEFINE d == request[r].draft
  <2>1. d \in Draft
    BY <1>3 DEF SaveReference, RequestState, Idle
  <2>2. Referenced(d) \in PaymentRow
    BY <2>1, ReferencedRow
  <2>3. payment' \in [Draft -> PaymentRow]
    BY <1>3, <2>1, <2>2 DEF SaveReference
  <2>4. request' \in [Request -> RequestState]
    BY <1>3 DEF SaveReference, RequestState
  <2> QED
    BY <1>3, <2>3, <2>4 DEF SaveReference
<1>4. ASSUME NEW r \in Request, Forget(r)
      PROVE  TypeOK'
  BY <1>4 DEF Forget, RequestState
<1>5. ASSUME NEW d \in Draft, PaySession(d)
      PROVE  TypeOK'
  BY <1>5 DEF PaySession
<1>6. ASSUME NEW d \in Draft, NEW e \in Event, Webhook(d, e)
      PROVE  TypeOK'
  <2>1. CASE AlreadyRefused(d, e)
    BY <2>1 DEF AlreadyRefused, Delivered
  <2>2. CASE Fulfil(d, e)
    <3>1. Sold(d) \in [Product -> ProductRow]
      BY <2>2, SoldRows DEF Fulfil, Sellable
    <3>2. Linked(d) \in [Draft -> PaymentRow]
      BY DEF Linked, Referenced, PaymentRow
    <3>3. [status |-> "processing", paid |-> TRUE, by |-> "stripe"] \in OrderRow
      BY DEF OrderRow, OrderStatus
    <3> QED
      BY <2>2, <3>1, <3>2, <3>3 DEF Fulfil, Delivered
  <2>3. CASE LinkExisting(d, e)
    BY <2>3 DEF LinkExisting, Delivered, Linked, Referenced, PaymentRow
  <2>4. CASE Refuse(d, e)
    BY <2>4 DEF Refuse, Delivered, Refunded, Referenced, PaymentRow
  <2> QED
    BY <1>6, <2>1, <2>2, <2>3, <2>4 DEF Webhook
<1>7. ASSUME NEW d \in Draft, PlaceCashOrder(d)
      PROVE  TypeOK'
  <2>1. Sold(d) \in [Product -> ProductRow]
    BY <1>7, SoldRows DEF PlaceCashOrder
  <2> QED
    BY <1>7, <2>1 DEF PlaceCashOrder, OrderRow, OrderStatus
<1>8. ASSUME NEW d \in Draft, Settle(d)
      PROVE  TypeOK'
  BY <1>8 DEF Settle, OrderRow
<1>9. ASSUME NEW d \in Draft, NEW status \in OrderStatus, Advance(d, status)
      PROVE  TypeOK'
  BY <1>9 DEF Advance, OrderRow
<1>10. ASSUME NEW d \in Draft, Cancel(d)
       PROVE  TypeOK'
  <2>1. Returned(d) \in [Product -> ProductRow]
    BY ReturnedRows
  <2> QED
    BY <1>10, <2>1 DEF Cancel, OrderRow, OrderStatus
<1>11. ASSUME NEW d \in Draft, BeginFulfilment(d)
       PROVE  TypeOK'
  BY <1>11 DEF BeginFulfilment
<1>12. ASSUME NEW d \in Draft, AbandonFulfilment(d)
       PROVE  TypeOK'
  BY <1>12 DEF AbandonFulfilment
<1>13. ASSUME NEW p \in Product, EditProduct(p)
       PROVE  TypeOK'
  <2>1. CASE PauseSale(p)
    <3>1. [product[p] EXCEPT !.paused = TRUE] \in ProductRow
      BY DEF ProductRow
    <3> QED
      BY <2>1, <3>1 DEF PauseSale, Edit
  <2>2. CASE ResumeSale(p)
    BY <2>2 DEF ResumeSale, ProductRow
  <2>3. CASE Reprice(p)
    BY <2>3 DEF Reprice, Edit, ProductRow, Price
  <2>4. ASSUME NEW status \in {"published", "archived"}, SetStatus(p, status)
        PROVE  TypeOK'
    BY <2>4 DEF SetStatus, Edit, ProductRow
  <2>5. CASE Receive(p)
    BY <2>5 DEF Receive, Edit, ProductRow
  <2> QED
    BY <1>13, <2>1, <2>2, <2>3, <2>4, <2>5 DEF EditProduct
<1>14. CASE UNCHANGED vars
  BY <1>14 DEF vars
<1> QED
  BY <1>1, <1>2, <1>3, <1>4, <1>5, <1>6, <1>7, <1>8, <1>9, <1>10, <1>11,
     <1>12, <1>13, <1>14 DEF Next
-----------------------------------------------------------------------------
(***************************************************************************)
(* The rows of a draft: one step per action, for an arbitrary draft c.     *)
(***************************************************************************)
\* Initially the rows of every draft agree.
LEMMA BooksInit == Init => Books
BY DEF Init, Books, Row, Exists, NoOrder, NoPayment

\* Every step keeps the rows of every draft in agreement.
LEMMA BooksNext == TypeOK /\ Books /\ [Next]_vars => Books'
<1> SUFFICES ASSUME TypeOK, Books, [Next]_vars, NEW c \in Draft
             PROVE  Row(c)'
  BY DEF Books
<1> USE DEF shop, orders, money
<1>a. Row(c)
  BY DEF Books
<1>b. /\ ord \in [Draft -> OrderRow] /\ payment \in [Draft -> PaymentRow]
      /\ handled \in [Draft -> SUBSET Event]
      /\ session \in [Draft -> {"none", "open", "paid"}]
      /\ ord[c] \in OrderRow /\ payment[c] \in PaymentRow
  BY DEF TypeOK
<1>1. ASSUME NEW r \in Request, NEW d \in Draft, Prepare(r, d)
      PROVE  Row(c)'
  <2>1. payment' = payment \/ (payment[d].status = "none"
                   /\ payment' = [payment EXCEPT ![d].status = "pending"])
    BY <1>1 DEF Prepare
  <2>2. UNCHANGED <<ord, cash, handled, session, invoice, restored>>
    BY <1>1 DEF Prepare
  <2> QED
    BY <1>a, <1>b, <2>1, <2>2 DEF Row, Exists, PaymentRow
<1>2. ASSUME NEW r \in Request, CreateSession(r)
      PROVE  Row(c)'
  <2>1. \A d \in Draft : session[d] = "paid" => session'[d] = "paid"
    BY <1>2, <1>b DEF CreateSession
  <2> QED
    BY <1>a, <1>2, <2>1 DEF CreateSession, Row, Exists
<1>3. ASSUME NEW r \in Request, SaveReference(r)
      PROVE  Row(c)'
  <2>1. /\ payment'[c].status = payment[c].status
        /\ payment'[c].linked = payment[c].linked
    BY <1>3, <1>b DEF SaveReference, Referenced, PaymentRow
  <2> QED
    BY <1>a, <1>3, <2>1 DEF SaveReference, Row, Exists
<1>4. ASSUME NEW r \in Request, Forget(r)
      PROVE  Row(c)'
  BY <1>a, <1>4 DEF Forget, Row, Exists
<1>5. ASSUME NEW d \in Draft, PaySession(d)
      PROVE  Row(c)'
  BY <1>a, <1>b, <1>5 DEF PaySession, Row, Exists
<1>6. ASSUME NEW d \in Draft, NEW e \in Event, Webhook(d, e)
      PROVE  Row(c)'
  <2>0. /\ UNCHANGED <<session, cash, restored>> /\ session[d] = "paid"
        /\ d # c => handled'[c] = handled[c]
    BY <1>6, <1>b
    DEF Webhook, AlreadyRefused, Fulfil, LinkExisting, Refuse, Delivered
  <2>1. CASE AlreadyRefused(d, e)
    BY <1>a, <1>b, <2>0, <2>1 DEF AlreadyRefused, Row, Exists
  <2>2. CASE Fulfil(d, e)
    <3>1. CASE c = d
      <4>1. ord'[c] = [status |-> "processing", paid |-> TRUE,
                       by |-> "stripe"]
        BY <1>b, <2>2, <3>1 DEF Fulfil
      <4>2. payment'[c].status = "paid" /\ payment'[c].linked
        BY <1>b, <2>2, <3>1 DEF Fulfil, Linked, Referenced, PaymentRow
      <4>3. c \in invoice' /\ c \notin cash /\ c \notin restored
        BY <1>a, <2>2, <3>1 DEF Fulfil, Row, Exists
      <4> QED
        BY <2>0, <3>1, <4>1, <4>2, <4>3 DEF Row, Exists
    <3>2. CASE c # d
      BY <1>a, <1>b, <2>0, <2>2, <3>2 DEF Fulfil, Linked, Row, Exists
    <3> QED
      BY <3>1, <3>2
  <2>3. CASE LinkExisting(d, e)
    <3>1. UNCHANGED <<ord, invoice>>
      BY <2>3 DEF LinkExisting
    <3>2. CASE c = d
      <4>1. payment'[c].status = "paid" /\ payment'[c].linked
        BY <1>b, <2>3, <3>2 DEF LinkExisting, Linked, Referenced, PaymentRow
      <4>2. Exists(c) /\ c \notin cash
        BY <1>a, <2>3, <3>2 DEF LinkExisting, MayLink, Row
      <4> QED
        BY <1>a, <2>0, <3>1, <3>2, <4>1, <4>2 DEF Row, Exists
    <3>3. CASE c # d
      <4>1. payment'[c] = payment[c]
        BY <1>b, <2>3, <3>3 DEF LinkExisting, Linked
      <4> QED
        BY <1>a, <2>0, <3>1, <3>3, <4>1 DEF Row, Exists
    <3> QED
      BY <3>2, <3>3
  <2>4. CASE Refuse(d, e)
    <3>1. UNCHANGED <<ord, invoice>>
      BY <2>4 DEF Refuse
    <3>2. CASE c = d
      <4>1. payment'[c].status = "refund" /\ payment'[c].linked = FALSE
        BY <1>a, <1>b, <2>4, <3>2
        DEF Refuse, Refunded, Referenced, PaymentRow, Row
      <4>2. ~Exists(c)
        BY <2>4, <3>2 DEF Refuse
      <4> QED
        BY <1>a, <2>0, <3>1, <4>1, <4>2 DEF Row, Exists
    <3>3. CASE c # d
      <4>1. payment'[c] = payment[c]
        BY <1>b, <2>4, <3>3 DEF Refuse, Refunded
      <4> QED
        BY <1>a, <2>0, <3>1, <3>3, <4>1 DEF Row, Exists
    <3> QED
      BY <3>2, <3>3
  <2> QED
    BY <1>6, <2>1, <2>2, <2>3, <2>4 DEF Webhook
<1>7. ASSUME NEW d \in Draft, PlaceCashOrder(d)
      PROVE  Row(c)'
  <2>1. ord' = [ord EXCEPT ![d] =
                 [status |-> "pending", paid |-> FALSE, by |-> "cash"]]
    BY <1>7 DEF PlaceCashOrder
  <2> QED
    BY <1>a, <1>b, <1>7, <2>1 DEF PlaceCashOrder, Row, Exists, OrderRow
<1>8. ASSUME NEW d \in Draft, Settle(d)
      PROVE  Row(c)'
  BY <1>a, <1>b, <1>8 DEF Settle, Row, Exists, OrderRow
<1>9. ASSUME NEW d \in Draft, NEW status \in OrderStatus, Advance(d, status)
      PROVE  Row(c)'
  <2>1. /\ status \notin {"none", "cancelled"}
        /\ ord[d].status \notin {"none", "cancelled"}
    BY <1>9 DEF Advance, OrderStatusTransitions
  <2> QED
    BY <1>a, <1>b, <1>9, <2>1 DEF Advance, Row, Exists, OrderRow
<1>10. ASSUME NEW d \in Draft, Cancel(d)
       PROVE  Row(c)'
  BY <1>a, <1>b, <1>10 DEF Cancel, Row, Exists, OrderRow
<1>11. ASSUME NEW d \in Draft, BeginFulfilment(d)
       PROVE  Row(c)'
  BY <1>a, <1>11 DEF BeginFulfilment, Row, Exists
<1>12. ASSUME NEW d \in Draft, AbandonFulfilment(d)
       PROVE  Row(c)'
  BY <1>a, <1>12 DEF AbandonFulfilment, Row, Exists
<1>13. ASSUME NEW p \in Product, EditProduct(p)
       PROVE  Row(c)'
  BY <1>a, <1>13
  DEF EditProduct, PauseSale, ResumeSale, Reprice, SetStatus, Receive, Edit,
      Row, Exists
<1>14. CASE UNCHANGED vars
  BY <1>a, <1>14 DEF vars, Row, Exists
<1> QED
  BY <1>1, <1>2, <1>3, <1>4, <1>5, <1>6, <1>7, <1>8, <1>9, <1>10, <1>11,
     <1>12, <1>13, <1>14 DEF Next
-----------------------------------------------------------------------------
(***************************************************************************)
(* Stock.  A step leaves every order's hold on its pieces alone, or moves  *)
(* the stock of one draft's products the other way.                        *)
(***************************************************************************)
Holds(d) == Exists(d) /\ ord[d].status # "cancelled"

\* Finitely many drafts hold a product.
LEMMA HoldingFinite ==
  ASSUME NEW p \in Product
  PROVE  IsFiniteSet(Holding(p)) /\ Cardinality(Holding(p)) \in Nat
<1>1. Holding(p) \in SUBSET Draft
  BY DEF Holding
<1>2. IsFiniteSet(Holding(p))
  BY <1>1, DraftAssumption, FS_Subset
<1> QED
  BY <1>2, FS_CardinalityType

\* A step that changes no stock, no receipts and no hold.
LEMMA StockUntouched ==
  ASSUME StockConserved, UNCHANGED received,
         \A p \in Product : product'[p].stock = product[p].stock,
         \A d \in Draft : Holds(d)' <=> Holds(d)
  PROVE  StockConserved'
<1> SUFFICES ASSUME NEW p \in Product
             PROVE  /\ product'[p].stock >= 0
                    /\ product'[p].stock + Cardinality(Holding(p)')
                         = StartStock + received'[p]
  BY DEF StockConserved
<1>1. Holding(p)' = Holding(p)
  BY DEF Holding, Holds
<1>2. product'[p].stock = product[p].stock /\ received' = received
  OBVIOUS
<1>3. /\ product[p].stock >= 0
      /\ product[p].stock + Cardinality(Holding(p)) = StartStock + received[p]
  BY DEF StockConserved
<1> QED
  BY <1>1, <1>2, <1>3

\* The draft d takes hold of its pieces.
LEMMA StockSold ==
  ASSUME TypeOK, StockConserved, NEW d \in Draft, Available(d), ~Holds(d),
         product' = Sold(d), UNCHANGED received, Holds(d)',
         \A c \in Draft \ {d} : Holds(c)' <=> Holds(c)
  PROVE  StockConserved'
<1> SUFFICES ASSUME NEW p \in Product
             PROVE  /\ product'[p].stock >= 0
                    /\ product'[p].stock + Cardinality(Holding(p)')
                         = StartStock + received'[p]
  BY DEF StockConserved
<1>1. /\ product[p].stock \in Nat /\ received[p] \in Nat
      /\ Cardinality(Holding(p)) \in Nat /\ IsFiniteSet(Holding(p))
  BY HoldingFinite DEF TypeOK, ProductRow
<1>2. product[p].stock + Cardinality(Holding(p)) = StartStock + received[p]
  BY DEF StockConserved
<1>3. received'[p] = received[p]
  OBVIOUS
<1>4. CASE p \in Items(d)
  <2>1. product'[p].stock = product[p].stock - 1 /\ product[p].stock >= 1
    BY <1>4, SoldRows, AvailableInStock
  <2>2. Holding(p)' = Holding(p) \union {d} /\ d \notin Holding(p)
    BY <1>4 DEF Holding, Holds, Items
  <2>3. Cardinality(Holding(p)') = Cardinality(Holding(p)) + 1
    BY <1>1, <2>2, FS_AddElement
  <2> QED
    BY <1>1, <1>2, <1>3, <2>1, <2>3, NumbersAssumption
<1>5. CASE p \notin Items(d)
  <2>1. product'[p].stock = product[p].stock
    BY <1>5, SoldRows
  <2>2. Holding(p)' = Holding(p)
    BY <1>5 DEF Holding, Holds, Items
  <2> QED
    BY <1>1, <1>2, <1>3, <2>1, <2>2
<1> QED
  BY <1>4, <1>5

\* The draft d lets go of its pieces.
LEMMA StockReturned ==
  ASSUME TypeOK, StockConserved, NEW d \in Draft, Holds(d),
         product' = Returned(d), UNCHANGED received, ~Holds(d)',
         \A c \in Draft \ {d} : Holds(c)' <=> Holds(c)
  PROVE  StockConserved'
<1> SUFFICES ASSUME NEW p \in Product
             PROVE  /\ product'[p].stock >= 0
                    /\ product'[p].stock + Cardinality(Holding(p)')
                         = StartStock + received'[p]
  BY DEF StockConserved
<1>1. /\ product[p].stock \in Nat /\ received[p] \in Nat
      /\ Cardinality(Holding(p)) \in Nat /\ IsFiniteSet(Holding(p))
  BY HoldingFinite DEF TypeOK, ProductRow
<1>2. product[p].stock + Cardinality(Holding(p)) = StartStock + received[p]
  BY DEF StockConserved
<1>3. received'[p] = received[p]
  OBVIOUS
<1>4. CASE p \in Items(d)
  <2>1. product'[p].stock = product[p].stock + 1
    BY <1>4, ReturnedRows
  <2>2. Holding(p)' = Holding(p) \ {d} /\ d \in Holding(p)
    BY <1>4 DEF Holding, Holds, Items
  <2>3. Cardinality(Holding(p)') = Cardinality(Holding(p)) - 1
    BY <1>1, <2>2, FS_RemoveElement
  <2> QED
    BY <1>1, <1>2, <1>3, <2>1, <2>3, NumbersAssumption
<1>5. CASE p \notin Items(d)
  <2>1. product'[p].stock = product[p].stock
    BY <1>5, ReturnedRows
  <2>2. Holding(p)' = Holding(p)
    BY <1>5 DEF Holding, Holds, Items
  <2> QED
    BY <1>1, <1>2, <1>3, <2>1, <2>2
<1> QED
  BY <1>4, <1>5

\* Purchase receipts count on both sides.
LEMMA StockReceived ==
  ASSUME TypeOK, StockConserved, NEW q \in Product, Receive(q)
  PROVE  StockConserved'
<1> SUFFICES ASSUME NEW p \in Product
             PROVE  /\ product'[p].stock >= 0
                    /\ product'[p].stock + Cardinality(Holding(p)')
                         = StartStock + received'[p]
  BY DEF StockConserved
<1>1. /\ product[p].stock \in Nat /\ received[p] \in Nat
      /\ Cardinality(Holding(p)) \in Nat
  BY HoldingFinite DEF TypeOK, ProductRow
<1>2. product[p].stock + Cardinality(Holding(p)) = StartStock + received[p]
  BY DEF StockConserved
<1>3. Holding(p)' = Holding(p)
  BY DEF Receive, Edit, orders, Holding, Exists
<1>4. product[q] \in ProductRow
  BY DEF TypeOK
<1>5. CASE p = q
  <2>1. /\ product'[p].stock = product[p].stock + 1
        /\ received'[p] = received[p] + 1
    BY <1>4, <1>5 DEF Receive, Edit, TypeOK, ProductRow
  <2> QED
    BY <1>1, <1>2, <1>3, <2>1, NumbersAssumption
<1>6. CASE p # q
  <2>1. product'[p] = product[p] /\ received'[p] = received[p]
    BY <1>6 DEF Receive, Edit, TypeOK
  <2> QED
    BY <1>1, <1>2, <1>3, <2>1
<1> QED
  BY <1>5, <1>6

\* Initially all pieces are in stock.
LEMMA StockInit == Init => StockConserved
<1> SUFFICES ASSUME Init, NEW p \in Product
             PROVE  /\ product[p].stock >= 0
                    /\ product[p].stock + Cardinality(Holding(p))
                         = StartStock + received[p]
  BY DEF StockConserved
<1>1. Holding(p) = {}
  BY DEF Init, Holding, Exists, NoOrder
<1>2. Cardinality(Holding(p)) = 0
  BY <1>1, FS_EmptySet
<1>3. product[p].stock = StartStock /\ received[p] = 0
  BY DEF Init
<1> QED
  BY <1>2, <1>3, NumbersAssumption

\* Every step conserves the stock.
LEMMA StockNext == TypeOK /\ Books /\ StockConserved /\ [Next]_vars
                     => StockConserved'
<1> SUFFICES ASSUME TypeOK, Books, StockConserved, [Next]_vars
             PROVE  StockConserved'
  OBVIOUS
<1> USE DEF shop, orders, money
<1>1. ASSUME NEW d \in Draft, NEW e \in Event, Webhook(d, e)
      PROVE  StockConserved'
  <2>1. CASE Fulfil(d, e)
    <3>1. Available(d) /\ product' = Sold(d) /\ UNCHANGED received
      BY <2>1 DEF Fulfil, Sellable, Delivered
    <3>2. ~Holds(d) /\ Holds(d)'
      BY <2>1 DEF Fulfil, Holds, Exists, TypeOK
    <3>3. \A c \in Draft \ {d} : Holds(c)' <=> Holds(c)
      BY <2>1 DEF Fulfil, Holds, Exists, TypeOK
    <3> QED
      BY <3>1, <3>2, <3>3, StockSold
  <2>2. CASE ~Fulfil(d, e)
    <3>1. UNCHANGED <<product, received, ord>>
      BY <1>1, <2>2
      DEF Webhook, AlreadyRefused, LinkExisting, Refuse, Delivered
    <3> QED
      BY <3>1, StockUntouched DEF Holds, Exists
  <2> QED
    BY <2>1, <2>2
<1>2. ASSUME NEW d \in Draft, PlaceCashOrder(d)
      PROVE  StockConserved'
  <2>1. Available(d) /\ product' = Sold(d) /\ UNCHANGED received
    BY <1>2 DEF PlaceCashOrder
  <2>2. ~Holds(d) /\ Holds(d)'
    BY <1>2 DEF PlaceCashOrder, Holds, Exists, TypeOK
  <2>3. \A c \in Draft \ {d} : Holds(c)' <=> Holds(c)
    BY <1>2 DEF PlaceCashOrder, Holds, Exists, TypeOK
  <2> QED
    BY <2>1, <2>2, <2>3, StockSold
<1>3. ASSUME NEW d \in Draft, Cancel(d)
      PROVE  StockConserved'
  <2>1. d \notin restored
    BY <1>3 DEF Cancel, Books, Row
  <2>2. product' = Returned(d) /\ UNCHANGED received
    BY <1>3, <2>1 DEF Cancel
  <2>3. Holds(d) /\ ~Holds(d)'
    BY <1>3 DEF Cancel, Holds, Exists, TypeOK, OrderRow
  <2>4. \A c \in Draft \ {d} : Holds(c)' <=> Holds(c)
    BY <1>3 DEF Cancel, Holds, Exists, TypeOK, OrderRow
  <2> QED
    BY <2>2, <2>3, <2>4, StockReturned
<1>4. ASSUME NEW d \in Draft, Settle(d) \/ \E status \in OrderStatus :
                                               Advance(d, status)
      PROVE  StockConserved'
  <2>1. UNCHANGED <<product, received>>
    BY <1>4 DEF Settle, Advance
  <2>2. \A c \in Draft : Holds(c)' <=> Holds(c)
    BY <1>4
    DEF Settle, Advance, OrderStatusTransitions, Holds, Exists, TypeOK, OrderRow
  <2> QED
    BY <2>1, <2>2, StockUntouched
<1>5. ASSUME NEW p \in Product, EditProduct(p)
      PROVE  StockConserved'
  <2>1. CASE Receive(p)
    BY <2>1, StockReceived
  <2>2. CASE ~Receive(p)
    <3>1. UNCHANGED <<received, ord>>
      BY <1>5, <2>2
      DEF EditProduct, PauseSale, ResumeSale, Reprice, SetStatus, Edit
    <3>2. \A q \in Product : product'[q].stock = product[q].stock
      BY <1>5, <2>2
      DEF EditProduct, PauseSale, ResumeSale, Reprice, SetStatus, Edit,
          TypeOK, ProductRow
    <3> QED
      BY <3>1, <3>2, StockUntouched DEF Holds, Exists
  <2> QED
    BY <2>1, <2>2
<1>6. ASSUME UNCHANGED <<product, received, ord>>
      PROVE  StockConserved'
  BY <1>6, StockUntouched DEF Holds, Exists
<1>7. ASSUME NEW r \in Request, NEW d \in Draft,
             Prepare(r, d) \/ CreateSession(r) \/ SaveReference(r) \/ Forget(r)
      PROVE  StockConserved'
  BY <1>6, <1>7 DEF Prepare, CreateSession, SaveReference, Forget
<1>8. ASSUME NEW d \in Draft,
             PaySession(d) \/ BeginFulfilment(d) \/ AbandonFulfilment(d)
      PROVE  StockConserved'
  BY <1>6, <1>8 DEF PaySession, BeginFulfilment, AbandonFulfilment
<1>9. ASSUME NEW r \in Request,
             CreateSession(r) \/ SaveReference(r) \/ Forget(r)
      PROVE  StockConserved'
  BY <1>6, <1>9 DEF CreateSession, SaveReference, Forget
<1>10. CASE UNCHANGED vars
  BY <1>6, <1>10 DEF vars
<1> QED
  BY <1>1, <1>2, <1>3, <1>4, <1>5, <1>7, <1>8, <1>9, <1>10 DEF Next
-----------------------------------------------------------------------------
\* Types, rows and stock together: the inductive invariant.
THEOREM Inductive == Spec => []IInv
<1>1. Init => IInv
  BY TypeInit, BooksInit, StockInit DEF IInv
<1>2. IInv /\ [Next]_vars => IInv'
  BY TypeNext, BooksNext, StockNext DEF IInv
<1> QED
  BY <1>1, <1>2, PTL DEF Spec

\* Every variable keeps its type.
THEOREM TypeCorrect == Spec => []TypeOK
<1>1. IInv => TypeOK
  BY DEF IInv
<1> QED
  BY <1>1, Inductive, PTL

\* Checkouts, replays, cancellations and receipts neither lose nor oversell a
\* piece (finalizeInternalOrderInTransaction, transitionOrderStatusUseCase).
THEOREM StockIsConserved == Spec => []StockConserved
<1>1. IInv => StockConserved
  BY DEF IInv
<1> QED
  BY <1>1, Inductive, PTL

\* A processed webhook event leaves the charge fulfilled or in the refund
\* queue, never in between (completeStripeWebhookUseCase).
THEOREM ChargesSettle == Spec => []ChargesAreSettled
<1>1. IInv => ChargesAreSettled
  BY DEF IInv, TypeOK, Books, Row, ChargesAreSettled, PaymentRow
<1> QED
  BY <1>1, Inductive, PTL

\* No order is paid through both payment methods, and a paid order has its
\* invoice requested (markPaidAndLinkOrder, settleCashOnDeliveryOrderUseCase).
THEOREM PaidThroughOnePayment == Spec => []PaidOnce
<1>1. IInv => PaidOnce
  BY DEF IInv, Books, Row, PaidOnce
<1> QED
  BY <1>1, Inductive, PTL
=============================================================================
