------------------------------- MODULE Orders -------------------------------
(***************************************************************************)
(* The marketplace: a buyer's cart, its checkout into one order a line, an *)
(* order's way from PLACED to DELIVERED or CANCELLED                       *)
(* (controllers/cart.controller.ts, controllers/marketplace.controller.ts, *)
(* services/orders.ts, models/Cart.ts, models/MarketOrder.ts).             *)
(*                                                                         *)
(* Handlers save a copy of the cart.  Writing one line's quantity or the   *)
(* whole array asks that the version has not moved; pushing a line moves   *)
(* it and asks nothing; $pull and $set in a query do neither.  Payment of  *)
(* an order is PaymentGateway's.                                           *)
(*                                                                         *)
(* Whoever reads the cart, and every handler that has changed it, goes     *)
(* through loadCart: the cart is read again and, when lines of withdrawn   *)
(* listings are dropped from it, saved as a whole array.                   *)
(***************************************************************************)
EXTENDS Naturals, SequencesExt, Nothing

CONSTANTS
  Products,
  ShopRequests,   \* the requests that can be under way together
  MaxAdded        \* bound: pieces put into the cart

ASSUME OrdersAssumption == MaxAdded \in Nat /\ None \notin Products

OrderStatuses == {"PLACED", "CONFIRMED", "DISPATCHED", "DELIVERED", "CANCELLED"}

VARIABLES
  cart,        \* Cart.items in order: product and quantity
  listed,      \* the products that are active
  ordered,     \* MarketOrder documents in order: product, quantity, status; and of the
               \* timeline whether it has a move that is not allowed, and whether two
               \* moves of the order were under way at once
  shop,        \* each request: how far, with what copy
  \* --- history, read by no action
  added, dropped,   \* pieces of each product put into the cart, and taken out unordered
  jumbled      \* a write of a line or of the whole cart met another request on the cart,
               \* a pruning overwrote a newer cart or refused a checkout its save,
               \* or the checkout died

orderVars == <<cart, listed, ordered, shop, added, dropped, jumbled>>

\* A quantity written to a line that is gone leaves one without a product.
Line == [product : Products \cup {None}, quantity : Nat]
MarketOrder == [product : Products, quantity : Nat, status : OrderStatuses,
                strayed : BOOLEAN, rivals : BOOLEAN]
Shopping ==
  [stage : {"idle", "pushing", "writing", "shrinking", "ordering", "loading", "pruning", "moving"},
   copy : Seq(Line), at : Nat, quantity : Nat, stale : BOOLEAN, sold : SUBSET Nat,
   to : OrderStatuses \cup {None}]

OrdersTypeOK ==
  /\ cart \in Seq(Line)
  /\ listed \subseteq Products
  /\ ordered \in Seq(MarketOrder)
  /\ shop \in [ShopRequests -> Shopping]
  /\ added \in [Products -> Nat] /\ dropped \in [Products -> Nat]
  /\ jumbled \in BOOLEAN

NoShop == [stage |-> "idle", copy |-> <<>>, at |-> 0, quantity |-> 0, stale |-> FALSE, sold |-> {},
           to |-> None]
\* The cart is changed, and is read again for the answer.
Loading == [NoShop EXCEPT !.stage = "loading"]

OrdersInit ==
  /\ cart = <<>>
  /\ listed = Products
  /\ ordered = <<>>
  /\ shop = [r \in ShopRequests |-> NoShop]
  /\ added = [x \in Products |-> 0]
  /\ dropped = [x \in Products |-> 0]
  /\ jumbled = FALSE

PlaceIn(lines, x) == SelectInSeq(lines, LAMBDA line : line.product = x)
Quantities(lines) == [i \in DOMAIN lines |-> lines[i].quantity]
LinesOf(lines, x) == {i \in DOMAIN lines : lines[i].product = x}
Pieces(lines, x) == SumFunctionOnSet(Quantities(lines), LinesOf(lines, x))
\* The lines but for those of the products gone, in their order.
Without(lines, gone) ==
  LET kept[i \in 0..Len(lines)] ==
        IF i = 0 THEN <<>>
        ELSE IF lines[i].product \in gone THEN kept[i - 1] ELSE Append(kept[i - 1], lines[i])
  IN kept[Len(lines)]
AllAdded == MapThenSumSet(LAMBDA x : added[x], Products)

Beyond(m, n) == IF m > n THEN m - n ELSE 0

CartStages == {"pushing", "writing", "shrinking", "ordering"}
OnCart(r) == \E q \in ShopRequests \ {r} : shop[q].stage \in CartStages
\* Pushing a line disturbs only a checkout under way.
OnCheckout(r) == \E q \in ShopRequests \ {r} : shop[q].stage = "ordering"

Shops(r, next) == shop[r].stage = "idle" /\ shop' = [shop EXCEPT ![r] = next]
ShopGoesOn(r, next) == shop' = [shop EXCEPT ![r] = next]
ShopEnds(r) == ShopGoesOn(r, NoShop)
\* The version moved: the other copies are behind.
ShopPushes(r, next) ==
  shop' = [q \in ShopRequests |-> IF q = r THEN next
             ELSE IF shop[q].stage \in CartStages \cup {"pruning"} THEN [shop[q] EXCEPT !.stale = TRUE]
             ELSE shop[q]]

-----------------------------------------------------------------------------
(* The cart *)

\* POST /cart/items
AddCartItem(r, x) ==
  LET i == PlaceIn(cart, x) IN
  /\ x \in listed /\ AllAdded < MaxAdded
  /\ Shops(r, IF i = 0
               THEN [NoShop EXCEPT !.stage = "pushing", !.copy = <<[product |-> x, quantity |-> 1]>>]
               ELSE [NoShop EXCEPT !.stage = "writing", !.copy = cart, !.at = i,
                                   !.quantity = cart[i].quantity + 1])
  /\ jumbled' = (jumbled \/ (IF i = 0 THEN OnCheckout(r) ELSE OnCart(r)))
  /\ UNCHANGED <<cart, listed, ordered, added, dropped>>

PushLine(r) ==
  LET line == Head(shop[r].copy) IN
  /\ shop[r].stage = "pushing" /\ AllAdded < MaxAdded
  /\ cart' = Append(cart, line)
  /\ added' = [added EXCEPT ![line.product] = @ + 1]
  /\ ShopPushes(r, Loading)
  /\ UNCHANGED <<listed, ordered, dropped, jumbled>>

\* PATCH /cart/items/:productId
SetCartItem(r, x, n) ==
  LET i == PlaceIn(cart, x) IN
  /\ i # 0 /\ n # cart[i].quantity
  /\ Shops(r, [NoShop EXCEPT !.stage = "writing", !.copy = cart, !.at = i, !.quantity = n])
  /\ jumbled' = (jumbled \/ OnCart(r))
  /\ UNCHANGED <<cart, listed, ordered, added, dropped>>

\* The quantity is set by the line's position in the copy.
WriteLine(r) ==
  LET i == shop[r].at
      n == shop[r].quantity
      line == shop[r].copy[i] IN
  /\ shop[r].stage = "writing" /\ AllAdded + Beyond(n, line.quantity) <= MaxAdded
  /\ IF shop[r].stale THEN ShopEnds(r) /\ UNCHANGED <<cart, added, dropped>>
     ELSE /\ ShopGoesOn(r, Loading)
          /\ cart' = IF i \in DOMAIN cart
                     THEN [cart EXCEPT ![i] = [cart[i] EXCEPT !.quantity = n]]
                     ELSE Append(cart, [product |-> None, quantity |-> n])
          /\ added' = [added EXCEPT ![line.product] = @ + Beyond(n, line.quantity)]
          /\ dropped' = [dropped EXCEPT ![line.product] = @ + Beyond(line.quantity, n)]
  /\ UNCHANGED <<listed, ordered, jumbled>>

\* PATCH /cart/items/:productId down to nothing: the array without the line is saved.
SetCartItemToZero(r, x) ==
  /\ PlaceIn(cart, x) # 0
  /\ Shops(r, [NoShop EXCEPT !.stage = "shrinking", !.at = PlaceIn(cart, x), !.copy = cart])
  /\ jumbled' = (jumbled \/ OnCart(r))
  /\ UNCHANGED <<cart, listed, ordered, added, dropped>>

SaveWithout(r) ==
  LET x == shop[r].copy[shop[r].at].product IN
  /\ shop[r].stage = "shrinking"
  /\ IF shop[r].stale THEN ShopEnds(r) /\ UNCHANGED <<cart, dropped>>
     ELSE /\ cart' = Without(shop[r].copy, {x})
          /\ dropped' = [dropped EXCEPT ![x] = @ + Pieces(shop[r].copy, x)]
          /\ ShopPushes(r, Loading)
  /\ UNCHANGED <<listed, ordered, added, jumbled>>

\* DELETE /cart/items/:productId, one atomic $pull
RemoveCartItem(r, x) ==
  /\ PlaceIn(cart, x) # 0
  /\ Shops(r, Loading)
  /\ cart' = Without(cart, {x})
  /\ dropped' = [dropped EXCEPT ![x] = @ + Pieces(cart, x)]
  /\ jumbled' = (jumbled \/ OnCart(r))
  /\ UNCHANGED <<listed, ordered, added>>

\* DELETE /cart
ClearCart(r) ==
  /\ cart # <<>>
  /\ Shops(r, Loading)
  /\ cart' = <<>>
  /\ dropped' = [x \in Products |-> dropped[x] + Pieces(cart, x)]
  /\ jumbled' = (jumbled \/ OnCart(r))
  /\ UNCHANGED <<listed, ordered, added>>

\* loadCart, of GET /cart or of the answer to a change: the cart is read,
LoadCart(r) ==
  /\ shop[r].stage \in {"idle", "loading"}
  /\ ShopGoesOn(r, [NoShop EXCEPT !.stage = "pruning", !.copy = cart])
  /\ UNCHANGED <<cart, listed, ordered, added, dropped, jumbled>>

\* (mutant) The lines are pulled out without moving the version.
PruneUnversioned(r) ==
  LET gone == (Products \cup {None}) \ listed IN
  /\ shop[r].stage = "pruning"
  /\ cart' = Without(cart, gone)
  /\ dropped' = [x \in Products |-> dropped[x] + (IF x \in gone THEN Pieces(cart, x) ELSE 0)]
  /\ ShopEnds(r)
  /\ jumbled' = (jumbled \/ OnCheckout(r))
  /\ UNCHANGED <<listed, ordered, added>>

\* and the lines of listings withdrawn since are dropped, if it has any.
SavePruned(r) ==
  LET lines == shop[r].copy
      gone == (Products \cup {None}) \ listed
      lasting == \A i \in DOMAIN lines : lines[i].product \in listed IN
  /\ shop[r].stage = "pruning"
  /\ IF lasting \/ shop[r].stale THEN ShopEnds(r) /\ UNCHANGED <<cart, dropped, jumbled>>
     ELSE /\ cart' = Without(lines, gone)
          /\ dropped' = [x \in Products |-> dropped[x] + (IF x \in gone THEN Pieces(lines, x) ELSE 0)]
          /\ ShopPushes(r, NoShop)
          /\ jumbled' = (jumbled \/ lines # cart \/ OnCheckout(r))
  /\ UNCHANGED <<listed, ordered, added>>

\* POST /cart/checkout: a copy, then an order for every line whose product is listed.
CheckoutCart(r) ==
  /\ cart # <<>>
  /\ Shops(r, [NoShop EXCEPT !.stage = "ordering", !.copy = cart, !.at = 1])
  /\ jumbled' = (jumbled \/ OnCart(r))
  /\ UNCHANGED <<cart, listed, ordered, added, dropped>>

NewOrder(line) == [product |-> line.product, quantity |-> line.quantity, status |-> "PLACED",
                   strayed |-> FALSE, rivals |-> FALSE]

\* POST /orders: one product, without the cart.
CreateOrder(x) ==
  /\ x \in listed /\ AllAdded < MaxAdded /\ Len(ordered) < MaxAdded
  /\ ordered' = Append(ordered, NewOrder([product |-> x, quantity |-> 1]))
  /\ added' = [added EXCEPT ![x] = @ + 1]
  /\ UNCHANGED <<cart, listed, shop, dropped, jumbled>>

PlaceOrder(r) ==
  LET i == shop[r].at
      line == shop[r].copy[i]
      sells == line.product \in listed IN
  /\ shop[r].stage = "ordering" /\ i \in DOMAIN shop[r].copy
  /\ Len(ordered) < MaxAdded
  /\ ordered' = IF sells THEN Append(ordered, NewOrder(line)) ELSE ordered
  /\ shop' = [shop EXCEPT ![r] = [shop[r] EXCEPT !.at = i + 1,
                                    !.sold = IF sells THEN shop[r].sold \cup {i} ELSE shop[r].sold]]
  /\ UNCHANGED <<cart, listed, added, dropped, jumbled>>

\* (mutant) The cart stays full.
KeepCart(r) ==
  /\ shop[r].stage = "ordering" /\ shop[r].at \notin DOMAIN shop[r].copy
  /\ ShopEnds(r)
  /\ UNCHANGED <<cart, listed, ordered, added, dropped, jumbled>>

\* Nothing ordered leaves the cart; else the emptied array is saved, with the lines
\* that were skipped.
SpendCart(r) ==
  LET lines == shop[r].copy IN
  /\ shop[r].stage = "ordering" /\ shop[r].at \notin DOMAIN lines
  /\ IF shop[r].sold = {} \/ shop[r].stale
     THEN ShopEnds(r) /\ UNCHANGED <<cart, dropped>>
     ELSE /\ ShopPushes(r, Loading)
          /\ cart' = <<>>
          /\ dropped' = [x \in Products |->
               dropped[x] + SumFunctionOnSet(Quantities(lines), LinesOf(lines, x) \ shop[r].sold)]
  /\ UNCHANGED <<listed, ordered, added, jumbled>>

\* The seller withdraws a listing.
Unlist(x) ==
  /\ x \in listed
  /\ listed' = listed \ {x}
  /\ UNCHANGED <<cart, ordered, shop, added, dropped, jumbled>>

-----------------------------------------------------------------------------
(* An order *)

\* sellerMoves, and the buyer's one
SellerMoves(status) ==
  CASE status = "PLACED" -> {"CONFIRMED", "CANCELLED"}
    [] status = "CONFIRMED" -> {"DISPATCHED", "DELIVERED", "CANCELLED"}
    [] status = "DISPATCHED" -> {"DELIVERED"}
    [] OTHER -> {}
BuyerMoves(status) == IF status = "PLACED" THEN {"CANCELLED"} ELSE {}
OrderMoves(status) == SellerMoves(status) \cup BuyerMoves(status)

\* PATCH /orders/:id/status, looked up on a copy
UpdateOrderStatus(r, i, to) ==
  /\ to \in OrderMoves(ordered[i].status)
  /\ Shops(r, [NoShop EXCEPT !.stage = "moving", !.at = i, !.to = to])
  /\ ordered' = [ordered EXCEPT ![i] = [ordered[i] EXCEPT !.rivals =
       ordered[i].rivals \/ \E q \in ShopRequests : shop[q].stage = "moving" /\ shop[q].at = i]]
  /\ UNCHANGED <<cart, listed, added, dropped, jumbled>>

SaveOrderStatus(r) ==
  LET i == shop[r].at IN
  /\ shop[r].stage = "moving"
  /\ ordered' = [ordered EXCEPT ![i] = [ordered[i] EXCEPT !.status = shop[r].to,
                                          !.strayed = ordered[i].strayed \/ shop[r].to \notin OrderMoves(ordered[i].status)]]
  /\ ShopEnds(r)
  /\ UNCHANGED <<cart, listed, added, dropped, jumbled>>

ShopDies(r) ==
  /\ shop[r].stage # "idle"
  /\ ShopEnds(r)
  /\ jumbled' = (jumbled \/ shop[r].stage = "ordering")
  /\ UNCHANGED <<cart, listed, ordered, added, dropped>>

OrdersNext ==
  \/ \E r \in ShopRequests, x \in Products :
       AddCartItem(r, x) \/ SetCartItemToZero(r, x) \/ RemoveCartItem(r, x)
  \/ \E r \in ShopRequests : PushLine(r) \/ WriteLine(r) \/ SaveWithout(r) \/ ClearCart(r)
       \/ LoadCart(r) \/ SavePruned(r) \/ CheckoutCart(r)
       \/ PlaceOrder(r) \/ SpendCart(r) \/ SaveOrderStatus(r) \/ ShopDies(r)
  \/ \E r \in ShopRequests, x \in Products, n \in 1..MaxAdded : SetCartItem(r, x, n)
  \/ \E x \in Products : CreateOrder(x) \/ Unlist(x)
  \/ \E r \in ShopRequests, i \in DOMAIN ordered, to \in OrderStatuses : UpdateOrderStatus(r, i, to)

OrdersSpec == OrdersInit /\ [][OrdersNext]_orderVars

-----------------------------------------------------------------------------
(* Properties *)

\* Every piece put into the cart is still there, was taken out or pruned, or is on exactly
\* one order, however additions of new lines, readings of the cart, orders and listings
\* interleave; and an order's timeline is a walk along the moves allowed.  Excepted are
\* carts on which the write of a line or of the whole array met another request, which a
\* pruning overwrote with an older copy or whose checkout it kept from emptying them, or
\* whose checkout died, and orders two parties moved at once.
PiecesAccountedFor ==
  /\ (~jumbled /\ \A r \in ShopRequests : shop[r].stage # "ordering") =>
       \A x \in Products : added[x] = Pieces(cart, x) + Pieces(ordered, x) + dropped[x]
  /\ \A i \in DOMAIN ordered : ordered[i].strayed => ordered[i].rivals
=============================================================================
