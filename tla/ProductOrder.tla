---------------------------- MODULE ProductOrder ----------------------------
(***************************************************************************)
(* One product purchase, from the charge to the box: its Rancher Orders    *)
(* row, the unit of stock it burns, and the order pushed into the          *)
(* rancher's own store, which ships it unless it is cancelled in time.     *)
(*                                                                         *)
(*   lib/productSettlement.ts         settle, reconcile a refund           *)
(*   lib/fulfillmentPushRunner.ts     push into the connected store        *)
(*   app/api/rancher/orders           mark shipped                         *)
(*   app/api/rancher/orders/refund    cancel or refund                     *)
(*   app/api/webhooks/stripe-connect, app/api/webhooks/shopify             *)
(*   app/api/cron/product-settlement-net, app/api/cron/fulfillment-push-net*)
(*                                                                         *)
(* Each request to Airtable, Stripe or the store is a step; invocations    *)
(* interleave.  The ranch is connected, the order has a SKU and an         *)
(* address and is neither a deposit nor a pickup; refunds are full; the    *)
(* purchase is of one unit.  Emails and alerts are left out, but for the   *)
(* one signal that a push was given up.                                    *)
(***************************************************************************)
EXTENDS Naturals, FiniteSets

CONSTANTS
  Workers,      \* concurrent invocations
  None,         \* no event
  Stock,        \* Orders Left before the purchase
  MaxRequests,  \* bound: clicks of the rancher
  MaxFaults     \* bound: crashes, failed or unanswered requests

ASSUME ProductOrderAssumption ==
  /\ None \notin {"paid", "refunded", "disputed", "withdrawn"}
  /\ Stock \in Nat \ {0} /\ MaxRequests \in Nat /\ MaxFaults \in Nat

VARIABLES
  charge,   \* Stripe: the charge is "none", "paid" or "returned"
  inbox,    \* Stripe: events not yet acknowledged
  order,    \* the Rancher Orders row
  left,     \* the product's Orders Left
  store,    \* the rancher's store: the order is "none", "live", "cancelled" or "sent"
  claims,   \* keys that are set: Redis's of claimOnce, Stripe's of idempotent refunds
  told,     \* the operator is "yes" told of a push given up, or the signal "lost"
  worker,   \* invocations in flight
  early,    \* history: a refund was acknowledged before the row existed
  crossed,  \* history: two invocations overlapped as Overlap says
  requests, faults

stripe  == <<charge, inbox>>
history == <<early, crossed>>
vars    == <<stripe, order, left, store, claims, told, worker, history, requests, faults>>

Events   == {"paid", "refunded", "disputed", "withdrawn"}
Terminal == {"Refunded", "Cancelled"}
Absent   == [status |-> "none", push |-> "", ext |-> "no", restored |-> "no"]
Idle     == [pc |-> "idle", ev |-> None, saw |-> Absent, left |-> 0, force |-> "no"]

\* The requests an invocation has still to make, by what it is doing.
Pushing     == {"pushRead", "pushSkip", "pushStamp", "pushCall", "pushBare", "pushVerify",
                "pushKeep", "pushUnship", "pushRevert", "pushBlank", "pushNoSku", "pushFail",
                "pushRing"}
Settling    == {"find", "create", "burnRead", "burnWrite"}
Reconciling == {"rclaim", "flip", "restoreRead", "restoreWrite", "storeCancel", "mark"}
Terminating == {"termClaim", "termFlip", "termRefund", "termRevert"}
Shipping    == {"shipClaim", "shipWrite"}
\* What an invocation does under each key of claimOnce.
Under(c) == CASE c = "settle"    -> Settling \cup Pushing
              [] c = "reconcile" -> Reconciling
              [] c = "terminate" -> Terminating \cup Reconciling \cup {"read"}
              [] c = "ship"      -> Shipping
              [] c = "refund"    -> {}
Keys == {"settle", "reconcile", "terminate", "ship", "refund"}

Init ==
  /\ charge = "none" /\ inbox = {} /\ order = Absent /\ left = Stock /\ store = "none"
  /\ claims = {} /\ told = "no" /\ worker = [w \in Workers |-> Idle]
  /\ early = "no" /\ crossed = "no" /\ requests = 0 /\ faults = 0

\* Two invocations that no claim keeps apart, each about to write what it read
\* before the other wrote.
Overlap(ws) ==
  \E v, w \in Workers :
    \/ /\ ws[v].pc = "pushKeep"   \* the push saw a live order, the refund no store order
       /\ ws[w].pc \in {"rclaim", "flip", "restoreRead", "restoreWrite", "storeCancel"}
    \/ ws[v].pc = "burnWrite" /\ ws[w].pc = "restoreWrite"
    \/ ws[v].pc \in Shipping /\ ws[w].pc \in Reconciling \cup Terminating
    \/ ws[v].pc \in Terminating /\ charge = "returned"
    \/ ws[v].pc \in Terminating /\ ws[w].pc = "pushSkip"

At(w, pc) == worker[w].pc = pc
Put(w, rec) ==
  LET ws == [worker EXCEPT ![w] = rec]
  IN  worker' = ws /\ crossed' = IF crossed # "yes" /\ Overlap(ws) THEN "yes" ELSE crossed
Go(w, pc) == Put(w, [worker[w] EXCEPT !.pc = pc])
\* The handler answers; a delivered event is acknowledged.
Return(w) == Put(w, Idle) /\ inbox' = inbox \ {worker[w].ev}
\* Bound: what fails fails alone, and from then on invocations come one by one.
InFlight  == {w \in Workers : ~At(w, "idle")}
Fault     == faults < MaxFaults /\ Cardinality(InFlight) = 1 /\ faults' = faults + 1
Request   == requests < MaxRequests /\ requests' = requests + 1
\* Which idle worker serves it makes no difference: one is chosen.
Begin(w, pc, ev) == /\ At(w, "idle") /\ w = CHOOSE v \in Workers : At(v, "idle")
                    /\ (faults > 0 => InFlight = {})
                    /\ Put(w, [Idle EXCEPT !.pc = pc, !.ev = ev])
\* claimOnce: SET NX with a TTL; the loser goes away.
Claim(w, pc, c, next) ==
  /\ At(w, pc)
  /\ IF c \in claims THEN Return(w) /\ UNCHANGED claims
                     ELSE Go(w, next) /\ claims' = claims \cup {c} /\ UNCHANGED inbox
  /\ UNCHANGED <<charge, order, left, store, told, early, requests, faults>>

\* A TTL is longer than the invocation that took the key, and than the moment
\* between another's read of the row and its try for the key.
Lapse(c) ==
  /\ c \in claims /\ \A w \in Workers : worker[w].pc \notin Under(c)
  /\ claims' = claims \ {c}
  /\ UNCHANGED <<stripe, order, left, store, told, worker, history, requests, faults>>

-----------------------------------------------------------------------------
(* Stripe, outside this code: the buyer pays; the operator refunds in the   *)
(* dashboard; the buyer's bank charges back, which raises two events.       *)

Pay ==
  /\ charge = "none" /\ charge' = "paid" /\ inbox' = {"paid"}
  /\ UNCHANGED <<order, left, store, claims, told, worker, history, requests, faults>>

Dashboard ==
  /\ charge = "paid" /\ charge' = "returned"
  /\ crossed' = IF \E w \in Workers : worker[w].pc \in Terminating THEN "yes" ELSE crossed
  /\ \E evs \in {{"refunded"}, {"disputed", "withdrawn"}} : inbox' = inbox \cup evs
  /\ UNCHANGED <<order, left, store, claims, told, worker, early, requests, faults>>

Deliver(w, ev) ==
  /\ ev \in inbox /\ \A v \in Workers : worker[v].ev # ev
  /\ Begin(w, IF ev = "paid" THEN "settle" ELSE "read", ev)
  /\ UNCHANGED <<stripe, order, left, store, claims, told, early, requests, faults>>

-----------------------------------------------------------------------------
(* settleProductPurchase. *)

\* Seeded fault: the net looks only as far back as Stripe redelivers.
NetShort(w) ==
  /\ InFlight = {} /\ charge # "none" /\ order.status = "none" /\ "paid" \in inbox
  /\ Begin(w, "settle", None)
  /\ UNCHANGED <<stripe, order, left, store, claims, told, early, requests, faults>>

\* The net lists succeeded charges, returned ones among them, without a row.  Its
\* window of three days and its limit of 100 sessions are left to Fairness.
\* Bound: here as in PushNet, a net starts when nothing is in flight.
Net(w) ==
  /\ InFlight = {} /\ charge # "none" /\ order.status = "none" /\ Begin(w, "settle", None)
  /\ UNCHANGED <<stripe, order, left, store, claims, told, early, requests, faults>>

ClaimSettle(w) == Claim(w, "settle", "settle", "find")

Find(w) ==
  /\ At(w, "find")
  /\ IF order.status # "none" THEN Return(w) ELSE Go(w, "create") /\ UNCHANGED inbox
  /\ UNCHANGED <<charge, order, left, store, claims, told, early, requests, faults>>

Create(w) ==
  /\ At(w, "create") /\ order' = [Absent EXCEPT !.status = "New"] /\ Go(w, "burnRead")
  /\ UNCHANGED <<stripe, left, store, claims, told, early, requests, faults>>

\* Orders Left is read, then written; a failure of either is swallowed.
BurnRead(w) ==
  /\ At(w, "burnRead")
  /\ \/ /\ Put(w, [worker[w] EXCEPT !.pc = "burnWrite", !.left = left])
        /\ UNCHANGED faults
     \/ Fault /\ Go(w, "pushRead")
  /\ UNCHANGED <<stripe, order, left, store, claims, told, early, requests>>

BurnWrite(w) ==
  /\ At(w, "burnWrite") /\ Go(w, "pushRead")
  /\ \/ /\ left' = (IF worker[w].left = 0 THEN 0 ELSE worker[w].left - 1)
        /\ UNCHANGED faults
     \/ Fault /\ UNCHANGED left
  /\ UNCHANGED <<stripe, order, store, claims, told, early, requests>>

-----------------------------------------------------------------------------
(* runFulfillmentPush. *)

\* The net by itself: blank rows, and rows a dead push left at "pushing".
PushNet(w) ==
  /\ InFlight = {} /\ order.status = "New" /\ order.push \in {"", "pushing"}
  /\ Begin(w, "pushRead", None)
  /\ UNCHANGED <<stripe, order, left, store, claims, told, early, requests, faults>>

\* decidePushDisposition.
Pushable == order.ext = "no" /\ order.push \notin {"pushed", "cancelled"}

\* 'Push Retry Requested At': whatever the net no longer looks at, on request.
PushRetry(w) ==
  /\ InFlight = {} /\ order.status = "New" /\ Pushable /\ order.push \notin {"", "pushing"}
  /\ Begin(w, "pushRead", None)
  /\ UNCHANGED <<stripe, order, left, store, claims, told, early, requests, faults>>

\* The row, the ranch and the product are read.  Without the first two nothing is
\* done; an unreadable product is taken for one without a SKU.
PushRead(w) ==
  /\ At(w, "pushRead")
  /\ \/ (~Pushable \/ (order.status # "New" /\ order.push # "")) /\ Return(w) /\ UNCHANGED faults
     \/ /\ Pushable /\ order.status # "New" /\ order.push = "" /\ Go(w, "pushSkip")
        /\ UNCHANGED <<inbox, faults>>
     \/ /\ Pushable /\ order.status = "New" /\ UNCHANGED inbox
        /\ \/ Go(w, "pushStamp") /\ UNCHANGED faults
           \/ Fault /\ Go(w, IF order.push = "" THEN "pushNoSku" ELSE "pushRing")
     \/ Fault /\ Return(w)
  /\ UNCHANGED <<charge, order, left, store, claims, told, early, requests>>

\* The stamp of a step, a failure of which is swallowed.
Stamp(push) == \/ order' = [order EXCEPT !.push = push] /\ UNCHANGED faults
               \/ Fault /\ UNCHANGED order

\* A row that is not New is stamped out of the net's reach.
PushSkip(w) ==
  /\ At(w, "pushSkip") /\ Stamp("skipped") /\ Return(w)
  /\ UNCHANGED <<charge, left, store, claims, told, early, requests>>

\* So is a row given up, before the operator is told.
PushGiveUp(w) ==
  /\ \/ At(w, "pushNoSku") /\ Stamp("skipped")
     \/ At(w, "pushFail") /\ Stamp("failed")
  /\ Go(w, "pushRing")
  /\ UNCHANGED <<stripe, left, store, claims, told, early, requests>>

\* Seeded fault: a push without a SKU is given up without a word.
PushRingNot(w) ==
  /\ At(w, "pushRing") /\ Return(w)
  /\ UNCHANGED <<charge, order, left, store, claims, told, early, requests, faults>>

\* sendOperatorSignal, whose failure is swallowed.
Unheard(w) == told' = IF At(w, "pushRing") /\ told = "no" THEN "lost" ELSE told
PushRing(w) ==
  /\ At(w, "pushRing") /\ Return(w)
  /\ \/ told' = "yes" /\ UNCHANGED faults
     \/ Fault /\ Unheard(w)
  /\ UNCHANGED <<charge, order, left, store, claims, early, requests>>

\* "DURABLE PRE-STAMP", best effort.
PushStamp(w) ==
  /\ At(w, "pushStamp")
  /\ \/ order' = [order EXCEPT !.push = "pushing"] /\ Go(w, "pushCall") /\ UNCHANGED faults
     \/ Fault /\ Go(w, "pushBare") /\ UNCHANGED order
  /\ UNCHANGED <<stripe, left, store, claims, told, early, requests>>

\* An order of an earlier attempt is found by its tag; else one is created.  A
\* transient error may hide that it was, and what was stamped is taken back; a
\* permanent one is final.
PushCall(w) ==
  LET placed == IF store = "none" THEN "live" ELSE store IN
  /\ At(w, "pushCall") \/ At(w, "pushBare")
  /\ \/ store' = placed /\ Go(w, "pushVerify") /\ UNCHANGED <<inbox, faults>>
     \/ /\ Fault /\ store' \in {store, placed}
        /\ IF At(w, "pushCall") THEN Go(w, "pushRevert") /\ UNCHANGED inbox ELSE Return(w)
     \/ Fault /\ Go(w, "pushFail") /\ UNCHANGED <<inbox, store>>
  /\ UNCHANGED <<charge, order, left, claims, told, early, requests>>

\* Seeded fault: the order is taken to be as it was before the push.
PushVerifyTrusts(w) ==
  /\ At(w, "pushVerify") /\ Go(w, "pushKeep")
  /\ UNCHANGED <<stripe, order, left, store, claims, told, early, requests, faults>>

\* decidePostPushAction on a second read; unreadable three times, it is stamped
\* for the operator, if it can be written.
PushVerify(w) ==
  /\ At(w, "pushVerify")
  /\ \/ /\ Go(w, IF order.status \in Terminal \/ order.push = "cancelled"
                 THEN "pushUnship" ELSE "pushKeep")
        /\ UNCHANGED <<inbox, order, faults>>
     \/ /\ Fault /\ order' \in {order, [order EXCEPT !.ext = "yes", !.push = "pushing"]}
        /\ Return(w)
  /\ UNCHANGED <<charge, left, store, claims, told, early, requests>>

\* If the first stamp fails a second is tried.
PushKeep(w) ==
  /\ At(w, "pushKeep") /\ Return(w)
  /\ \/ order' = [order EXCEPT !.ext = "yes", !.push = "pushed"] /\ UNCHANGED faults
     \/ Fault /\ order' \in {order, [order EXCEPT !.push = "unstamped"]}
  /\ UNCHANGED <<charge, left, store, claims, told, early, requests>>

\* cancelOrder: the store cancels an order that is live, and may fail to.
CancelOrder(ext) ==
  \E ok \in {store = "live", FALSE} :
    /\ store' = IF ok THEN "cancelled" ELSE store
    /\ order' = [order EXCEPT !.ext = ext, !.push = IF ok THEN "cancelled" ELSE "cancel-failed"]
    /\ IF ok \/ store # "live" THEN UNCHANGED faults ELSE Fault

PushUnship(w) ==
  /\ At(w, "pushUnship") /\ Return(w)
  /\ \/ CancelOrder("yes")
     \/ Fault /\ store' = (IF store = "live" THEN "cancelled" ELSE store) /\ UNCHANGED order
  /\ UNCHANGED <<charge, left, claims, told, early, requests>>

\* revertPreStampIfNew.
PushRevert(w) ==
  /\ At(w, "pushRevert")
  /\ \/ order.status = "New" /\ Go(w, "pushBlank") /\ UNCHANGED <<inbox, faults>>
     \/ order.status # "New" /\ Return(w) /\ UNCHANGED faults
     \/ Fault /\ Return(w)
  /\ UNCHANGED <<charge, order, left, store, claims, told, early, requests>>
PushBlank(w) ==
  /\ At(w, "pushBlank") /\ Stamp("") /\ Return(w)
  /\ UNCHANGED <<charge, left, store, claims, told, early, requests>>

-----------------------------------------------------------------------------
(* reconcileProductOrderRefund, for a refund or a dispute Stripe reports and *)
(* at the end of the terminate route (force).                                *)

\* No row yet: taken for a deposit's, and acknowledged.
Read(w) ==
  /\ At(w, "read")
  /\ IF order.status = "none" \/ (order.status \in Terminal /\ worker[w].force = "no")
     THEN Return(w)
     ELSE Put(w, [worker[w] EXCEPT !.pc = "rclaim", !.saw = order]) /\ UNCHANGED inbox
  /\ early' = IF order.status = "none" THEN "yes" ELSE early
  /\ UNCHANGED <<charge, order, left, store, claims, told, requests, faults>>

\* Seeded fault: nothing serializes the reconciles of one charge.
ReconcileUnclaimed(w) ==
  /\ At(w, "rclaim") /\ Go(w, "flip")
  /\ UNCHANGED <<stripe, order, left, store, claims, told, early, requests, faults>>

ClaimReconcile(w) == Claim(w, "rclaim", "reconcile", "flip")

\* The status is written over whatever it has become; a failure is swallowed.
\* Stock and store are left alone if an earlier pass saw to them.
AfterFlip(w) == IF worker[w].saw.restored = "no"
                THEN Go(w, "restoreRead") /\ UNCHANGED inbox
                ELSE Return(w)

\* Seeded fault: only an order still waiting to ship is flipped.
FlipNew(w) ==
  /\ At(w, "flip") /\ AfterFlip(w)
  /\ order' = IF worker[w].saw.status = "New" THEN [order EXCEPT !.status = "Refunded"] ELSE order
  /\ UNCHANGED <<charge, left, store, claims, told, early, requests, faults>>

Flip(w) ==
  /\ At(w, "flip") /\ AfterFlip(w)
  /\ \/ /\ order' = IF worker[w].saw.status \in Terminal THEN order
                     ELSE [order EXCEPT !.status = "Refunded"]
        /\ UNCHANGED faults
     \/ /\ worker[w].saw.status \notin Terminal /\ Fault /\ UNCHANGED order
  /\ UNCHANGED <<charge, left, store, claims, told, early, requests>>

\* Orders Left is read, then written; a failure of either is swallowed.
RestoreRead(w) ==
  /\ At(w, "restoreRead")
  /\ \/ /\ Put(w, [worker[w] EXCEPT !.pc = "restoreWrite", !.left = left])
        /\ UNCHANGED faults
     \/ Fault /\ Go(w, "storeCancel")
  /\ UNCHANGED <<stripe, order, left, store, claims, told, early, requests>>

RestoreWrite(w) ==
  /\ At(w, "restoreWrite") /\ Go(w, "storeCancel")
  /\ \/ left' = worker[w].left + 1 /\ UNCHANGED faults
     \/ Fault /\ UNCHANGED left
  /\ UNCHANGED <<stripe, order, store, claims, told, early, requests>>

\* Decided on the row as it was first read: without a store order the row is
\* stamped against a later push ("H2 BELT"); if the ranch cannot be read the
\* store is left alone.
StoreCancel(w) ==
  LET saw == worker[w].saw IN
  /\ At(w, "storeCancel") /\ Go(w, "mark")
  /\ \/ saw.push = "cancelled" /\ UNCHANGED <<order, store, faults>>
     \/ /\ saw.push # "cancelled" /\ saw.ext = "no"
        /\ order' = [order EXCEPT !.push = "cancelled"] /\ UNCHANGED <<store, faults>>
     \/ saw.push # "cancelled" /\ saw.ext = "yes" /\ CancelOrder(order.ext)
     \/ saw.push # "cancelled" /\ saw.ext = "yes" /\ Fault /\ UNCHANGED <<order, store>>
  /\ UNCHANGED <<stripe, left, claims, told, early, requests>>

\* 'Stock Restored At'.
Mark(w) ==
  /\ At(w, "mark") /\ order' = [order EXCEPT !.restored = "yes"] /\ Return(w)
  /\ UNCHANGED <<charge, left, store, claims, told, early, requests, faults>>

-----------------------------------------------------------------------------
(* The rancher: cancel or refund an order, and mark it shipped.             *)

\* decideTermination.
Terminate(w) ==
  /\ order.status = "New" /\ Request /\ Begin(w, "termClaim", None)
  /\ UNCHANGED <<stripe, order, left, store, claims, told, early, faults>>

ClaimTerminate(w) == Claim(w, "termClaim", "terminate", "termFlip")

\* Seeded fault: the other spelling, which the base does not offer.
TermFlipCanceled(w) ==
  /\ At(w, "termFlip") /\ order' = [order EXCEPT !.status = "Canceled"] /\ Go(w, "termRefund")
  /\ UNCHANGED <<stripe, left, store, claims, told, early, requests, faults>>

\* Step 1: the ship rail closes; if that fails no money moves.
TermFlip(w) ==
  /\ At(w, "termFlip")
  /\ \/ /\ order' = [order EXCEPT !.status = "Cancelled"] /\ Go(w, "termRefund")
        /\ UNCHANGED <<inbox, faults>>
     \/ Fault /\ Return(w) /\ UNCHANGED order
  /\ UNCHANGED <<charge, left, store, claims, told, early, requests>>

\* Step 2: Stripe refunds what is not yet returned, under a key of the order and
\* the action, so that a second try of the action gets the first one's answer;
\* it may refuse, or its answer be lost.
Refunded(w) == Put(w, [worker[w] EXCEPT !.pc = "read", !.force = "yes"])
TermRefund(w) ==
  /\ At(w, "termRefund")
  /\ \/ /\ charge = "paid" /\ charge' = "returned" /\ inbox' = inbox \cup {"refunded"}
        /\ claims' = claims \cup {"refund"}
        /\ \/ Refunded(w) /\ UNCHANGED faults
           \/ Fault /\ Go(w, "termRevert")
     \/ /\ charge = "returned" /\ UNCHANGED <<stripe, claims, faults>>
        /\ \/ "refund" \in claims /\ Refunded(w)
           \/ Go(w, "termRevert")
     \/ charge = "paid" /\ Fault /\ Go(w, "termRevert") /\ UNCHANGED <<stripe, claims>>
  /\ UNCHANGED <<order, left, store, told, early, requests>>

\* "Nothing else has run yet, so putting the order back to 'New' is clean".
TermRevert(w) ==
  /\ At(w, "termRevert") /\ order' = [order EXCEPT !.status = "New"] /\ Return(w)
  /\ UNCHANGED <<charge, left, store, claims, told, early, requests, faults>>

Ship(w) ==
  /\ order.status = "New" /\ Request /\ Begin(w, "shipClaim", None)
  /\ UNCHANGED <<stripe, order, left, store, claims, told, early, faults>>

ClaimShip(w) == Claim(w, "shipClaim", "ship", "shipWrite")

\* The rancher's store sends its order; its webhook finds the row by the store
\* order's id, and reads New.
Fulfil(w) ==
  /\ store = "live" /\ store' = "sent"
  /\ IF order.ext = "yes" /\ order.status = "New"
     THEN Begin(w, "shipWrite", None)
     ELSE UNCHANGED <<worker, crossed>>
  /\ UNCHANGED <<stripe, order, left, claims, told, early, requests, faults>>

ShipWrite(w) ==
  /\ At(w, "shipWrite") /\ order' = [order EXCEPT !.status = "Shipped"] /\ Return(w)
  /\ UNCHANGED <<charge, left, store, claims, told, early, requests, faults>>

\* The invocation dies or a read throws: its event stays owed.
Crash(w) ==
  /\ ~At(w, "idle") /\ Fault /\ Put(w, Idle) /\ Unheard(w)
  /\ UNCHANGED <<stripe, order, left, store, claims, early, requests>>

-----------------------------------------------------------------------------
Settle(w)    == ClaimSettle(w) \/ Find(w) \/ Create(w) \/ BurnRead(w) \/ BurnWrite(w)
Push(w)      == \/ PushRead(w) \/ PushSkip(w) \/ PushGiveUp(w) \/ PushRing(w) \/ PushStamp(w)
                \/ PushCall(w) \/ PushVerify(w) \/ PushKeep(w) \/ PushUnship(w)
                \/ PushRevert(w) \/ PushBlank(w)
Reconcile(w) == \/ Read(w) \/ ClaimReconcile(w) \/ Flip(w) \/ RestoreRead(w)
                \/ RestoreWrite(w) \/ StoreCancel(w) \/ Mark(w)
Rancher(w)   == \/ ClaimTerminate(w) \/ TermFlip(w) \/ TermRefund(w) \/ TermRevert(w)
                \/ ClaimShip(w) \/ ShipWrite(w)
Step(w) == Settle(w) \/ Push(w) \/ Reconcile(w) \/ Rancher(w)

Next ==
  \/ Pay \/ Dashboard
  \/ \E c \in Keys : Lapse(c)
  \/ \E w \in Workers, ev \in Events : Deliver(w, ev)
  \/ \E w \in Workers : \/ Net(w) \/ PushNet(w) \/ PushRetry(w) \/ Terminate(w) \/ Ship(w)
                         \/ Fulfil(w) \/ Step(w) \/ Crash(w)

Spec == Init /\ [][Next]_vars

\* Invocations that do not die proceed, keys expire, Stripe redelivers until
\* answered, and the two nets run every few hours: product-settlement-net twelve
\* times before it looks past a charge.  Nobody has to ask for a push again.
Fairness ==
  /\ WF_vars(\E w \in Workers : Step(w))
  /\ WF_vars(\E c \in Keys : Lapse(c))
  /\ SF_vars(\E w \in Workers, ev \in Events : Deliver(w, ev))
  /\ SF_vars(\E w \in Workers : Net(w) \/ PushNet(w))

FairSpec == Spec /\ Fairness

-----------------------------------------------------------------------------
(* Properties. *)

Statuses == {"none", "New", "Shipped"} \cup Terminal
PushStatuses == {"", "skipped", "pushing", "pushed", "failed", "unstamped",
                 "cancelled", "cancel-failed"}
Row == [status : Statuses, push : PushStatuses, ext : {"yes", "no"}, restored : {"yes", "no"}]
PCs == {"idle", "settle", "read"} \cup Settling \cup Pushing \cup Reconciling
         \cup Terminating \cup Shipping

\* The row only ever takes a status its base offers, and each invocation only
\* values it read.
TypeOK ==
  /\ charge \in {"none", "paid", "returned"} /\ inbox \subseteq Events
  /\ order \in Row /\ left \in Nat
  /\ store \in {"none", "live", "cancelled", "sent"} /\ claims \subseteq Keys
  /\ told \in {"no", "yes", "lost"}
  /\ worker \in [Workers -> [pc : PCs, ev : Events \cup {None}, saw : Row, left : Nat,
                             force : {"yes", "no"}]]
  /\ early \in {"yes", "no"} /\ crossed \in {"yes", "no"}
  /\ requests \in 0..MaxRequests /\ faults \in 0..MaxFaults

\* Everything asked for has been answered, with no failure and no overlap that
\* the claims do not cover.
Quiet == inbox = {} /\ \A w \in Workers : At(w, "idle")
Clean == Quiet /\ faults = 0 /\ early = "no" /\ crossed = "no"

\* "a refund must never ship": however refund, push and shipment interleave, the
\* rancher's store is not left with a live order whose money went back (unless an
\* overlap of Overlap, a failure or an early refund comes in).
StoreStopped == Clean /\ charge = "returned" => store # "live"

\* Money that went back closes the order: no reconcile, revert or shipment leaves
\* it on the rancher's ship list or counted as shipped.
ReturnedIsOver == Clean /\ charge = "returned" => order.status \in Terminal

\* Each unit is burned once and restored once, however many events and routes
\* report one refund.
StockExact ==
  Clean /\ order.status # "none" =>
    left + (IF order.status \in Terminal THEN 0 ELSE 1) = Stock

\* "never lose a paid sale": whatever dies or is dropped, a charge gets its row.
PaidIsRecorded == charge # "none" ~> order.status # "none"

\* The operator heard of a push given up; only a second failure loses the word.
WordGiven == told = "yes" \/ (told = "lost" /\ faults > 1)

\* "no silent stranding": a paid order to ship reaches the store, stops being one, or
\* the operator is told that it will not; a failed read of its product, a dead push
\* or a failed call leave it in somebody's hands.
RecordedReachesStore ==
  order.status = "New" ~> \/ store # "none" \/ WordGiven
                          \/ order.status # "New" \/ charge = "returned" \/ crossed = "yes"

=============================================================================
