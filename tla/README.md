# Verification of the money and capacity core of BuyHalfCow

TLA+ specifications of the parts of this repository where several actors write
the same records with no transaction around them: Stripe's webhooks, the
rancher's and the operator's routes, the nightly crons. TLC model-checks each
module on small instances; TLAPS proves its main safety properties for every
value of the constants.

Paths below are relative to the repository root.

## 1. The system

A buyer is matched with a rancher (a *Referral*, "deal"), pays a deposit through
Stripe Checkout on the rancher's connected account, the rancher accepts the slot,
and the deal closes with a final invoice. Beside the deals a shop sells
*products*: a charge makes a Rancher Orders row, burns a unit of Orders Left and is
pushed into the rancher's own store, which ships it. Everything runs as short-lived
serverless invocations (`app/api/**/route.ts`) against three stores:

- **Airtable** is the system of record: Referrals, Ranchers, Payments, Rancher
  Orders, Rancher Products, Stripe Events. It has no transactions and no conditional writes; every read and every
  write is one HTTP request that can fail on its own, and a write names a record
  id, whatever that record says by then. A value of a select field that the base
  does not offer is dropped before the write (`lib/schema/selectGuard.ts`,
  `lib/schema/schemaGuardAllowlist.ts`), which is why no Referral ever becomes
  `Refunded` and no Payments row `requires_webhook_replay`.
- **Upstash Redis** holds one capacity counter per rancher, one counter of held
  units per product, and the short-lived claims (`claimOnce`, SET NX EX). It may be
  down: each caller degrades open.
- **Stripe** holds the sessions, the charges, the refunds, and the events it
  redelivers until an endpoint answers 2xx.

### Components

| Component | State it keeps | Operations | Where it is hard |
|---|---|---|---|
| Capacity counter (`lib/rancherCapacity.ts`, `lib/capacityCount.ts`) | Redis counter, Airtable mirror `Current Active Referrals` | incrementCapacity, decrementCapacity, getLiveCapacity, setCapacityCounter | bootstrap, seed and clamp overwrite what others counted; a lost reply is counted twice by the fall-back |
| Matching (`app/api/matching/suggest`), approvals (`webhooks/telegram`, `referrals/[id]/approve`) | Status of the Referral | claim, valve, bounce to the next rancher, create, flip to Intro Sent, roll back | the slot is claimed before the row exists; a failed step gives it back |
| Closes (`referrals/[id]`, `rancher/referrals/[id]`) | Status | free the slot and write Status, in either order | the gate reads Status before both |
| Drift cron (`cron/capacity-drift-check`) | - | compare table, mirror and counter, overwrite both | its snapshot is stale when it writes |
| Deposit settlement (`lib/stripeSettlement.ts`, `lib/contracts/payments.ts`, both Stripe webhooks) | Payments row, `Deposit Paid At`, claim `settle-deposit:<pi>`, Stripe Events | settleBuyerDeposit, markDeposit*, acknowledge | duplicate and late deliveries; ledger and Referral are two writes |
| Orphan checkout reaper (`cron/orphan-checkout-reaper`) | - | backfill the PaymentIntent, settle, abandon, re-stamp | repairs while webhooks run |
| Deposit page and accept (`checkout/deposit`, `rancher/referrals/[id]/accept`) | Checkout Session, pending row, `Deposit Requested At`, `Rancher Accepted At` | mint, accept | several sessions and rows of one deal |
| Refunds (`admin/payments/refund/[paymentId]`, `charge.refunded`, `lib/refundLifecycle.ts`) | `Refunded Amount Cents`, Status, `Refunded At` | refund, record, revert the deal | idempotency keys, cumulative amounts out of order |
| Deal state machine (`lib/deal/*`), close contract (`lib/contracts/rancher.ts`), dashboard routes, quick actions | Status and its milestone stamps | transition, recordClose, PATCH, confirm-payment, request-deposit, accept | callers fall back to direct writes; each decides on a row it read before |
| Final invoice (`send-final-invoice`, `/r/f/[token]`, settleFinalInvoice, `cron/final-invoice-dunning`) | sessions of the balance, `Final Invoice *`, claims `final-mint:`, `settle-final:` | send, resend, click, settle, dun, heal | two rails mint sessions; a lost claim leaves the paid deal to the cron |
| Crons over deals (`cron/stuck-referral-reaper` and others) | Status, throttle stamps | list, then close or remind | the list is old when the write comes |
| Product stock (`lib/productStockHold.ts`, `lib/productBuyGates.ts`) | Redis holds, Orders Left, Active | gate, hold, release, burn, restore | TTL against payment; last unit; two requests per burn |
| Product orders (`lib/productSettlement.ts`, `lib/fulfillmentPushRunner.ts`, `rancher/orders`) | Rancher Orders row, order in the store | settle, push, ship, cancel, reconcile, nets | refund against push against shipment |
| Broker rail (`lib/broker*.ts`) | its own sessions and rows | settle | same shape as the deposit |
| Sends and signals (`lib/operatorSend.ts`, `lib/operatorSignal.ts`) | claims, caps | claim-before-send | claims that degrade open |

Matching and closes talk to the capacity counter by calls; settlement, refund and
reaper meet only in the Payments row and the Referral; a refund's restore and a
close call the counter as well. A deal's routes, its invoices and the crons meet in
the Referral; settlement, push and refund of a product meet in the Rancher Orders
row, and with the buyers at the gate in Orders Left. The last two rows of the table
are not modelled (section 7).

### What has to be true

- *Money*: a deal is booked and stamped paid only when its buyer was charged;
  money that reached Stripe reaches the deal; a settled row is not downgraded; the
  buyer is told once; what he is told is booked.
- *Refunds*: the ledger never claims more than Stripe returned; a deal is
  reverted only on a whole refund; a whole refund always lands.
- *Balance*: a buyer has one session on which to pay it; it is asked for while it
  is owed and not after; a paid balance closes the deal or stays where the cron
  heals it; a deal whose deposit is paid is not thrown away.
- *Orders*: a paid sale reaches its row, and the store or the operator; a refunded box does not ship;
  each unit is sold once and restored once; what is oversold rings.
- *Capacity*: the counter never forgets a slot that is taken; a rancher never
  holds more deals than the hard ceiling; whatever drifts, the cron repairs.

`PROJECT.json` lists, line by line, the 40 hazards these statements face.

## 2. The modules

| Module | What it is |
|---|---|
| `DepositSettlement` | the deposit from Stripe to the Referral and back |
| `MoneyTruth` | what settlement promises, abstractly |
| `DepositProofs`, `SaleProofs` | theorems of `DepositSettlement`: of every deal, and of a deal with one session |
| `CapacityCounter` | the capacity of one rancher |
| `CapacityProofs` | theorems of `CapacityCounter` |
| `RefundLedger` | the amounts of refunds of one charge |
| `RefundProofs` | theorems of `RefundLedger` |
| `DealLifecycle` | one deal from the request of its deposit to Closed Won, and its final balance |
| `DealProofs`, `ReachProofs` | theorems of `DealLifecycle`: the row and the charge, and where a payment of the balance ends up |
| `ProductOrder` | one product purchase from the charge to the box |
| `OrderProofs` | theorems of `ProductOrder` |
| `ProductStock` | the stock of one product and the holds of its buyers |
| `StockProofs` | theorems of `ProductStock` |
| `MCDeposit`, `MCCapacity`, `MCRefund`, `MCDealLifecycle`, `MCProductOrder`, `MCProductStock` | constants and symmetry of the TLC instances |

The operators named `...Early`, `...Without...`, `...Stale` and so on under a
comment "Seeded fault" are not part of any specification: each is a plausible
bug of the definition that follows it, and TLC finds the property of
`PROJECT.json` "mutants" violated when it takes that definition's place.

### DepositSettlement

One invocation is a *worker* with a program counter; between two of its steps any
other worker may run. Every round trip to Airtable, Redis or Stripe that matters
is a step of its own.

| State | In the program |
|---|---|
| `session[s]` | a Checkout Session: none, open, paid, expired, canceled. Under the API version the code pins, the PaymentIntent appears when the buyer pays, so a session and its PaymentIntent share a name |
| `refunded`, `inbox` | Stripe: fully refunded charges; events no endpoint acknowledged |
| `row[r]` | a Payments row: Status, Checkout Session Id, PaymentIntent Id (empty until backfilled) |
| `ref[f]` | the Referral: Status (Open stands for every status before the deposit), Deposit Requested / Paid At, Rancher Accepted At, Refunded At |
| `claim[s]` | the Redis key `settle-deposit:<pi>` and who set it |
| `effects[s]` | how often the effects after the anchor (funnel, emails, signals) ran |

| Action | Code |
|---|---|
| `Mint`, `Accept` | POST `checkout/deposit`; POST `rancher/referrals/[id]/accept` |
| `Pay`, `Expire`, `Refund` | external: the buyer, the 24 h expiry, a refund in the dashboard |
| `Deliver`, `Claim`, `Find`, `Flip`, `Stamp`, `Finish` | a webhook or the reaper running settleBuyerDeposit: dedupe, claimOnce, the lookups of markDepositSucceeded, its write, the Referral stamp, the effects and the acknowledgement |
| `RefundFind`, `RefundWrite`, `RestoreRead`, `RestoreWrite` | charge.refunded: markDepositRefunded and restoreReferralAfterRefund |
| `Reap`, `Backfill`, `AbandonRead/Miss/Write` | the reaper's pass over pending rows |
| `HealPick`, `HealRead`, `HealWrite` | its W1 pass over settled rows |
| `ExpireClaim`, `Crash` | the 60 s TTL; an invocation dies or throws (5xx) |

Read this when comparing with the code:

- `Stamp` and `RestoreWrite` can fail silently because the code catches those
  writes; a failure of `Find`, `Flip` or `RefundWrite` throws and is `Crash`.
- `Crash` keeps the claim, as the code does. A redelivery inside the TTL then
  loses the claim, returns normally and is acknowledged.
- A live holder of a claim always finishes before the 60 s TTL (`ExpireClaim`'s
  guard). The platform webhook and the reaper run under `maxDuration = 60`; the
  Connect webhook names no limit, and for it this is an assumption: the part of a
  settle between claim and flip is a handful of requests.
- When the settle throws inside the reaper, the reaper flags the row
  `requires_webhook_replay`. The base has no such option, the value is dropped,
  the row stays pending and the next pass tries again. Once that option is added
  to the base, `PaidSurfaces` needs a disjunct for rows waiting for a human.
- A redelivered event is one the endpoint has not acknowledged. Both endpoints
  may get the event of one PaymentIntent, as settleBuyerDeposit's comment says.

### CapacityCounter

One rancher. `status[r]` is a Referral as capacity sees it (none, pending, held,
closed); `Floor` further deals are held throughout. `key`/`count` are the Redis
key, `mirror` is Airtable's copy. Each invocation is four functions of the worker
(`pc`, `job`, `ref`, `n`: where it is, for what request, on which row, with what
number). `Incr`, `BootRead`, `BootSet`, `Exists`, `Get`, `SeedRead`, `SeedSet`,
`Decr`, `Clamp` are the Redis commands and reads of `lib/rancherCapacity.ts`;
`LegRead`, `LegWrite` its Airtable fall-back; `Match`, `Create`, `MirrorClaim`,
`Flip` the matcher; `Approve`, `ApproveWrite` the Telegram and the admin approval;
`Close`, `CloseWrite` both orders of a close; `Heal...` the drift cron; `LoseKey`
an eviction. The valve a match faces is `MaxRefs` (cold lead) or `Ceiling` (hot
lead, 1.2 times); a claim that passes neither is given back, as the code bounces
to the next rancher, who is outside the model.

### RefundLedger

One charge of `Captured` units. `returned`, `keys`, `notices` are Stripe's:
the total returned, the answer stored per idempotency key, the charge.refunded
events still owed. `status`, `amount`, `restored` are the row's and the deal's.
`Ask` is the part of the refund route that reads the row and computes cap and
`partial`; `Create` and `Replay` are Stripe's two answers to a request;
`MarkRead`, `MarkWrite`, `Restore` are markDepositRefunded, run by the route with
its own total or by the webhook with the event's. `replayed` is a history
variable: it records that Stripe answered a request with an earlier refund.

### DealLifecycle

A deal has five Statuses here (everything before the deposit is Open), its
milestone stamps, and `ptr`, the session its Final Invoice Checkout Session Id names.
A route is three steps, read, gate, write; `worker[w].pc` says which is next, and
what it decided travels in `to` and `s`.

| State | In the program |
|---|---|
| `deal` | the Referral: Status, the mark Pending Rancher Response (`waiting`), Deposit Requested / Paid At, Rancher Accepted At, Final Invoice Sent At, session id, Final Paid At |
| `deposit` | how far its deposit is (DepositSettlement has the detail) |
| `session[s]`, `stored` | Checkout Sessions of the balance; the answer Stripe keeps under send-final-invoice's fixed idempotency key |
| `inbox` | paid sessions whose event is unacknowledged |
| `mint`, `settling` | the Redis keys `final-mint:<referral>` and `settle-final:<pi>` |

| Action | Code |
|---|---|
| `Patch`, `Quick`, `Confirm`, `Accept`, `Request` | the rancher's routes, up to their gates |
| `Machine`, `Write`, `Signal` | transition's check; the write that follows whether or not it allowed the move; after a write it did not allow ("fallback"), the caller's sendOperatorSignal in its try/catch |
| `Visit`, `Ask`, `Charge`, `Stamp`, `Restamp`, `Refund` | the deposit page, the request's stamps, settlement, the reaper's re-stamp, restoreReferralAfterRefund |
| `Send`, `SendClaim`, `SendMint`, `SendWrite` | send-final-invoice |
| `Click`, `Look`, `ClickClaim`, `ClickMint`, `ClickStamp` | the durable link `/r/f/<token>` |
| `Deliver`, `SettleClaim`, `SettleRead`, `SettleStamp`, `SettleClose` | settleFinalInvoice, for the webhook or the cron |
| `Dun`, `Resolve`, `Remind` | final-invoice-dunning |
| `Sweep`, `SweepWrite` | stuck-referral-reaper |
| `Pay`, `Expire`, `Forget`, `LapseMint`, `LapseSettle`, `Crash` | Stripe, TTLs, a dying invocation |

`slack` is a history variable: it names the ways in which a deal leaves the path the
code protects, and the properties say which of them they exclude. Each is there
because TLC showed the property false without it (section 4, "seen").

Two things about the rails. `Rails` says which moves the dashboard's PATCH puts to the
machine: it has no state for Awaiting Payment and Negotiation, which are written
directly, while Rancher Contacted (an Open like Negotiation) goes through it. And
`LapseMint` spares an invocation in flight: the TTL of `final-mint:` is 20 s and both routes
may run for 30, so that is an assumption about time (between the claim and the write
there are two requests), on which OneCharge and PaidOnce rest.

### ProductOrder

One purchase of one unit, for a ranch whose store is connected. `order` is the
Rancher Orders row as far as the protocols use it: Status, External Push Status
(`push`), whether External Order Id is set (`ext`), Stock Restored At (`restored`).
`store` is the order in the rancher's store, which ships it unless it is cancelled.

| Action | Code |
|---|---|
| `ClaimSettle`, `Find`, `Create`, `BurnRead`, `BurnWrite` | settleProductPurchase, for the webhook or for `Net`, the cron product-settlement-net |
| `PushRead` ... `PushBlank` | runFulfillmentPush, at the end of a settlement or for the cron fulfillment-push-net, which takes blank and stale rows by itself (`PushNet`) and any other on request (`PushRetry`): disposition, pre-stamp, createOrder, second read, keep or cancel, revert |
| `PushGiveUp`, `PushRing` | the same where it gives up: a product that cannot be read counts as one without a SKU and the row is stamped `skipped:no-sku`, a permanent error is stamped `failed:`; then the operator is signalled |
| `Read`, `ClaimReconcile`, `Flip`, `RestoreRead`, `RestoreWrite`, `StoreCancel`, `Mark` | reconcileProductOrderRefund, for refund and dispute events and at the end of the rancher's cancellation |
| `Terminate`, `ClaimTerminate`, `TermFlip`, `TermRefund`, `TermRevert` | POST `rancher/orders/refund` |
| `Ship`, `ClaimShip`, `ShipWrite`, `Fulfil` | POST `rancher/orders`; the store's fulfilment webhook |
| `Pay`, `Dashboard`, `Lapse`, `Crash` | Stripe, TTLs, a dying invocation |

`crossed` is a history variable: two invocations no claim keeps apart were each
about to write what they had read (`Overlap` lists the five pairs). `early` records
that a refund was acknowledged before there was a row. `told` says whether the operator
heard of a push given up ("yes") or the signal was lost in a crash or a swallowed failure.
Every read and stamp of the push may fail: the code catches each of them and goes on.

### ProductStock

`hold` and `ttl` are the counter `bhc:product-hold:<product>`; `left`, `active` the
product. A buyer is an attempt: `pc[b]` runs through the gate, INCRBY, EXPIRE, the
judgement, a possible roll-back, the session, and after payment the burn (read,
write, DECRBY, DEL) and a refund's restore. `StoreRead`, `StoreWrite` are the
store's own orders/create webhook. `rung` holds the settlements that rang OVERSOLD.
`slack` records that a gate judged a stale row (`stale`), that the counter lost a live
hold (`lost`), that Orders Left was burned under another writer, sold in the store or restored
by units never taken from it (`moved`), or restored while another attempt was about to
write it (`raced`). A request that fails sets all four.

## 3. The runs

| Run | Expect | Shows |
|---|---|---|
| `deposit_single` | pass | one session, two endpoints, two workers, two faults: NotifiedOnce, NotifiedIsBooked, SettlesAlone, SettleWinsRace, and PaidSurfaces under fairness |
| `deposit_two` | pass | two sessions and two rows of one deal, a refund, a fault: TypeOK, BookedIsCharged, refinement of MoneyTruth |
| `deposit_refund` | violation | NotifiedOnce: a delivery after the refund settles again |
| `deposit_race` | violation | SettleWinsRace: abandoned is written over a settled row |
| `capacity_serial` | pass | TypeOK, CountsEverySlot, NeverOverCeiling with a Redis that answers, one close at a time, and failed Airtable writes |
| `capacity_heals` | pass | DriftHeals with every failure and every route |
| `capacity_first_claim` | violation | DistinctClaims: two invocations with the same number |
| `refund_ledger` | pass | TypeOK, LedgerNotAhead, RevertedIsWhole, WholeIsOwed; WholeRefundLands under fairness |
| `refund_repeat` | violation | Whole: a deal is reverted with money still captured |
| `product_order` | pass | StoreStopped, ReturnedIsOver, StockExact; PaidIsRecorded and RecordedReachesStore under fairness: a paid order reaches the store or a signal went out for it, also when the product could not be read |
| `product_stock` | pass | NoOversell, HoldsAreMints, OversellRings, with a lapsing TTL, a store sale and a fault |
| `deal_lifecycle` | pass | OneCharge, DunnedOwes, PaidStands, InvoicedIsChased, PaidOnce, PaidInReach; no step invoices a refunded deal, or takes a paid one back past the machine without a signal |

**Bounds.** `MaxFaults`, `MaxRefunds`, `MaxRequests`, `MaxEffects` cap crashes,
refunds, requests and the count of notifications; the numbers of workers,
sessions and rows are two or three. They are enough for what the properties are
about: two concurrent invocations are the smallest race and three let a third
act between the read and the write of another; two sessions of one deal are
where rows are taken for one another; two faults are what PaidSurfaces needs to
lose first the claim's holder and then the stamp; three referrals against a
ceiling of two make the valve bite with one deal standing; three units let two
unequal partial refunds and a whole one meet, and four units are the smallest
charge that two equal partials and a half exhaust. In `product_order`
two invocations, one click of the rancher, one full refund and one fault meet; a
fault strikes an invocation that runs alone and later ones come one by one, so a
failure is followed through every repair but not through another race. `Begin` names
the idle invocation that serves a request, since which one does makes no difference. In
`product_stock` three buyers of three units, two of whom want two, let the valve
refuse, roll back and admit, and two burns and a restore meet; in `deal_lifecycle` two sessions are the fewest that
can charge a buyer twice, and one move lets the rancher act once at any point. Its
properties were also checked with two faults (3.2 million states; the run has 1.8).
Instances in which bounded
requests run out may stop, and say CHECK_DEADLOCK FALSE; `capacity_heals` has the
cron and checks deadlock.

`deposit_refund` and `deposit_race` use a smaller instance of the same module in
which the property that `deposit_single` establishes no longer holds: with a
refund in one case, with a second session of the same deal in the other. So the
passing run says exactly where the promise does hold.

**Fairness.** An invocation that does not die proceeds (WF of its steps). Stripe
redelivers an unacknowledged event for days and Vercel runs the crons on their
schedule (`vercel.json`: the reaper daily, the drift cron and the settlement net
every six hours, the push net every two; the settlement net looks back three days and at
the 100 latest charges of a ranch, so PaidIsRecorded is about a net that works once within
its window and a ranch with fewer sales), at
any load: strong fairness, because the model's two workers may be busy in
between, which a real deployment's are not. The TTL lapses (WF). Buyers,
operators, crashes and faults have no fairness. The bound on faults makes
"failures stop eventually" part of the liveness statements. `product_stock` and
`deal_lifecycle` state safety only and assume no fairness: what has to happen there
(a buyer pays, a rancher sends the invoice) is nobody's duty.

## 4. Findings

Each is a disagreement between a comment of the source and what the source does;
`PROJECT.json` quotes both.

1. *A refunded deposit settles again* (`deposit_refund`). markDepositSucceeded
   stops at `succeeded` only.
2. *The reaper abandons a settled row* (`deposit_race`). Read and write are two
   requests; the comments say the settle wins.
3. *Two claims get the same number* (`capacity_first_claim`). INCR returning 1 is
   taken for a missing key, also when the counter stood at zero.
4. *Equal partial refunds* (`refund_repeat`). The key is `refund-<row>-<amount>`:
   within Stripe's 24 hours the second request moves nothing, is counted, and a
   later refund then reverts a deal that was not wholly refunded.

### Seen while modelling

What follows is possible in the code and in the models; the properties exclude it by
a named history value, and no run is spent on it.

*Deals*
- `stuck-referral-reaper` closes a deal that came from the rancher's own page five
  days after it was made, deposit paid or not: nothing but the operator's approval
  ever clears `Pending Rancher Response` (`swept`).
- A deposit stamped, or restored by a refund, while a route has read and not yet
  written: the route's Status lands on the newer row (`raced`). A balance that closes
  the deal under such a route is reopened by it (`pending`).
- An accept after the final invoice takes the deal out of Awaiting Payment, where
  dunning and its heal look (`late`). A resent invoice is a second session and reopens
  a closed deal (`resent`); request-deposit, which has no gate on Status, reopens it
  too (`reopened`).
- PATCH to Negotiation or Awaiting Payment is written without asking the machine
  (`rancher/referrals/[id]/route.ts` 587, 923-952): a deal that was won and paid and whose
  deposit then went back leaves Closed Won with no rejection and no signal, only the
  route's ordinary status message to the admin chat (1182-1186), whose failure is
  swallowed. `states.ts` 58-59 promises that a correction lands "loudly" (`reopened`).
- The machine's rejection never blocks: each caller writes directly and signals
  afterwards (`loud`). A crash between the two, or a failed signal, reopens the deal
  unheard, and the key of the lost signal silences the next for an hour (`unheard`).
- A refund of a deal in a Status it does not restore leaves the deposit stamped
  (`kept`). It does not clear Final Invoice Sent At either, so dunning goes on, and a
  session that is still open can be paid and closes the refunded deal as won.
- A deal refunded in Slot Locked cannot be deposited again: the base drops
  'Refunded', and the already-paid gate reads Slot Locked as paid.
- When Stripe cannot show the stored session, or the write of the click's own session
  fails, `/r/f` leaves a session the row does not point to (`strayed`): the buyer may pay
  twice, and a payment of the lost one is healed by its webhook only, since the
  dunning cron asks Stripe about the session on the row.

*Orders*
- The refund route calls the webhook the "durable backstop" of its own reconcile, but
  the webhook finds the Status terminal and stops; after a crash in between nothing
  restores stock or store.
- A refund or dispute acknowledged before the row exists is taken for a deposit's and
  is lost (`early`).
- When Stripe's answer to the rancher's refund is lost, or the money went back by
  another way, the route puts the order back to New; a push skipped meanwhile is not
  nominated again (`crossed`).
- Mark-shipped and cancel hold different claims; Shipped may be written over
  Cancelled (`crossed`).
- The belt against a late push ("H2") fails when the push's second read comes before
  the Status write and its stamp after the reconcile's, which decided on the row as
  it first read it (`crossed`).
- A read of the product that fails is caught as null and taken for a product without
  a SKU (`fulfillmentPushRunner.ts` 97-110): a paid order that could be pushed is stamped
  `skipped:no-sku`, which the push net never nominates. One signal of normal urgency says
  so; after a crash between stamp and signal, or a failed signal, nobody looks at the row again
  (`told` = "lost": two failures). The same holds of a row stamped `failed:` before its signal.
- Burn and restore of Orders Left are a read and a write; two at a time lose one
  (`crossed` in ProductOrder, `raced` in ProductStock).

*Stock*
- The hold's TTL is 15 minutes, a session lives 30; refused attempts extend the TTL
  of units nobody owns; the gate hands acquireStockHold an Orders Left it read
  earlier (`stale`).
- releaseStockHold deletes the counter when DECRBY came out at zero or below: a hold
  taken between the two is lost (`lost`).
- A refund restores all units of an order, those included that the clamp at zero
  never took (`moved`).

## 5. What is proved

All proofs are for every value of the constants that satisfies the named
assumption of the module (`DepositAssumption`, `CapacityAssumption`,
`RefundAssumption`, `DealAssumption`, `ProductOrderAssumption`,
`ProductStockAssumption`); TLC evaluates these on every run.

| Theorem | Statement | Inductive invariant |
|---|---|---|
| `DepositProofs!TypeCorrect` | Spec => []TypeOK | itself |
| `LedgerIsCharged` | Spec => []BookedIsCharged | `TypeOK /\ MoneySound` |
| `SettlementImplementsMoneyTruth` | Spec => MoneyTruth's Spec | `TypeOK /\ MoneySound` |
| `ClaimSerializes` | RedisReliable = TRUE and Spec => []SettlesAlone | `TypeOK /\ HoldsClaim` |
| `CapacityProofs!CapacityTypes` | Spec => []TypeOK | itself |
| `CounterCoversSlots` | Orderly and Spec => []CountsEverySlot | type, order of the steps, and the count |
| `CeilingHolds` | Orderly and Spec => []NeverOverCeiling | the same, and a bound on what is admitted |
| `RefundProofs!RefundTypes` | Spec => []TypeOK | itself |
| `LedgerFollowsStripe` | Spec => []LedgerNotAhead | `TypeOK` and `LedgerInv` |
| `RevertsAreWhole` | Spec => []RevertedIsWhole | the same |
| `WholeRefundIsOwed` | Spec => []WholeIsOwed, and no step takes a row out of refunded | `TypeOK` and `OwedInv` |
| `DealProofs!DealTypes` | Spec => []TypeOK | `Shape` |
| `PaidDealStands` | Spec => []PaidStands | `Shape` and `Stands` |
| `InvoicedDealIsChased` | Spec => []InvoicedIsChased | the same |
| `NoInvoiceOnceRefunded` | Spec => RefundedOwesNothing | the same |
| `ChargedOnce` | Spec => []OneCharge | `Shape`, `Held` and `One` |
| `DunnedWhoOwes` | Spec => []DunnedOwes | the same |
| `ReopenedLoudly` | Spec => ClosedIsLoud | `Shape`, `Stands`, `Held`, `Firmly` and `Heard` |
| `OrderProofs!OrderTypes` | Spec => []TypeOK | itself |
| `RefundStopsStore` | Spec => []StoreStopped | `TypeOK`, and `Kept` while `Calm` |
| `RefundClosesOrder` | Spec => []ReturnedIsOver | the same |
| `StockIsExact` | Spec => []StockExact | the same |
| `NoPaidOrderIsStranded` | Spec => []NothingStranded | `TypeOK`, `Supplied` and `Costly` |
| `StockProofs!StockTypes` | Spec => []TypeOK | itself |
| `ValveNeverOversells` | Spec => []NoOversell | `StockInv` |
| `CounterIsHolds` | Spec => []HoldsAreMints | the same |
| `SilentSalesFit` | Spec => []OversellRings | the same |
| `SaleProofs!NotifiesOnlyBooked` | OwnDeal => (Spec => []NotifiedIsBooked) | `TypeOK`, `MoneySound` and `SaleSound` |
| `ReaperNeverUndoesSettlement` | OwnDeal => (Spec => SettleWinsRace) | the same |
| `NotifiesOnce` | OwnDeal and RedisReliable = TRUE => (Spec and []Ordinary => []NotifiedOnce) | the same, `HoldsClaim` and `OnceSound` |
| `PaidStaysInSight` | OwnDeal => (Spec => []PaidInSight) | `TypeOK`, `MoneySound`, `SaleSound` and `RefundsSound` |
| `ReachProofs!BalancePaidOnce` | Spec => []PaidOnce | `Shape`, `Held` and `Tracked` |
| `PaidIsReached` | Spec => []PaidInReach | `Shape`, `Stands`, `Held`, `Tracked` and `Reach` |

**Ledger.** BookedIsCharged is not inductive: an invocation flips a row it looked
up earlier, so the invariant has to say what every event (`StripeSound`), every
row (`RowSound`) and every invocation in flight (`InvocationSound`) knows: that
its session is paid and that the row it carries is of the session's deal. Charges
never go away, so stale knowledge stays true; that is the reason the blind write
by row id is harmless to this property. The refinement proof uses the same
invariant: only the writers of Deposit Paid At move MoneyTruth, each after a
charge, and only RestoreWrite removes the stamp, after a refund.

**Claim.** With RedisReliable no invocation passes the claim without holding it,
and ExpireClaim spares a live holder.

**Counter.** `Orderly` names what the code needs for its count to be safe: a
Redis that answers, a warm key and at least one standing deal (so that INCR never
returns 1 and nothing is ever clamped), one closer at a time, DECR-first closes
only if nothing fails, no approvals and no cron among the jobs. Each hypothesis is
there because dropping it gives a behaviour in which the count is wrong; the
hazards list names them one by one, and DriftHeals is what is left in those cases.
The ceiling follows: an admitted claim saw a number no smaller than the slots
taken, its own included.

**Refunds.** `LedgerInv` says that every total an invocation or an event carries
was returned by Stripe before, as long as `replayed = "no"`; since `returned` only
grows, overwriting the amount with an older total keeps the ledger behind Stripe.
`OwedInv` is the other direction, through any number of failures and with no such
condition: once the whole charge went back, the event with the full total stays in
every endpoint's inbox until an invocation that carries that total has written it (one
that dies leaves it there), and a row once refunded is never written back. (`RefundAssumption` says that
None is no event, or an idle invocation would pass for one that serves it.)

**Deals.** `Shape` adds to the types what an invocation needs in order to run: whoever
works on a session has one, whoever settles has a paid one. `Stands` relates the row to
the deposit and to what is decided but not yet written (`Heeds`): a decision taken on a
paid deal keeps it standing, since every rail read Deposit Paid At; if the deposit
lands under a decision, slack says "raced" and the promise is void. `Held` is the
mutual exclusion of the two rails that mint (`final-mint:<referral>`): whoever mints
holds the key, and the key cannot lapse under anybody who has read the row; hence who
takes it after an invoice was sent is a click, or a resend. `One` builds on it: before
the invoice all a buyer could pay is the session Stripe remembers under the send's
idempotency key, after it the one the row points to, and in between the one the holder
carries; a click that takes the key saw that session expired. `Firmly`: no quiet
decision is about to take a won deal back; what does take it back is a move named in
`slack`, or a write past the machine, after which the invocation stands at its signal.
`Heard`: a signal is lost only if something failed. `Steps` shows that all but a dozen actions
touch none of this.

**Orders.** The three properties of ProductOrder speak of a quiet state, so their
invariant says who is still going to act. As long as nothing failed, no refund came
before its row and no two invocations overlapped (`Calm`), `Kept` holds: one invocation
behind each claim (`Claimed`); no two about to write what the other changes (`Apart`,
which is Overlap read backwards); each place of an invocation fits the row's status
(`Fits`), so Terminal statuses are never left; who holds the reconcile claim still knows
whether the stock is back (`Knows`): a reader that waited while another reconciled
loses the claim, since the key cannot lapse before it tried. `Owed` names the
invocation or event that will see to a closed order, a held key and a refund;
`Stocked` is the book of burned and restored units with the steps in between;
`Stopped` says that a live store order is in the hands of a push that will look at the
row again, or known to every reconcile that is under way or comes. In a quiet state
nobody is left to act, and the properties are what remains. `Calm` cannot be dropped:
the hazards list names a behaviour for each of its conditions.

`NothingStranded` needs no Calm, only an order that is paid and no overlap on record.
`Supplied` says why, conjunct by conjunct: one settlement creates the row (`Begun`); a row
whose order the store does not have does not carry an id, and no push is past the call
(`Unsent`); a row is "failed" only once somebody is about to ring the operator (`Failed`,
`Voiced`), and "skipped" only then, or because it is not New and no cancellation is about
to set it back to New, which is what Overlap records (`Skips`); and nobody reconciles a
charge that did not go back (`Unasked`). `Costly` counts: a push is given up because
something failed, so the word to the operator is lost by a second failure only. With two
failures a paid order can be stranded in silence, and the theorem does not hide it:
`WordGiven` is then satisfied by the loss.

**Sale.** `OwnDeal` says that no two sessions are for one deal, the ordinary sale:
lookups by the deal then find a row of the session. `SaleSound` says that every
session has a row (`Recorded`), that a row about to be abandoned has a dead session,
and that whoever stamps or notifies follows a flip that left the row `Booked`, from
which only a refund moves it. That is enough for NotifiedIsBooked and
SettleWinsRace, refunds and a Redis that is down included; `deposit_race` is
SettleWinsRace without OwnDeal. NotifiedOnce needs more, and each hypothesis has a
behaviour behind it in which the buyer is told twice: a refund makes the anchor forget
(`deposit_refund`), a Redis that does not answer lets two invocations read the row
before either flips it, and two rows of one session are flipped one after the other.
`OnceSound` is the anchor: once the row has succeeded, nobody but the invocation
that flipped it, which holds the claim, is on its way to the effects. `PaidInSight`
needs neither Redis nor a single row: no row of a paid session is abandoned, a settlement
leaves it succeeded, which the W1 pass returns, and a row marked refunded belongs to a
charge that went back (`RefundsSound`).

**Stock.** Sums over sets of buyers need no fold: `Units(S)` counts the pairs <<buyer,
unit>>, so the library's theorems on cardinalities give how it grows, shrinks and
splits (assuming finitely many buyers). `HoldSound`: the counter is the units of the
attempts that have incremented it and not yet decremented. `ShelfSound`: what the valve
let through, or will let through once it judges an answer it already has, fits what
is left, and whoever is about to write Orders Left read what it is. `BookSound`: what
is left, or what a writer believes is left, fits into the stock with the units
sold in silence; it survives lost holds, which is why OversellRings does. The value
`raced` of `slack` came from this proof: on the run's earlier, smaller instance NoOversell
held without it, and a second unit per buyer showed a restore between another's read
and write.

**Reach.** `Tracked`: until the invoice is resent or a session strays, the row points
to every session a buyer was shown or paid, through any number of failures, since a
click shows nothing before its stamp is written and a new session is minted only
after the old one is dead; PaidOnce follows. `Bounded`: no decision in flight takes an
invoiced and won deal back. `Kept`: while nothing failed, a paid session is in Stripe's
inbox, won, or in an invocation's hands, and so is every key `settle-final:`. The theorem
has two cases. Nothing strayed: the pointer is right, and whatever was lost, the deal is in
Awaiting Payment (InvoicedIsChased), where the cron heals it. Something strayed: then
that was the failure, nothing else was lost (`Lossless`), and the webhook closes the
deal. With a second failure PaidInReach does not hold: a paid session whose pointer was
overwritten, and whose settlement died, is in nobody's sight.

## 6. Only model-checked

PaidSurfaces, DriftHeals, WholeRefundLands, PaidIsRecorded and RecordedReachesStore are
liveness properties under fairness, outside the prover's reach. Of three of them the
safety half is proved, that what the recovery looks for is never lost: PaidInSight for
PaidSurfaces, WholeIsOwed for WholeRefundLands, NothingStranded for
RecordedReachesStore; that the recovery then comes is TLC's. The four violations are
counterexamples by nature. Every invariant and every action property of a passing run
has a theorem; where it carries a hypothesis (`Orderly`, `OwnDeal`, `Ordinary`, RedisReliable),
the run's constants satisfy it and the text above says what happens without it.
DistinctClaims, refuted for a cold counter, has no theorem for a warm one: a DECR after an
admitted claim rightly hands its number out again.

## 7. Not modelled, and why

- Parts of modelled components: the NRD window of the refund route (a filter any
  request may override); disputes of deposits and account events;
  malformed metadata (acknowledged at once, never settles); row and look-back
  caps of the reaper; recordDeposit failing together with the expiry of its
  session, which the code reports to the operator by hand (`Mint` is one step);
  ranchers that are not Active, which the drift cron skips, so DriftHeals is about
  an Active one; a re-approval of a row already held.
- Of a deal: the 17 states of the machine beyond the Status they map to (stateToStatus
  forgets them, and no gate reads more); `fulfillment`, which moves milestones inside
  Slot Locked; the operator's own writes (Telegram buttons, admin desk, edits of the
  base), which may do anything by intent; referral-chasup, whose close of a silent
  intro is, for the deal, a quick action's; a second deposit of one deal; Redis down.
- Of a product: carts of several products, pickups and deposits, partial refunds
  (which reconcile nothing), labels, the catalogue sync that overwrites Orders Left;
  Redis down in ProductOrder (ProductStock has it); a ranch with no store.
- The broker rail: claim, flip and stamp in DepositSettlement's shape with fewer
  writers; a module for it would ask no new question. Operator sends and signals:
  claim-before-send, whose loss is a missed message.
- Most of the repository by lines: pages, the setup wizard, e-mail bodies, a table of
  ZIP centroids, the operator's Telegram commands, sequences of marketing mail.
  They hold little state that several actors write; the share of the
  implementation these models cover is small for that reason.
- Pure I/O and presentation: pages, emails, threads, catalogue sync, authentication.
- Scoring and choice of ranchers: a function of the data, no protocol.

## 8. Plan

1. **SlotsAndDeals**: the refund's restore and the sweep composed with
   CapacityCounter, for the slot of a deal that is closed or restored on one side
   and held on the other.
2. **Redis down** in ProductOrder, and its second layer (Stock Restored At).
3. **Broker rail**, if its writers grow beyond one.
4. Proofs: CountsEverySlot without the standing deal under a corrected bootstrap.
