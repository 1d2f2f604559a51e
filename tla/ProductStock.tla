---------------------------- MODULE ProductStock ----------------------------
(***************************************************************************)
(* The stock of one product and the holds that keep two buyers from paying *)
(* for its last unit: the gate reads Orders Left, a Redis counter holds    *)
(* the units of checkouts in flight, settlement burns them.                *)
(*                                                                         *)
(*   lib/productBuyGates.ts, app/api/checkout/product   the gates          *)
(*   lib/productStockHold.ts                            the counter        *)
(*   lib/productSettlement.ts                           burn and restore   *)
(*   app/api/webhooks/shopify  orders/create            a sale in the store*)
(*                                                                         *)
(* A buyer is one attempt at one checkout and, if it is paid, its          *)
(* settlement and refund, each run once (ProductOrder has the claims).     *)
(***************************************************************************)
EXTENDS Integers, FiniteSets

CONSTANTS
  Buyers,
  Qty,          \* units each buyer asks for
  Stock,        \* Orders Left at the start
  StoreSales,   \* units sold directly in the rancher's own store
  MaxFaults     \* bound: crashes, failed or unanswered requests

ASSUME ProductStockAssumption ==
  /\ IsFiniteSet(Buyers) /\ Qty \in [Buyers -> Nat \ {0}] /\ Stock \in Nat
  /\ StoreSales \in Nat /\ MaxFaults \in Nat

VARIABLES
  left,    \* Orders Left of the product
  active,  \* Active of the product
  hold,    \* Redis: the counter bhc:product-hold
  ttl,     \* Redis: whether the counter will expire
  pc,      \* where each buyer's attempt stands
  saw,     \* the Orders Left it read last
  total,   \* what INCRBY answered it
  store,   \* the store's sale: "idle", "write" or "done", and what it read
  rung,    \* buyers whose settlement rang OVERSOLD
  slack,   \* history: how counter and row came apart, as Slack says
  faults

product == <<left, active>>
key     == <<hold, ttl>>
vars    == <<product, key, pc, saw, total, store, rung, slack, faults>>

\* "stale": a gate judged a row that had changed.  "lost": the counter lost units
\* of a live checkout.  "moved": Orders Left was burned while another was about to
\* write it, by a sale in the store, or restored by units it had never given.
\* "raced": it was restored while another was about to write it.
Slack == {"stale", "lost", "moved", "raced"}

Init ==
  /\ left = Stock /\ active = "yes" /\ hold = 0 /\ ttl = "no"
  /\ pc = [b \in Buyers |-> "idle"] /\ saw = [b \in Buyers |-> 0]
  /\ total = [b \in Buyers |-> 0] /\ store = [pc |-> "idle", saw |-> 0]
  /\ rung = {} /\ slack = {} /\ faults = 0

At(b, s) == pc[b] = s
\* What an attempt read is kept no longer than it is used.
Go(b, s)   == /\ pc' = [pc EXCEPT ![b] = s]
              /\ saw' = [saw EXCEPT ![b] = IF s = "judge" THEN saw[b] ELSE 0]
              /\ total' = [total EXCEPT ![b] = IF s = "judge" THEN total[b] ELSE 0]
See(b, s)  == pc' = [pc EXCEPT ![b] = s] /\ saw' = [saw EXCEPT ![b] = left] /\ UNCHANGED total
Fault    == faults < MaxFaults /\ faults' = faults + 1 /\ slack' = Slack
NoFault  == UNCHANGED <<faults, slack>>
Note(why, cond) == slack' = IF cond THEN slack \cup {why} ELSE slack
AtLeastZero(n) == IF n < 0 THEN 0 ELSE n
\* A unit is counted by its buyer and its number.
UnitsOf(S) == UNION {{b} \X (1..Qty[b]) : b \in S}
Units(S) == Cardinality(UnitsOf(S))
In(S)    == {b \in Buyers : pc[b] \in S}

\* Invocations that read Orders Left and are about to write it.
Writers == In({"burnWrite", "restoreWrite"})
Racing(b) == Writers \ {b} # {} \/ store.pc = "write"

-----------------------------------------------------------------------------
(* The gate and acquireStockHold.                                           *)

Gate(b) ==
  /\ At(b, "idle")
  /\ IF active = "yes" /\ Qty[b] <= left
     THEN See(b, "incr") ELSE Go(b, "soldOut")
  /\ NoFault /\ UNCHANGED <<product, key, store, rung>>

\* Redis down: the sale goes on without a hold.
Incr(b) ==
  /\ At(b, "incr")
  /\ \/ /\ hold' = hold + Qty[b] /\ total' = [total EXCEPT ![b] = hold + Qty[b]]
        /\ pc' = [pc EXCEPT ![b] = "expire"] /\ UNCHANGED saw
        /\ Note("stale", left < saw[b]) /\ UNCHANGED faults
     \/ Fault /\ Go(b, "mint") /\ UNCHANGED hold
  /\ UNCHANGED <<product, ttl, store, rung>>

\* The TTL is refreshed by every attempt, refused ones too; EXPIRE of a key that
\* is gone does nothing.
Expire(b) ==
  /\ At(b, "expire")
  /\ \/ ttl' = (IF hold = 0 THEN ttl ELSE "yes") /\ Go(b, "judge") /\ NoFault
     \/ Fault /\ Go(b, "mint") /\ UNCHANGED ttl
  /\ UNCHANGED <<product, hold, store, rung>>

\* Seeded fault: the buyer's own units are not counted.
JudgeOthers(b) ==
  /\ At(b, "judge") /\ NoFault
  /\ Go(b, IF total[b] - Qty[b] < saw[b] THEN "mint" ELSE "rollback")
  /\ UNCHANGED <<product, key, store, rung>>

\* holdFits.
Judge(b) ==
  /\ At(b, "judge") /\ NoFault
  /\ Go(b, IF total[b] <= saw[b] THEN "mint" ELSE "rollback")
  /\ UNCHANGED <<product, key, store, rung>>

\* Seeded fault: a refused attempt keeps its units.
RollbackNot(b) ==
  /\ At(b, "rollback") /\ Go(b, "refused") /\ NoFault
  /\ UNCHANGED <<product, key, store, rung>>

Rollback(b) ==
  /\ At(b, "rollback") /\ Go(b, "refused")
  /\ \/ hold' = hold - Qty[b] /\ NoFault
     \/ Fault /\ UNCHANGED hold
  /\ UNCHANGED <<product, ttl, store, rung>>

\* Stripe opens a session, or the checkout fails after its hold was taken.
Mint(b) ==
  /\ At(b, "mint") /\ (Go(b, "open") \/ Go(b, "gone")) /\ NoFault
  /\ UNCHANGED <<product, key, store, rung>>

\* The session expires unpaid, or its buyer never comes back.
Abandon(b) ==
  /\ At(b, "open") /\ Go(b, "gone") /\ NoFault
  /\ UNCHANGED <<product, key, store, rung>>

Pay(b) ==
  /\ At(b, "open") /\ Go(b, "burnRead") /\ NoFault
  /\ UNCHANGED <<product, key, store, rung>>

Payable == {"incr", "expire", "judge", "mint", "open", "burnRead", "burnWrite", "decr"}

\* The counter expires; a request in flight is shorter than the TTL it has set.
Lapse ==
  /\ ttl = "yes" /\ In({"judge", "rollback"}) = {}
  /\ hold' = 0 /\ ttl' = "no" /\ Note("lost", In(Payable \cup {"del"}) # {})
  /\ pc' = [b \in Buyers |-> IF At(b, "gone") THEN "left" ELSE pc[b]]
  /\ UNCHANGED <<product, saw, total, store, rung, faults>>

-----------------------------------------------------------------------------
(* settleProductPurchase: burn the units, then release the hold.            *)

\* Seeded fault: OVERSOLD rings for an empty shelf only.
BurnReadEmpty(b) ==
  /\ At(b, "burnRead") /\ See(b, "burnWrite") /\ NoFault
  /\ rung' = IF left = 0 THEN rung \cup {b} ELSE rung
  /\ UNCHANGED <<product, key, store>>

\* A failed read, or write, leaves stock and hold as they are.
BurnRead(b) ==
  /\ At(b, "burnRead")
  /\ \/ /\ See(b, "burnWrite") /\ NoFault
        /\ rung' = IF left < Qty[b] THEN rung \cup {b} ELSE rung
     \/ Fault /\ Go(b, "sold") /\ UNCHANGED rung
  /\ UNCHANGED <<product, key, store>>

\* Seeded fault: no clamp at zero.
BurnWriteBare(b) ==
  /\ At(b, "burnWrite") /\ left' = saw[b] - Qty[b] /\ Go(b, "decr")
  /\ Note("moved", Racing(b)) /\ UNCHANGED <<active, key, store, rung, faults>>

BurnWrite(b) ==
  /\ At(b, "burnWrite")
  /\ \/ /\ left' = AtLeastZero(saw[b] - Qty[b]) /\ Go(b, "decr")
        /\ Note("moved", Racing(b)) /\ UNCHANGED faults
     \/ Fault /\ Go(b, "sold") /\ UNCHANGED left
  /\ UNCHANGED <<active, key, store, rung>>

\* releaseStockHold: DECRBY, and DEL of a counter that came out empty.
Decr(b) ==
  /\ At(b, "decr")
  /\ \/ hold' = hold - Qty[b] /\ Go(b, IF hold' <= 0 THEN "del" ELSE "sold") /\ NoFault
     \/ Fault /\ Go(b, "sold") /\ UNCHANGED hold
  /\ UNCHANGED <<product, ttl, store, rung>>

Del(b) ==
  /\ At(b, "del") /\ Go(b, "sold")
  /\ \/ hold' = 0 /\ ttl' = "no" /\ Note("lost", hold # 0) /\ UNCHANGED faults
     \/ Fault /\ UNCHANGED key
  /\ UNCHANGED <<product, store, rung>>

-----------------------------------------------------------------------------
(* reconcileProductOrderRefund restores the units; the rancher sells some    *)
(* in the store.                                                            *)

RestoreRead(b) ==
  /\ At(b, "sold") /\ See(b, "restoreWrite") /\ NoFault
  /\ UNCHANGED <<product, key, store, rung>>

\* All of the order's units, those the clamp of the burn never took included.
RestoreWrite(b) ==
  /\ At(b, "restoreWrite") /\ Go(b, "back")
  /\ \/ /\ left' = saw[b] + Qty[b] /\ UNCHANGED faults
        /\ slack' = slack \cup (IF b \in rung THEN {"moved"} ELSE {})
                         \cup (IF Racing(b) THEN {"raced"} ELSE {})
     \/ Fault /\ UNCHANGED left
  /\ UNCHANGED <<active, key, store, rung>>

StoreRead ==
  /\ store.pc = "idle" /\ StoreSales > 0 /\ store' = [pc |-> "write", saw |-> left] /\ NoFault
  /\ UNCHANGED <<product, key, pc, saw, total, rung>>

\* orderDecrementPatch: at zero the product goes off the shelf.
StoreWrite ==
  /\ store.pc = "write" /\ store' = [pc |-> "done", saw |-> 0]
  /\ left' = AtLeastZero(store.saw - StoreSales)
  /\ active' = IF left' = 0 THEN "no" ELSE active
  /\ Note("moved", TRUE)
  /\ UNCHANGED <<key, pc, saw, total, rung, faults>>

\* An invocation dies: the checkout is never seen, a settlement is not repeated
\* (its row exists).
Crash(b) ==
  /\ Fault
  /\ \/ pc[b] \in {"incr", "expire", "judge", "mint", "rollback"} /\ Go(b, "gone")
     \/ pc[b] \in {"burnRead", "burnWrite", "decr", "del"} /\ Go(b, "sold")
  /\ UNCHANGED <<product, key, store, rung>>

-----------------------------------------------------------------------------
Acquire(b) == Incr(b) \/ Expire(b) \/ Judge(b) \/ Rollback(b) \/ Mint(b)
Burn(b)    == BurnRead(b) \/ BurnWrite(b) \/ Decr(b) \/ Del(b)

Next ==
  \/ \E b \in Buyers : \/ Gate(b) \/ Acquire(b) \/ Abandon(b) \/ Pay(b) \/ Burn(b)
                       \/ RestoreRead(b) \/ RestoreWrite(b) \/ Crash(b)
  \/ Lapse \/ StoreRead \/ StoreWrite

Spec == Init /\ [][Next]_vars

-----------------------------------------------------------------------------
(* Properties. *)

PCs == Payable \cup {"idle", "soldOut", "rollback", "refused", "gone", "left", "del",
                     "sold", "restoreWrite", "back"}

\* Stock is never negative, whatever is released or restored.
TypeOK ==
  /\ left \in Nat /\ active \in {"yes", "no"} /\ hold \in Int /\ ttl \in {"yes", "no"}
  /\ pc \in [Buyers -> PCs] /\ saw \in [Buyers -> Nat] /\ total \in [Buyers -> Int]
  /\ store \in [pc : {"idle", "write", "done"}, saw : Nat]
  /\ rung \subseteq Buyers /\ slack \subseteq Slack /\ faults \in 0..MaxFaults

\* "exactly one sees total <= ordersLeft": buyers who can still pay, or have paid
\* and are not yet settled, never want more than is left, unless a gate judged a
\* stale row, the counter lapsed or was wiped under a live checkout, Orders
\* Left moved (as Slack says), or something failed.
NoOversell == slack = {} => Units(In({"mint", "open", "burnRead", "burnWrite"})) <= left

\* "a refused purchase never left a phantom hold": when no acquire or release is
\* under way the counter is what the granted checkouts not yet settled asked for.
HoldsAreMints ==
  "lost" \notin slack /\ In({"expire", "judge", "rollback", "del"}) = {}
    => hold = Units(In({"mint", "open", "gone", "burnRead", "burnWrite", "decr"}))

\* "settlement still rings OVERSOLD if one slips through": however the holds were
\* lost or outlived, what was sold beyond the stock has rung, unless Orders Left
\* moved or something failed.
OversellRings ==
  "moved" \notin slack =>
    Units(In({"decr", "del", "sold", "restoreWrite"}) \ rung) <= Stock

=============================================================================
