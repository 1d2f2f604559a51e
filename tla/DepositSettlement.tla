------------------------- MODULE DepositSettlement -------------------------
(***************************************************************************)
(* How a buyer's deposit travels from Stripe into the Payments ledger and  *)
(* onto the Referral, and how a full refund travels back.                  *)
(*                                                                         *)
(*   lib/stripeSettlement.ts           settleBuyerDeposit                  *)
(*   lib/contracts/payments.ts         the ledger writes                   *)
(*   app/api/webhooks/stripe*          delivery, dedupe, acknowledgement   *)
(*   app/api/cron/orphan-checkout-reaper   the nightly repair              *)
(*                                                                         *)
(* Airtable has no transactions: every read and every write below is a     *)
(* step of its own, and invocations (Workers) interleave between them.     *)
(* A PaymentIntent exists only once the buyer pays (apiVersion clover), so *)
(* it is identified with its Checkout Session.  Refunds here are full.     *)
(***************************************************************************)
EXTENDS Naturals, FiniteSets

CONSTANTS
  Sessions,       \* Stripe Checkout Sessions (and their PaymentIntents)
  Referrals,      \* deals
  RefOf,          \* the deal each session is for
  Rows,           \* Payments row ids
  Endpoints,      \* webhook endpoints that receive each Stripe event
  Workers,        \* concurrent serverless invocations
  None,           \* no session, no row, no event, no holder
  RedisReliable,  \* FALSE: claimOnce may fail and degrade open
  MaxFaults,      \* bound: crashes and failed writes in a behaviour
  MaxRefunds,     \* bound: refunds created at Stripe
  MaxEffects      \* bound: cap of the count of buyer notifications

ASSUME DepositAssumption ==
  /\ RefOf \in [Sessions -> Referrals]
  /\ None \notin Sessions \cup Rows \cup Workers
  /\ RedisReliable \in BOOLEAN
  /\ MaxFaults \in Nat /\ MaxRefunds \in Nat /\ MaxEffects \in Nat

VARIABLES
  session,   \* Stripe: state of each session
  refunded,  \* Stripe: sessions whose charge was fully refunded
  inbox,     \* Stripe: events not yet acknowledged with a 200
  row,       \* Airtable Payments
  ref,       \* Airtable Referrals
  claim,     \* Redis: holder of settle-deposit:<pi>
  worker,    \* invocations in flight
  effects,   \* per session: how often the non-idempotent effects ran
  faults     \* faults used so far

stripe == <<session, refunded, inbox>>
vars   == <<session, refunded, inbox, row, ref, claim, worker, effects, faults>>

Events   == [kind : {"paid", "refund"}, ep : Endpoints, ses : Sessions]
Statuses == {"Open", "Awaiting Payment", "Slot Locked"}
Idle     == [pc |-> "idle", ses |-> None, row |-> None, ev |-> None]
Absent   == [st |-> "absent", ses |-> None, pi |-> None]

\* settle-deposit:<pi> is held from the claim to the end of the invocation.
Settling == {"find", "flip", "backflip", "stamp", "finish"}

Init ==
  /\ session = [s \in Sessions |-> "none"]
  /\ refunded = {} /\ inbox = {}
  /\ row = [r \in Rows |-> Absent]
  /\ ref = [f \in Referrals |-> [status |-> "Open", requestedAt |-> FALSE, paidAt |-> FALSE,
                                 acceptedAt |-> FALSE, refundedAt |-> FALSE]]
  /\ claim = [s \in Sessions |-> None]
  /\ worker = [w \in Workers |-> Idle]
  /\ effects = [s \in Sessions |-> 0]
  /\ faults = 0

At(w, pc)      == worker[w].pc = pc
Go(w, pc)      == worker' = [worker EXCEPT ![w].pc = pc]
Start(w, next) == At(w, "idle") /\ worker' = [worker EXCEPT ![w] = next]
\* The handler returns normally: 200, and the Stripe Events row is processed.
Return(w)      == /\ worker' = [worker EXCEPT ![w] = Idle]
                  /\ inbox' = inbox \ {worker[w].ev}
\* A fault the code swallows, or one that kills the invocation.
Fault          == faults < MaxFaults /\ faults' = faults + 1
ByPi(s)        == {r \in Rows : row[r].pi = s}
DealOf(r)      == RefOf[row[r].ses]
Pending(f)     == {r \in Rows : row[r].st = "pending" /\ DealOf(r) = f}

-----------------------------------------------------------------------------
(* The buyer, the rancher and Stripe. *)

\* isDepositAlreadyPaid: the deposit page refuses a deal that is paid.
AlreadyPaid(f) ==
  \/ ref[f].paidAt \/ ref[f].status = "Slot Locked"
  \/ ref[f].status = "Awaiting Payment" /\ ~ref[f].requestedAt

\* POST /api/checkout/deposit: open a session, or get the same one back under
\* Stripe's idempotency key, and record a NEW pending row for it (the row of
\* an earlier visit has an empty PI, so it is never selected for reuse).  One
\* step: the buyer has no session to pay before the handler returns.  The Referral
\* is stamped on the first request only, and a failed stamp is swallowed.
Mint(s, r) ==
  /\ row[r] = Absent /\ ~AlreadyPaid(RefOf[s])
  /\ session' = [session EXCEPT ![s] = IF @ = "none" THEN "open" ELSE @]
  /\ row' = [row EXCEPT ![r] = [st |-> "pending", ses |-> s, pi |-> None]]
  /\ \/ ref[RefOf[s]].requestedAt /\ UNCHANGED <<ref, faults>>
     \/ /\ ~ref[RefOf[s]].requestedAt /\ UNCHANGED faults
        /\ ref' = [ref EXCEPT ![RefOf[s]].status = "Awaiting Payment",
                              ![RefOf[s]].requestedAt = TRUE]
     \/ Fault /\ UNCHANGED ref
  /\ UNCHANGED <<refunded, inbox, claim, worker, effects>>

\* The buyer pays: the charge exists and Stripe owes every endpoint an event.
Pay(s) ==
  /\ session[s] = "open"
  /\ session' = [session EXCEPT ![s] = "paid"]
  /\ inbox' = inbox \cup [kind : {"paid"}, ep : Endpoints, ses : {s}]
  /\ UNCHANGED <<refunded, row, ref, claim, worker, effects, faults>>

\* 24 hours pass: no PaymentIntent ever existed, or a declined one is canceled.
Expire(s) ==
  /\ session[s] = "open"
  /\ \E end \in {"expired", "canceled"} : session' = [session EXCEPT ![s] = end]
  /\ UNCHANGED <<refunded, inbox, row, ref, claim, worker, effects, faults>>

\* An operator refunds the charge in the Stripe dashboard.
Refund(s) ==
  /\ session[s] = "paid" /\ s \notin refunded
  /\ Cardinality(refunded) < MaxRefunds
  /\ refunded' = refunded \cup {s}
  /\ inbox' = inbox \cup [kind : {"refund"}, ep : Endpoints, ses : {s}]
  /\ UNCHANGED <<session, row, ref, claim, worker, effects, faults>>

\* POST /api/rancher/referrals/[id]/accept: gated on Deposit Paid At.
Accept(f) ==
  /\ ref[f].paidAt /\ ~ref[f].acceptedAt
  /\ ref' = [ref EXCEPT ![f].acceptedAt = TRUE, ![f].status = "Slot Locked"]
  /\ UNCHANGED <<session, refunded, inbox, row, claim, worker, effects, faults>>

-----------------------------------------------------------------------------
(* Webhook delivery.  Stripe redelivers until it gets a 200; the Events     *)
(* table skips only events already processed, so an unacknowledged event    *)
(* can be handled by two invocations at once.                               *)

Deliver(w, ev) ==
  /\ ev \in inbox
  /\ Start(w, [pc |-> IF ev.kind = "paid" THEN "claim" ELSE "refundFind",
               ses |-> ev.ses, row |-> None, ev |-> ev])
  /\ UNCHANGED <<session, refunded, inbox, row, ref, claim, effects, faults>>

\* claimOnce(settle-deposit:<pi>, 60): a loser returns and is acknowledged.
Claim(w) ==
  LET s == worker[w].ses IN
  /\ At(w, "claim")
  /\ \/ /\ claim[s] = None
        /\ claim' = [claim EXCEPT ![s] = w]
        /\ Go(w, "find") /\ UNCHANGED inbox
     \/ /\ claim[s] # None
        /\ Return(w) /\ UNCHANGED claim
     \/ /\ ~RedisReliable
        /\ Go(w, "find") /\ UNCHANGED <<claim, inbox>>
  /\ UNCHANGED <<session, refunded, row, ref, effects, faults>>

\* Seeded fault: the TTL is shorter than the work it protects.
ExpireClaimEarly(s) ==
  /\ claim[s] # None
  /\ claim' = [claim EXCEPT ![s] = None]
  /\ UNCHANGED <<session, refunded, inbox, row, ref, worker, effects, faults>>

\* The 60 s TTL lapses.  A live holder finishes first (maxDuration = 60 where a
\* route names one; an assumption for the Connect webhook, which names none).
ExpireClaim(s) ==
  /\ claim[s] # None
  /\ ~(worker[claim[s]].ses = s /\ worker[claim[s]].pc \in Settling)
  /\ claim' = [claim EXCEPT ![s] = None]
  /\ UNCHANGED <<session, refunded, inbox, row, ref, worker, effects, faults>>

\* Seeded fault: the already-succeeded row is not a reason to return.
FindWithoutAnchor(w) ==
  LET s == worker[w].ses IN
  /\ At(w, "find") /\ UNCHANGED inbox
  /\ \E r \in Rows :
       /\ IF ByPi(s) = {} THEN r \in Pending(RefOf[s]) ELSE r \in ByPi(s)
       /\ worker' = [worker EXCEPT ![w].row = r,
                       ![w].pc = IF ByPi(s) = {} THEN "backflip" ELSE "flip"]
  /\ UNCHANGED <<session, refunded, row, ref, claim, effects, faults>>

\* markDepositSucceeded, the lookups: the row with this PI, else a pending row
\* of the same deal (to be backfilled), else none at all.
Find(w) ==
  LET s == worker[w].ses
      f == RefOf[s]
  IN
  /\ At(w, "find")
  /\ \/ \E r \in ByPi(s) :
          \/ row[r].st = "succeeded" /\ Return(w)
          \/ /\ row[r].st # "succeeded" /\ UNCHANGED inbox
             /\ worker' = [worker EXCEPT ![w].pc = "flip", ![w].row = r]
     \/ /\ ByPi(s) = {} /\ UNCHANGED inbox
        /\ \E r \in Pending(f) :
             worker' = [worker EXCEPT ![w].pc = "backflip", ![w].row = r]
     \/ /\ ByPi(s) = {} /\ Pending(f) = {} /\ UNCHANGED inbox
        /\ Go(w, "stamp")
  /\ UNCHANGED <<session, refunded, row, ref, claim, effects, faults>>

\* Seeded fault: the settled row keeps its empty PaymentIntent.
FlipWithoutBackfill(w) ==
  /\ worker[w].pc \in {"flip", "backflip"} /\ Go(w, "stamp")
  /\ row' = [row EXCEPT ![worker[w].row].st = "succeeded"]
  /\ UNCHANGED <<stripe, ref, claim, effects, faults>>

\* markDepositSucceeded, the write: by row id, whatever the row is by now.
Flip(w) ==
  LET r == worker[w].row IN
  /\ \/ /\ At(w, "flip")
        /\ row' = [row EXCEPT ![r].st = "succeeded"]
     \/ /\ At(w, "backflip")
        /\ row' = [row EXCEPT ![r].st = "succeeded", ![r].pi = worker[w].ses]
  /\ Go(w, "stamp")
  /\ UNCHANGED <<stripe, ref, claim, effects, faults>>

\* The Referral stamp: Status is set to Awaiting Payment whatever it was.  A
\* failed write is swallowed (the FROZEN-MONEY window).
Stamp(w) ==
  /\ At(w, "stamp") /\ Go(w, "finish")
  /\ \/ /\ ref' = [ref EXCEPT ![RefOf[worker[w].ses]].status = "Awaiting Payment",
                              ![RefOf[worker[w].ses]].paidAt = TRUE]
        /\ UNCHANGED faults
     \/ Fault /\ UNCHANGED ref
  /\ UNCHANGED <<stripe, row, claim, effects>>

\* Funnel, emails, operator signal, audit; then the acknowledgement.
Finish(w) ==
  LET s == worker[w].ses IN
  /\ At(w, "finish")
  /\ effects' = [effects EXCEPT ![s] = IF @ < MaxEffects THEN @ + 1 ELSE @]
  /\ Return(w)
  /\ UNCHANGED <<session, refunded, row, ref, claim, faults>>

\* The invocation dies, or a read or write throws out of it: 5xx, and the
\* event stays owed.  The claim is not released.  The reaper catches a throw of
\* its settle and flags the row requires_webhook_replay, a Status option the
\* base does not have: the value is dropped and the row stays pending.
Crash(w) ==
  /\ ~At(w, "idle") /\ Fault
  /\ worker' = [worker EXCEPT ![w] = Idle]
  /\ UNCHANGED <<stripe, row, ref, claim, effects>>

-----------------------------------------------------------------------------
(* charge.refunded: markDepositRefunded and restoreReferralAfterRefund. *)

RefundFind(w) ==
  LET s == worker[w].ses IN
  /\ At(w, "refundFind")
  /\ \/ ByPi(s) = {} /\ Return(w)
     \/ \E r \in ByPi(s) :
          \/ row[r].st = "refunded" /\ Return(w)
          \/ /\ row[r].st # "refunded" /\ UNCHANGED inbox
             /\ worker' = [worker EXCEPT ![w].pc = "refundWrite", ![w].row = r]
  /\ UNCHANGED <<session, refunded, row, ref, claim, effects, faults>>

RefundWrite(w) ==
  /\ At(w, "refundWrite") /\ Go(w, "restoreRead")
  /\ row' = [row EXCEPT ![worker[w].row].st = "refunded"]
  /\ UNCHANGED <<stripe, ref, claim, effects, faults>>

\* Restore only once per Referral (Refunded At), and only from the statuses a
\* deposit can be in; anything else is an operator signal.  A failed read is
\* swallowed by markDepositRefunded.
RestoreRead(w) ==
  LET f == DealOf(worker[w].row) IN
  /\ At(w, "restoreRead")
  /\ \/ /\ IF ref[f].refundedAt \/ ref[f].status = "Open"
           THEN Return(w)
           ELSE Go(w, "restoreWrite") /\ UNCHANGED inbox
        /\ UNCHANGED faults
     \/ Fault /\ Return(w)
  /\ UNCHANGED <<session, refunded, row, ref, claim, effects>>

\* Seeded fault: the dropped Status option is stored after all.
RestoreWriteStatus(w) ==
  /\ At(w, "restoreWrite") /\ Return(w)
  /\ ref' = [ref EXCEPT ![DealOf(worker[w].row)].status = "Refunded"]
  /\ UNCHANGED <<session, refunded, row, claim, effects, faults>>

\* refundReferralClearFields: the base has no Refunded option for Status, so
\* the status keeps its value.  A failure is swallowed by markDepositRefunded.
RestoreWrite(w) ==
  LET f == DealOf(worker[w].row) IN
  /\ At(w, "restoreWrite") /\ Return(w)
  /\ \/ /\ ref' = [ref EXCEPT ![f].paidAt = FALSE, ![f].acceptedAt = FALSE,
                              ![f].refundedAt = TRUE]
        /\ UNCHANGED faults
     \/ Fault /\ UNCHANGED ref
  /\ UNCHANGED <<session, refunded, row, claim, effects>>

-----------------------------------------------------------------------------
(* orphan-checkout-reaper: rows pending for 48 h, so their session (24 h) is *)
(* no longer open.  Then the W1 cross-check of settled rows.                 *)

\* Seeded faults: every PaymentIntent is taken for dead, or for paid.
AfterPiDead(s) == "abandonPi"
AfterPiPaid(s) == "claim"

\* What the reaper does once it knows the PaymentIntent.
AfterPi(s) == IF session[s] = "paid" THEN "claim" ELSE "abandonPi"

Reap(w, r) ==
  LET s == IF row[r].pi = None THEN row[r].ses ELSE row[r].pi IN
  /\ row[r].st = "pending" /\ session[s] # "open"
  /\ Start(w, [pc |-> IF row[r].pi # None THEN AfterPi(s)
                      ELSE IF session[s] = "expired" THEN "abandonRow"
                      ELSE "backfill",
               ses |-> s, row |-> r, ev |-> None])
  /\ UNCHANGED <<stripe, row, ref, claim, effects, faults>>

\* The PI of the row's own session is written over whatever the row holds.
Backfill(w) ==
  LET s == worker[w].ses IN
  /\ At(w, "backfill") /\ Go(w, AfterPi(s))
  /\ \/ row' = [row EXCEPT ![worker[w].row].pi = s] /\ UNCHANGED faults
     \/ Fault /\ UNCHANGED row
  /\ UNCHANGED <<stripe, ref, claim, effects>>

\* markDepositRowAbandoned and markDepositAbandoned: re-read, then write.
AbandonRead(w) ==
  /\ \E r \in Rows :
       /\ \/ At(w, "abandonRow") /\ r = worker[w].row
          \/ At(w, "abandonPi") /\ r \in ByPi(worker[w].ses)
       /\ IF row[r].st = "pending"
          THEN worker' = [worker EXCEPT ![w].pc = "abandonWrite", ![w].row = r]
          ELSE worker' = [worker EXCEPT ![w] = Idle]
  /\ UNCHANGED <<stripe, row, ref, claim, effects, faults>>

\* The PI the row was backfilled with is no longer there.
AbandonMiss(w) ==
  /\ At(w, "abandonPi") /\ ByPi(worker[w].ses) = {}
  /\ worker' = [worker EXCEPT ![w] = Idle]
  /\ UNCHANGED <<stripe, row, ref, claim, effects, faults>>

AbandonWrite(w) ==
  /\ At(w, "abandonWrite")
  /\ row' = [row EXCEPT ![worker[w].row].st = "abandoned"]
  /\ worker' = [worker EXCEPT ![w] = Idle]
  /\ UNCHANGED <<stripe, ref, claim, effects, faults>>

\* Seeded fault: the cross-check also takes rows that were never settled.
HealPickAny(w, r) ==
  /\ row[r].st # "absent"
  /\ Start(w, [pc |-> "healRead", ses |-> row[r].ses, row |-> r, ev |-> None])
  /\ UNCHANGED <<stripe, row, ref, claim, effects, faults>>

\* W1: a settled row whose Referral has no Deposit Paid At gets it re-stamped.
\* The ledger query, the Referral read and the write are three round trips.
HealPick(w, r) ==
  /\ row[r].st = "succeeded"
  /\ Start(w, [pc |-> "healRead", ses |-> row[r].ses, row |-> r, ev |-> None])
  /\ UNCHANGED <<stripe, row, ref, claim, effects, faults>>

\* Seeded fault: the cross-check takes every Referral for healthy.
HealReadHealthy(w) ==
  /\ At(w, "healRead")
  /\ worker' = [worker EXCEPT ![w] = Idle]
  /\ UNCHANGED <<stripe, row, ref, claim, effects, faults>>

HealRead(w) ==
  /\ At(w, "healRead")
  /\ IF ref[RefOf[worker[w].ses]].paidAt
     THEN worker' = [worker EXCEPT ![w] = Idle]
     ELSE Go(w, "healWrite")
  /\ UNCHANGED <<stripe, row, ref, claim, effects, faults>>

HealWrite(w) ==
  /\ At(w, "healWrite")
  /\ ref' = [ref EXCEPT ![RefOf[worker[w].ses]].paidAt = TRUE]
  /\ worker' = [worker EXCEPT ![w] = Idle]
  /\ UNCHANGED <<stripe, row, claim, effects, faults>>

-----------------------------------------------------------------------------
WorkerStep(w) ==
  \/ Claim(w) \/ Find(w) \/ Flip(w) \/ Stamp(w) \/ Finish(w)
  \/ RefundFind(w) \/ RefundWrite(w) \/ RestoreRead(w) \/ RestoreWrite(w)
  \/ Backfill(w) \/ AbandonRead(w) \/ AbandonMiss(w) \/ AbandonWrite(w)
  \/ HealRead(w) \/ HealWrite(w)

Next ==
  \/ \E s \in Sessions : Pay(s) \/ Expire(s) \/ Refund(s) \/ ExpireClaim(s)
  \/ \E s \in Sessions, r \in Rows : Mint(s, r)
  \/ \E f \in Referrals : Accept(f)
  \/ \E w \in Workers, ev \in Events : Deliver(w, ev)
  \/ \E w \in Workers, r \in Rows : Reap(w, r) \/ HealPick(w, r)
  \/ \E w \in Workers : WorkerStep(w) \/ Crash(w)

Spec == Init /\ [][Next]_vars

\* Stripe redelivers until acknowledged and the cron runs every night, however
\* busy the deployment is (SF: the model's few Workers may be taken meanwhile);
\* an invocation that does not die proceeds; the TTL lapses.
Fairness ==
  /\ \A w \in Workers : WF_vars(WorkerStep(w))
  /\ \A s \in Sessions : WF_vars(ExpireClaim(s))
  /\ \A ev \in Events : SF_vars(\E w \in Workers : Deliver(w, ev))
  /\ \A r \in Rows : SF_vars(\E w \in Workers : Reap(w, r))
  /\ \A r \in Rows : SF_vars(\E w \in Workers : HealPick(w, r))

FairSpec == Spec /\ Fairness

-----------------------------------------------------------------------------
(* Properties. *)

PcValues == {"idle", "claim", "find", "flip", "backflip", "stamp", "finish",
             "refundFind", "refundWrite", "restoreRead", "restoreWrite",
             "backfill", "abandonRow", "abandonPi", "abandonWrite",
             "healRead", "healWrite"}

SessionStates == {"none", "open", "paid", "expired", "canceled"}
RowRecord  == [st : {"absent", "pending", "succeeded", "refunded", "abandoned"},
               ses : Sessions \cup {None}, pi : Sessions \cup {None}]
DealRecord == [status : Statuses, requestedAt : BOOLEAN, paidAt : BOOLEAN,
               acceptedAt : BOOLEAN, refundedAt : BOOLEAN]
Invocation == [pc : PcValues, ses : Sessions \cup {None},
               row : Rows \cup {None}, ev : Events \cup {None}]

\* Every record the code keeps has the shape the code writes.
TypeOK ==
  /\ session \in [Sessions -> SessionStates]
  /\ refunded \subseteq Sessions
  /\ inbox \subseteq Events
  /\ row \in [Rows -> RowRecord]
  /\ ref \in [Referrals -> DealRecord]
  /\ claim \in [Sessions -> Workers \cup {None}]
  /\ worker \in [Workers -> Invocation]
  /\ effects \in [Sessions -> Nat]
  /\ faults \in 0..MaxFaults

Charged(f) == \E s \in Sessions : RefOf[s] = f /\ session[s] = "paid"

\* The ledger books a deposit only for a deal whose buyer was charged, whichever
\* invocation wrote the row and however stale its lookup was (markDepositSucceeded).
BookedIsCharged ==
  \A r \in Rows : row[r].st = "succeeded" => Charged(DealOf(r))

\* claimOnce serializes settlement: no two invocations are past the claim of one
\* PaymentIntent (the simultaneous dual-webhook window of settleBuyerDeposit).
SettlesAlone ==
  \A v, w \in Workers :
    /\ worker[v].pc \in Settling /\ worker[w].pc \in Settling
    /\ worker[v].ses = worker[w].ses
    => v = w

\* "A redelivery can never double-settle or double-notify": the funnel event,
\* the emails and the operator signal go out at most once per PaymentIntent.
NotifiedOnce == \A s \in Sessions : effects[s] <= 1

\* markDepositRowAbandoned: "a concurrent webhook settle wins the race"; a settled
\* row is never downgraded to abandoned by a delayed pass of the reaper.
SettleWinsRace ==
  [][\A r \in Rows : row[r].st = "succeeded" => row'[r].st # "abandoned"]_vars

\* With one row to settle, an invocation never notifies the buyer of a deposit
\* the ledger does not hold: the flip precedes the effects, and nothing but a
\* refund takes it back.
NotifiedIsBooked ==
  \A w \in Workers : At(w, "finish") =>
    \E r \in Rows : row[r].pi = worker[w].ses /\ row[r].st \in {"succeeded", "refunded"}

\* Money that reached Stripe reaches the deal: webhook, redelivery, the reaper's
\* settle or its W1 re-stamp gets 'Deposit Paid At' there in the end.
PaidSurfaces ==
  \A s \in Sessions : session[s] = "paid" ~> (ref[RefOf[s]].paidAt \/ s \in refunded)

\* What every event, row and invocation in flight knows: the inductive invariant
\* behind BookedIsCharged and ImplementsMoneyTruth.
StripeSound ==
  /\ \A s \in refunded : session[s] = "paid"
  /\ \A ev \in inbox : session[ev.ses] = "paid" /\ (ev.kind = "refund" => ev.ses \in refunded)
SoundRow(r) ==
  /\ row[r].st # "absent" => row[r].ses \in Sessions
  /\ row[r].pi # None => row[r].st # "absent" /\ RefOf[row[r].pi] = DealOf(r)
  /\ row[r].st = "succeeded" => Charged(DealOf(r))
RowSound == \A r \in Rows : SoundRow(r)
HasRow(w) == /\ worker[w].row \in Rows
             /\ row[worker[w].row].st # "absent"
             /\ RefOf[worker[w].ses] = DealOf(worker[w].row)
InvocationSound(w) ==
  /\ ~At(w, "idle") => worker[w].ses \in Sessions
  /\ worker[w].pc \in Settling \cup {"claim"} => session[worker[w].ses] = "paid"
  /\ worker[w].pc \in {"refundFind", "refundWrite", "restoreRead", "restoreWrite"}
       => worker[w].ses \in refunded
  /\ worker[w].pc \in {"healRead", "healWrite"} => Charged(RefOf[worker[w].ses])
  /\ worker[w].pc \in {"flip", "backflip", "refundWrite", "restoreRead", "restoreWrite",
                       "backfill", "abandonRow", "abandonWrite"} => HasRow(w)
WorkerSound == \A w \in Workers : InvocationSound(w)
MoneySound == StripeSound /\ RowSound /\ WorkerSound

\* The invariant behind SettlesAlone: whoever is past the claim holds it.
HoldsClaim ==
  \A w \in Workers : worker[w].pc \in Settling => claim[worker[w].ses] = w

\* Settlement implements MoneyTruth: the stamp follows a charge, its removal a refund.
MT == INSTANCE MoneyTruth WITH
        charged  <- {s \in Sessions : session[s] = "paid"},
        returned <- refunded,
        stamped  <- {f \in Referrals : ref[f].paidAt}
ImplementsMoneyTruth == MT!Spec

=============================================================================
