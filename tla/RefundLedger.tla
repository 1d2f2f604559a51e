----------------------------- MODULE RefundLedger -----------------------------
(***************************************************************************)
(* Refunds of one captured deposit, whole or in part: what Stripe returned *)
(* to the buyer, and what the Payments row says it returned.               *)
(*                                                                         *)
(*   app/api/admin/payments/refund/[paymentId]   the operator's console    *)
(*   app/api/webhooks/stripe*  charge.refunded   what Stripe reports back  *)
(*   lib/contracts/payments.ts markDepositRefunded, the writer of both     *)
(*                                                                         *)
(* Amounts are in units of the smallest refund.  The NRD gate is left out: *)
(* a request it refuses changes nothing, and any request may override it.  *)
(***************************************************************************)
EXTENDS Naturals, FiniteSets

CONSTANTS
  Captured,       \* capturedTotalCents: what the buyer was charged
  Endpoints,      \* webhook endpoints that receive charge.refunded
  Workers,        \* concurrent invocations
  None,           \* no notice
  MaxRequests,    \* bound: refunds asked for, at the console or the dashboard
  MaxFaults       \* bound: crashes and swallowed failures

ASSUME RefundAssumption ==
  /\ Captured \in Nat \ {0}
  /\ MaxRequests \in Nat /\ MaxFaults \in Nat
  /\ None \notin [ep : Endpoints, total : 1..Captured]

VARIABLES
  returned,  \* Stripe: amount_refunded of the charge
  keys,      \* Stripe: the answer stored under each idempotency key
  notices,   \* Stripe: charge.refunded events not yet acknowledged
  status,    \* Payments: Status of the row
  amount,    \* Payments: Refunded Amount Cents
  restored,  \* Referrals: the deal was reverted (Refunded At)
  worker,    \* invocations in flight
  replayed,  \* history: Stripe answered a request with an earlier refund
  requests, faults

row    == <<status, amount, restored>>
stripe == <<returned, keys, notices>>
vars   == <<stripe, row, worker, replayed, requests, faults>>

\* refund-<paymentId>-<amount>; Full stands for a request without an amount.
Full    == 0
Keys    == 0..Captured
Unused  == [amount |-> 0, partial |-> "no"]
Notices == [ep : Endpoints, total : 1..Captured]
Idle    == [pc |-> "idle", ask |-> Full, already |-> 0, partial |-> "no",
            total |-> 0, notice |-> None]

Init ==
  /\ returned = 0 /\ notices = {} /\ keys = [k \in Keys |-> Unused]
  /\ status = "succeeded" /\ amount = 0 /\ restored = "no"
  /\ worker = [w \in Workers |-> Idle]
  /\ replayed = "no" /\ requests = 0 /\ faults = 0

At(w, pc) == worker[w].pc = pc
Go(w, pc) == worker' = [worker EXCEPT ![w].pc = pc]
\* The handler answers: a delivered event is acknowledged.
Return(w) == /\ worker' = [worker EXCEPT ![w] = Idle]
             /\ notices' = notices \ {worker[w].notice}
Fault     == faults < MaxFaults /\ faults' = faults + 1
Request   == requests < MaxRequests /\ requests' = requests + 1
PartOf(a, whole) == IF a < whole THEN "yes" ELSE "no"
\* Stripe moves a to the buyer and reports the new cumulative total.
Move(a)   == /\ returned' = returned + a
             /\ notices' = notices \cup [ep : Endpoints, total : {returned + a}]

-----------------------------------------------------------------------------
(* POST /api/admin/payments/refund/[paymentId].                             *)

\* The row is read once; the cap and partial come from what it said then.
Ask(w, a) ==
  /\ At(w, "idle") /\ Request
  /\ status = "succeeded" /\ amount < Captured
  /\ a <= Captured - amount
  /\ worker' = [worker EXCEPT ![w] =
       [pc |-> "create", ask |-> a, already |-> amount, total |-> 0, notice |-> None,
        partial |-> IF a = Full THEN "no" ELSE PartOf(a, Captured - amount)]]
  /\ UNCHANGED <<stripe, row, replayed, faults>>

\* What Stripe is asked to move: all that is left, or the amount.
Wanted(w) == IF worker[w].ask = Full THEN Captured - returned ELSE worker[w].ask

\* A new key moves money; Stripe refuses more than is left of the charge.
Create(w) ==
  LET k == worker[w].ask IN
  /\ At(w, "create") /\ keys[k] = Unused
  /\ \/ /\ 0 < Wanted(w) /\ Wanted(w) <= Captured - returned
        /\ Move(Wanted(w))
        /\ keys' = [keys EXCEPT ![k] = [amount |-> Wanted(w), partial |-> worker[w].partial]]
        /\ worker' = [worker EXCEPT ![w].pc = "read",
                                    ![w].total = worker[w].already + Wanted(w)]
     \/ /\ ~(0 < Wanted(w) /\ Wanted(w) <= Captured - returned)
        /\ worker' = [worker EXCEPT ![w] = Idle]
        /\ UNCHANGED stripe
  /\ UNCHANGED <<row, replayed, requests, faults>>

\* A stored key: the first refund is answered again and nothing moves; with
\* other parameters (metadata.partial) it is an idempotency error.
Replay(w) ==
  LET k == worker[w].ask IN
  /\ At(w, "create") /\ keys[k] # Unused
  /\ \/ /\ keys[k].partial = worker[w].partial /\ replayed' = "yes"
        /\ worker' = [worker EXCEPT ![w].pc = "read",
                                    ![w].total = worker[w].already + keys[k].amount]
     \/ /\ keys[k].partial # worker[w].partial /\ UNCHANGED replayed
        /\ worker' = [worker EXCEPT ![w] = Idle]
  /\ UNCHANGED <<stripe, row, requests, faults>>

\* 24 hours later Stripe forgets the key.
Forget(k) ==
  /\ keys[k] # Unused
  /\ keys' = [keys EXCEPT ![k] = Unused]
  /\ UNCHANGED <<returned, notices, row, worker, replayed, requests, faults>>

\* The operator refunds in Stripe's own dashboard.
Dashboard(a) ==
  /\ Request /\ 0 < a /\ a <= Captured - returned
  /\ Move(a)
  /\ UNCHANGED <<keys, row, worker, replayed, faults>>

\* charge.refunded carries the total of the time it was raised.
Deliver(w, ev) ==
  /\ At(w, "idle") /\ ev \in notices
  /\ worker' = [worker EXCEPT ![w] =
       [pc |-> "read", ask |-> Full, already |-> 0, total |-> ev.total, notice |-> ev,
        partial |-> PartOf(ev.total, Captured)]]
  /\ UNCHANGED <<stripe, row, replayed, requests, faults>>

-----------------------------------------------------------------------------
(* markDepositRefunded: read, write, restore. *)

\* Seeded faults: every refund is taken for a full one, or none is.
IsFullAlways(w) == worker[w].total > 0
IsFullNever(w)  == worker[w].total > Captured

\* isFullRefund.
IsFull(w) ==
  /\ worker[w].partial = "no"
  /\ worker[w].total = 0 \/ worker[w].total >= Captured

\* Once the row is refunded a full refund is a no-op.
MarkRead(w) ==
  /\ At(w, "read")
  /\ IF IsFull(w) /\ status = "refunded"
     THEN Return(w)
     ELSE Go(w, "write") /\ UNCHANGED notices
  /\ UNCHANGED <<returned, keys, row, replayed, requests, faults>>

\* Seeded faults: the write adds to the row, or spells the status another way.
MarkWriteTwice(w) ==
  /\ At(w, "write") /\ amount' = amount + worker[w].total
  /\ status' = IF IsFull(w) THEN "refunded" ELSE status
  /\ IF IsFull(w) THEN Go(w, "restore") /\ UNCHANGED notices ELSE Return(w)
  /\ UNCHANGED <<returned, keys, restored, replayed, requests, faults>>
MarkWriteStatus(w) ==
  /\ At(w, "write") /\ amount' = worker[w].total
  /\ status' = IF IsFull(w) THEN "refunded" ELSE "partially_refunded"
  /\ IF IsFull(w) THEN Go(w, "restore") /\ UNCHANGED notices ELSE Return(w)
  /\ UNCHANGED <<returned, keys, restored, replayed, requests, faults>>

\* The amount is overwritten; a partial refund leaves the status.
MarkWrite(w) ==
  /\ At(w, "write") /\ amount' = worker[w].total
  /\ status' = IF IsFull(w) THEN "refunded" ELSE status
  /\ IF IsFull(w) THEN Go(w, "restore") /\ UNCHANGED notices ELSE Return(w)
  /\ UNCHANGED <<returned, keys, restored, replayed, requests, faults>>

\* restoreReferralAfterRefund, once per deal; a failure is swallowed.
Restore(w) ==
  /\ At(w, "restore") /\ Return(w)
  /\ \/ restored' = "yes" /\ UNCHANGED faults
     \/ Fault /\ UNCHANGED restored
  /\ UNCHANGED <<returned, keys, status, amount, replayed, requests>>

\* The invocation dies, or a read or write throws: the console's ledger write
\* is lost, a webhook answers 5xx and its event stays owed.
Crash(w) ==
  /\ ~At(w, "idle") /\ Fault
  /\ worker' = [worker EXCEPT ![w] = Idle]
  /\ UNCHANGED <<stripe, row, replayed, requests>>

-----------------------------------------------------------------------------
Step(w) == Create(w) \/ Replay(w) \/ MarkRead(w) \/ MarkWrite(w) \/ Restore(w)

Next ==
  \/ \E w \in Workers, a \in Keys : Ask(w, a)
  \/ \E k \in Keys : Forget(k) \/ Dashboard(k)
  \/ \E w \in Workers, ev \in Notices : Deliver(w, ev)
  \/ \E w \in Workers : Step(w) \/ Crash(w)

Spec == Init /\ [][Next]_vars

\* An invocation that does not die proceeds; Stripe redelivers until answered.
Fairness ==
  /\ \A w \in Workers : WF_vars(Step(w))
  /\ \A ev \in Notices : SF_vars(\E w \in Workers : Deliver(w, ev))

FairSpec == Spec /\ Fairness

-----------------------------------------------------------------------------
(* Properties. *)

Invocation == [pc : {"idle", "create", "read", "write", "restore"}, ask : Keys,
               already : Nat, partial : {"yes", "no"}, total : Nat,
               notice : Notices \cup {None}]

\* Every record the code keeps has the shape the code writes.
TypeOK ==
  /\ returned \in 0..Captured
  /\ keys \in [Keys -> [amount : 0..Captured, partial : {"yes", "no"}]]
  /\ notices \subseteq Notices
  /\ status \in {"succeeded", "refunded"} /\ amount \in Nat
  /\ restored \in {"yes", "no"} /\ replayed \in {"yes", "no"}
  /\ worker \in [Workers -> Invocation]
  /\ requests \in 0..MaxRequests /\ faults \in 0..MaxFaults

\* The row never claims more than Stripe returned, so the cap of the refund route
\* is never too low: however the overwrites of 'Refunded Amount Cents' by console
\* and webhook interleave, as long as Stripe answers every request with a refund
\* of its own.
LedgerNotAhead == replayed = "no" => amount <= returned

\* "The gate that decides whether to NUKE the whole Closed Won deal": a row is
\* refunded and a deal reverted only once the whole charge went back.
Whole == status = "refunded" \/ restored = "yes" => returned = Captured
\* The same, as long as Stripe answers every request with a refund of its own.
RevertedIsWhole == replayed = "no" => Whole

\* No refund "silently never landed": when everything went back and the ledger does
\* not say so, each endpoint is still owed the event that will tell it, whatever
\* invocation died with it in hand and whatever other amounts were written meanwhile.
WholeIsOwed ==
  returned = Captured /\ status # "refunded" =>
    [ep : Endpoints, total : {Captured}] \subseteq notices

\* charge.refunded is redelivered until it lands: once everything went back to
\* the buyer, by whatever mix of refunds, the ledger says refunded for good.
WholeRefundLands == returned = Captured ~> [](status = "refunded")

=============================================================================
