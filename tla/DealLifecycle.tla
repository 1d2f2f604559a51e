---------------------------- MODULE DealLifecycle ----------------------------
(***************************************************************************)
(* One deal from the request of its deposit to Closed Won: what the        *)
(* rancher's routes, the buyer's links, Stripe's webhooks and the dunning  *)
(* cron do to its Status and milestones, and to the sessions on which the  *)
(* final balance is charged.                                               *)
(*                                                                         *)
(*   app/api/rancher/referrals/[id]/*, app/api/rancher/quick-action        *)
(*   app/api/checkout/deposit, app/r/f/[token]      the buyer's pages      *)
(*   lib/deal/*, lib/contracts/rancher.ts           transition, recordClose*)
(*   lib/stripeSettlement.ts, lib/refundLifecycle.ts                       *)
(*   app/api/cron/final-invoice-dunning, stuck-referral-reaper             *)
(*                                                                         *)
(* A route is read, gate, write: Airtable has no conditional write, so a   *)
(* worker writes what it decided on a row that may have moved on.  "Open"  *)
(* stands for every Status before the deposit.  The ledger of the deposit  *)
(* is DepositSettlement's, the slot CapacityCounter's.                     *)
(***************************************************************************)
EXTENDS Naturals, FiniteSets

CONSTANTS
  Workers,    \* concurrent invocations
  Sessions,   \* Checkout Sessions of the final balance
  None,       \* no session
  MaxMoves,   \* bound: moves and resends of the rancher, sweeps
  MaxFaults   \* bound: crashes, failed or unanswered requests

ASSUME DealAssumption ==
  None \notin Sessions /\ MaxMoves \in Nat /\ MaxFaults \in Nat

VARIABLES
  deal,      \* the Referral
  deposit,   \* its deposit: "none", "open", "charged", "unstamped", "settled", "refunded"
  session,   \* Stripe: each session is "none", "open", "shown" to the buyer,
             \* "expired" or "paid"
  stored,    \* Stripe: the answer kept under the send route's idempotency key
  inbox,     \* Stripe: paid sessions whose event is not acknowledged
  mint,      \* Redis: final-mint:<referral> is set
  settling,  \* Redis: sessions whose settle-final:<pi> is set
  worker,    \* invocations in flight
  slack,     \* history: how the deal left the usual path, as Slack says
  moves, faults

stripe == <<session, stored, inbox>>
redis  == <<mint, settling>>
bounds == <<moves, faults>>
vars   == <<deal, deposit, stripe, redis, worker, slack, bounds>>

Statuses == {"Open", "Awaiting Payment", "Slot Locked", "Closed Won", "Closed Lost"}
Closed   == {"Closed Won", "Closed Lost"}
\* "raced": the deposit was stamped or restored under a decision in flight.
\* "late": the slot was accepted after the final invoice.  "resent": so was the
\* invoice.  "loud": the operator was told that a move the state machine rejected was
\* written all the same; "unheard": that signal was lost.  "reopened": the rancher put
\* a closed deal back by a move the machine is not asked about.  "kept": a refund
\* met a Status it does not restore, and the deposit stays stamped.  "pending": the
\* deal was won under another decision in flight.  "swept": a cron closed a deal
\* whose deposit was asked for, paid or more.  "strayed": a click opened a session
\* beside one that is not expired, or did not get its own into the row.
Slack == {"raced", "late", "resent", "loud", "unheard", "reopened", "kept", "pending",
          "swept", "strayed"}

Idle == [pc |-> "idle", to |-> "", s |-> None, owed |-> "no"]

\* A deal asked for on the rancher's page; one the matcher made is one that is
\* never swept.
Init ==
  /\ deal = [status |-> "Open", waiting |-> "yes", asked |-> "no", paid |-> "no",
             accepted |-> "no", sent |-> "no", ptr |-> None, final |-> "no"]
  /\ deposit = "none" /\ session = [s \in Sessions |-> "none"] /\ stored = None
  /\ inbox = {} /\ mint = "free" /\ settling = {}
  /\ worker = [w \in Workers |-> Idle]
  /\ slack = {} /\ moves = 0 /\ faults = 0

At(w, pc) == worker[w].pc = pc
In(pcs)   == {w \in Workers : worker[w].pc \in pcs}
Go(w, pc) == worker' = [worker EXCEPT ![w].pc = pc]
Put(w, rec) == worker' = [worker EXCEPT ![w] = rec]
Return(w) == Put(w, Idle)
\* Bound: what fails fails alone, and from then on invocations come one by one.
Fault     == faults < MaxFaults /\ Cardinality(Workers \ In({"idle"})) = 1 /\ faults' = faults + 1
Move      == moves < MaxMoves /\ moves' = moves + 1
Begin(w, rec) == At(w, "idle") /\ (faults > 0 => In({"idle"}) = Workers) /\ Put(w, rec)
Note(why, cond) == slack' = IF cond THEN slack \cup {why} ELSE slack
Paid == {s \in Sessions : session[s] = "paid"}
Live == {s \in Sessions : session[s] \in {"open", "shown", "paid"}}

Invoicing == {"sendClaim", "sendMint", "sendWrite", "clickLook", "clickClaim", "clickMint"}
Deciding  == {"machine", "write", "fallback", "ask", "sweep"}

-----------------------------------------------------------------------------
(* lib/deal/transition.ts *)

\* canTransition on the statuses' states: forward, or out.
CanTransition(from, to) ==
  LET rank == [s \in Statuses |-> CASE s = "Open" -> 0 [] s = "Awaiting Payment" -> 1
                                    [] s = "Slot Locked" -> 2 [] OTHER -> 3]
  IN  from \notin Closed /\ (to \in Closed \cup {"Open"} \/ rank[to] > rank[from])

Rejects(to) == deal.status # to /\ ~CanTransition(deal.status, to)

\* transition reads the deal itself.  When the machine rejects, every caller falls
\* back to a write of its own.
Machine(w) ==
  /\ At(w, "machine") /\ Go(w, IF Rejects(worker[w].to) THEN "fallback" ELSE "write")
  /\ UNCHANGED <<deal, deposit, stripe, redis, slack, bounds>>

\* The status asked for, over whatever the row holds by now; then, of a fallback, a
\* signal.
Write(w) ==
  LET to == worker[w].to IN
  /\ \/ At(w, "write") /\ Return(w)
     \/ At(w, "fallback") /\ Go(w, "signal")
  /\ deal' = [deal EXCEPT !.status = to,
                          !.accepted = IF to = "Slot Locked" THEN "yes" ELSE @]
  /\ slack' = slack \cup (IF to = "Slot Locked" /\ deal.sent = "yes" THEN {"late"} ELSE {})
                    \cup (IF to = "Closed Won" /\ In(Deciding) # {w} THEN {"pending"} ELSE {})
  /\ UNCHANGED <<deposit, stripe, redis, bounds>>

\* A failure is swallowed, and its key silences the next signal of the deal for an
\* hour.
Signal(w) ==
  /\ At(w, "signal") /\ Return(w)
  /\ \/ Note("loud", TRUE) /\ UNCHANGED faults
     \/ "unheard" \in slack /\ UNCHANGED <<slack, faults>>
     \/ Fault /\ Note("unheard", TRUE)
  /\ UNCHANGED <<deal, deposit, stripe, redis, moves>>

-----------------------------------------------------------------------------
(* The rancher's moves: dashboard PATCH, e-mailed quick actions, confirm-   *)
(* payment, accept.                                                         *)

\* The machine has no state for 'Awaiting Payment' and is not asked about 'Negotiation';
\* 'Rancher Contacted' is an "Open" it is asked about.
Rails(to) == CASE to = "Awaiting Payment" -> {"write"}
               [] to = "Open" -> {"machine", "write"}
               [] OTHER -> {"machine"}

\* isDashboardExitBlocked, and a close repeated is a no-op.
Patch(w, to) ==
  /\ deal.paid = "yes" => to \in {"Closed Won", "Awaiting Payment"}
  /\ ~(to \in Closed /\ to = deal.status) /\ Move
  /\ \E pc \in Rails(to) : /\ Begin(w, [Idle EXCEPT !.pc = pc, !.to = to])
                          /\ Note("reopened", pc = "write" /\ deal.status \in Closed)
  /\ UNCHANGED <<deal, deposit, stripe, redis, faults>>

\* Seeded fault: the e-mailed links forget the deposit lock.
QuickUnlocked(w, to) ==
  /\ deal.status \notin Closed /\ Move
  /\ Begin(w, [Idle EXCEPT !.pc = "write", !.to = to])
  /\ UNCHANGED <<deal, deposit, stripe, redis, slack, faults>>

\* isDepositLocked; recordClose writes without the machine.
Quick(w, to) ==
  /\ deal.paid = "no" /\ deal.status \notin Closed /\ Move
  /\ Begin(w, [Idle EXCEPT !.pc = IF to = "Open" THEN "machine" ELSE "write", !.to = to])
  /\ UNCHANGED <<deal, deposit, stripe, redis, slack, faults>>

\* confirm-payment: not while a deposit is requested and unpaid.
Confirm(w) ==
  /\ deal.status = "Awaiting Payment" /\ ~(deal.asked = "yes" /\ deal.paid = "no") /\ Move
  /\ Begin(w, [Idle EXCEPT !.pc = "write", !.to = "Closed Won"])
  /\ UNCHANGED <<deal, deposit, stripe, redis, slack, faults>>

\* Seeded fault: the machine is not asked, so nobody hears of a rejection.
AcceptSilent(w) ==
  /\ deal.paid = "yes" /\ deal.accepted = "no"
  /\ Begin(w, [Idle EXCEPT !.pc = "write", !.to = "Slot Locked"])
  /\ UNCHANGED <<deal, deposit, stripe, redis, slack, bounds>>

\* Whatever the status: Deposit Paid At is the gate.
Accept(w) ==
  /\ deal.paid = "yes" /\ deal.accepted = "no"
  /\ Begin(w, [Idle EXCEPT !.pc = "machine", !.to = "Slot Locked"])
  /\ UNCHANGED <<deal, deposit, stripe, redis, slack, bounds>>

-----------------------------------------------------------------------------
(* The deposit. *)

\* request-deposit: whatever the status, and again with ?resend=true.
Request(w) ==
  /\ deal.paid = "no" /\ Move
  /\ Begin(w, [Idle EXCEPT !.pc = "ask"]) /\ Note("reopened", deal.status \in Closed)
  /\ UNCHANGED <<deal, deposit, stripe, redis, faults>>

\* isDepositAlreadyPaid.
AlreadyPaid ==
  \/ deal.paid = "yes" \/ deal.status = "Slot Locked"
  \/ deal.status = "Awaiting Payment" /\ deal.asked = "no"

\* The deposit page opens a session, then stamps the request if it is the first.
Visit(w) ==
  /\ ~AlreadyPaid /\ deal.status \notin Closed /\ deposit = "none" /\ deposit' = "open"
  /\ Begin(w, IF deal.asked = "no" THEN [Idle EXCEPT !.pc = "ask"] ELSE Idle)
  /\ UNCHANGED <<deal, stripe, redis, slack, bounds>>

\* Both stamps are written together; a failure is swallowed.
Ask(w) ==
  /\ At(w, "ask") /\ Return(w)
  /\ \/ deal' = [deal EXCEPT !.status = "Awaiting Payment", !.asked = "yes"] /\ UNCHANGED faults
     \/ Fault /\ UNCHANGED deal
  /\ UNCHANGED <<deposit, stripe, redis, slack, moves>>

Charge ==
  /\ deposit = "open" /\ deposit' = "charged"
  /\ UNCHANGED <<deal, stripe, redis, worker, slack, bounds>>

\* settleBuyerDeposit's stamp of the Referral; a failure is swallowed.
Stamp ==
  /\ deposit = "charged"
  /\ \/ /\ deal' = [deal EXCEPT !.status = "Awaiting Payment", !.paid = "yes"]
        /\ deposit' = "settled" /\ Note("raced", In(Deciding) # {}) /\ UNCHANGED faults
     \/ /\ faults < MaxFaults /\ faults' = faults + 1 /\ deposit' = "unstamped"
        /\ UNCHANGED <<deal, slack>>
  /\ UNCHANGED <<stripe, redis, worker, moves>>

\* The reaper's W1 pass: the payment is stamped, the Status left alone.
Restamp ==
  /\ deposit = "unstamped" /\ deposit' = "settled"
  /\ deal' = [deal EXCEPT !.paid = "yes"] /\ Note("raced", In(Deciding) # {})
  /\ UNCHANGED <<stripe, redis, worker, bounds>>

\* Seeded fault: the Status the base has no option for.
RefundStatus ==
  /\ deposit = "settled" /\ deposit' = "refunded"
  /\ deal' = [deal EXCEPT !.status = "Refunded", !.paid = "no", !.accepted = "no"]
  /\ UNCHANGED <<stripe, redis, worker, slack, bounds>>

Restorable == {"Closed Won", "Awaiting Payment", "Slot Locked"}

\* restoreReferralAfterRefund clears the milestones of the deposit; the base has no
\* option 'Refunded', so the Status stays.
Refund ==
  /\ deposit = "settled" /\ deposit' = "refunded"
  /\ IF deal.status \in Restorable
     THEN deal' = [deal EXCEPT !.paid = "no", !.accepted = "no"]
          /\ Note("raced", In(Invoicing) # {})
     ELSE Note("kept", TRUE) /\ UNCHANGED deal
  /\ UNCHANGED <<stripe, redis, worker, bounds>>

-----------------------------------------------------------------------------
(* send-final-invoice. *)

\* Seeded fault: the gate on Status alone.
CanInvoiceAnyPaid == deal.status # "Closed Lost"

\* canSendFinalInvoice.
CanInvoice == deal.status # "Closed Lost" /\ deal.paid = "yes"

Send(w) ==
  /\ CanInvoice
  /\ \/ deal.sent = "no" /\ UNCHANGED <<slack, moves>>
     \/ deal.sent = "yes" /\ Move /\ Note("resent", TRUE)
  /\ Begin(w, [Idle EXCEPT !.pc = "sendClaim"])
  /\ UNCHANGED <<deal, deposit, stripe, redis, faults>>

\* Seeded fault: two clicks mint side by side.
SendUnclaimed(w) ==
  /\ At(w, "sendClaim") /\ Go(w, "sendMint")
  /\ UNCHANGED <<deal, deposit, stripe, redis, slack, bounds>>

\* The loser answers with the winner's link, or asks to try again.
SendClaim(w) ==
  /\ At(w, "sendClaim")
  /\ IF mint = "held" THEN Return(w) /\ UNCHANGED mint ELSE Go(w, "sendMint") /\ mint' = "held"
  /\ UNCHANGED <<deal, deposit, stripe, settling, slack, bounds>>

\* A session that Stripe has never opened before.
Fresh(s) == session[s] = "none"
Show(s)  == session' = [session EXCEPT ![s] = IF @ = "open" THEN "shown" ELSE @]

\* The key is fixed: while Stripe keeps its answer it gives the same session back.
SendMint(w) ==
  /\ At(w, "sendMint")
  /\ \/ /\ stored # None /\ Put(w, [worker[w] EXCEPT !.pc = "sendWrite", !.s = stored])
        /\ UNCHANGED <<session, stored>>
     \/ \E s \in Sessions :
          /\ stored = None /\ Fresh(s) /\ session' = [session EXCEPT ![s] = "open"]
          /\ stored' = s /\ Put(w, [worker[w] EXCEPT !.pc = "sendWrite", !.s = s])
  /\ UNCHANGED <<deal, deposit, inbox, redis, slack, bounds>>

\* Seeded fault: the status is left to the accept ("LOAD-BEARING").
SendWriteBare(w) ==
  /\ At(w, "sendWrite") /\ Return(w) /\ Show(worker[w].s)
  /\ deal' = [deal EXCEPT !.sent = "yes", !.ptr = worker[w].s]
  /\ UNCHANGED <<deposit, stored, inbox, redis, slack, bounds>>

\* One write, over whatever the Status is.  A failure is swallowed, and leaves the
\* link that is mailed without a balance to charge.
SendWrite(w) ==
  LET s == worker[w].s IN
  /\ At(w, "sendWrite") /\ Return(w)
  /\ \/ /\ deal' = [deal EXCEPT !.status = "Awaiting Payment", !.sent = "yes", !.ptr = s]
        /\ Show(s) /\ UNCHANGED faults
     \/ Fault /\ UNCHANGED <<deal, session>>
  /\ UNCHANGED <<deposit, stored, inbox, redis, slack, moves>>

-----------------------------------------------------------------------------
(* The durable link /r/f. *)

Click(w) ==
  /\ deal.sent = "yes" /\ deal.status # "Closed Won" /\ deal.final = "no" /\ CanInvoice
  /\ Begin(w, [Idle EXCEPT !.pc = "clickLook", !.s = deal.ptr])
  /\ UNCHANGED <<deal, deposit, stripe, redis, slack, bounds>>

\* Seeded fault: a session the buyer has not paid yet is replaced.
LookReplaces(w) ==
  /\ At(w, "clickLook")
  /\ IF session[worker[w].s] = "paid" THEN Return(w) ELSE Put(w, [Idle EXCEPT !.pc = "clickClaim"])
  /\ UNCHANGED <<deal, deposit, stripe, redis, slack, bounds>>

\* An open session is reused, a paid one sent to the success page; an expired one,
\* or one Stripe cannot show, is replaced.
Look(w) ==
  /\ At(w, "clickLook")
  /\ \/ /\ IF session[worker[w].s] = "expired" THEN Put(w, [Idle EXCEPT !.pc = "clickClaim"])
                                               ELSE Return(w)
        /\ UNCHANGED <<slack, faults>>
     \/ /\ Fault /\ Put(w, [Idle EXCEPT !.pc = "clickClaim"])
        /\ Note("strayed", session[worker[w].s] # "expired")
  /\ UNCHANGED <<deal, deposit, stripe, redis, moves>>

\* The loser reuses what the winner stamped, "never mint a second session".
ClickClaim(w) ==
  /\ At(w, "clickClaim")
  /\ IF mint = "held" THEN Return(w) /\ UNCHANGED mint ELSE Go(w, "clickMint") /\ mint' = "held"
  /\ UNCHANGED <<deal, deposit, stripe, settling, slack, bounds>>

\* A key that varies: always a new session.
ClickMint(w) ==
  /\ At(w, "clickMint")
  /\ \E s \in Sessions : /\ Fresh(s) /\ session' = [session EXCEPT ![s] = "open"]
                         /\ Put(w, [worker[w] EXCEPT !.pc = "clickStamp", !.s = s])
  /\ UNCHANGED <<deal, deposit, stored, inbox, redis, slack, bounds>>

\* Seeded fault: the fresh session is not stamped.
ClickStampNot(w) ==
  /\ At(w, "clickStamp") /\ Return(w) /\ Show(worker[w].s)
  /\ UNCHANGED <<deal, deposit, stored, inbox, redis, slack, bounds>>

\* A failure is swallowed; either way the buyer is sent on to the session.
ClickStamp(w) ==
  /\ At(w, "clickStamp") /\ Return(w) /\ Show(worker[w].s)
  /\ \/ deal' = [deal EXCEPT !.ptr = worker[w].s] /\ UNCHANGED <<slack, faults>>
     \/ Fault /\ Note("strayed", TRUE) /\ UNCHANGED deal
  /\ UNCHANGED <<deposit, stored, inbox, redis, moves>>

-----------------------------------------------------------------------------
(* Stripe, outside this code. *)

Pay(s) ==
  /\ session[s] = "shown" /\ session' = [session EXCEPT ![s] = "paid"] /\ inbox' = inbox \cup {s}
  /\ UNCHANGED <<deal, deposit, stored, redis, worker, slack, bounds>>

\* A session lives about as long as the answer kept under its key, a day.
Expire(s) ==
  /\ session[s] \in {"open", "shown"} /\ session' = [session EXCEPT ![s] = "expired"]
  /\ UNCHANGED <<deal, deposit, stored, inbox, redis, worker, slack, bounds>>

Forget ==
  /\ stored # None /\ session[stored] \notin {"open", "shown"} /\ stored' = None
  /\ UNCHANGED <<deal, deposit, session, inbox, redis, worker, slack, bounds>>

\* The TTLs are longer than an invocation takes to its last write, and than the
\* moment between another's read of the row and its try for the key.
LapseMint ==
  /\ mint = "held" /\ In(Invoicing \cup {"clickStamp"}) = {} /\ mint' = "free"
  /\ UNCHANGED <<deal, deposit, stripe, settling, worker, slack, bounds>>

LapseSettle(s) ==
  /\ s \in settling /\ \A w \in In({"settleRead", "settleStamp", "settleClose"}) : worker[w].s # s
  /\ settling' = settling \ {s}
  /\ UNCHANGED <<deal, deposit, stripe, mint, worker, slack, bounds>>

-----------------------------------------------------------------------------
(* settleFinalInvoice, for the webhook (to = "ack") or the cron.            *)

Deliver(w, s) ==
  /\ s \in inbox /\ \A v \in Workers : ~(worker[v].to = "ack" /\ worker[v].s = s)
  /\ Begin(w, [Idle EXCEPT !.pc = "settleClaim", !.to = "ack", !.s = s])
  /\ UNCHANGED <<deal, deposit, stripe, redis, slack, bounds>>

Done(w) == Return(w) /\ inbox' = IF worker[w].to = "ack" THEN inbox \ {worker[w].s} ELSE inbox

SettleClaim(w) ==
  /\ At(w, "settleClaim")
  /\ IF worker[w].s \in settling THEN Done(w) /\ UNCHANGED settling
     ELSE Go(w, "settleRead") /\ settling' = settling \cup {worker[w].s} /\ UNCHANGED inbox
  /\ UNCHANGED <<deal, deposit, session, stored, mint, slack, bounds>>

SettleRead(w) ==
  /\ At(w, "settleRead")
  /\ IF deal.status = "Closed Won" THEN Done(w) ELSE Go(w, "settleStamp") /\ UNCHANGED inbox
  /\ UNCHANGED <<deal, deposit, session, stored, redis, slack, bounds>>

SettleStamp(w) ==
  /\ At(w, "settleStamp") /\ Go(w, "settleClose")
  /\ \/ deal' = [deal EXCEPT !.final = "yes"] /\ UNCHANGED faults
     \/ Fault /\ UNCHANGED deal
  /\ UNCHANGED <<deposit, stripe, redis, slack, moves>>

\* recordClose, whatever the Status; if the write throws, Crash.
SettleClose(w) ==
  /\ At(w, "settleClose") /\ Done(w)
  /\ deal' = [deal EXCEPT !.status = "Closed Won"] /\ Note("pending", In(Deciding) # {})
  /\ UNCHANGED <<deposit, session, stored, redis, bounds>>

-----------------------------------------------------------------------------
(* The dunning cron. *)

\* isDunningEligible; the throttle is a matter of time.
Dun(w) ==
  /\ deal.sent = "yes" /\ deal.status = "Awaiting Payment"
  /\ Begin(w, [Idle EXCEPT !.pc = "resolve", !.s = deal.ptr,
                           !.owed = IF Paid = {} THEN "yes" ELSE "no"])
  /\ UNCHANGED <<deal, deposit, stripe, redis, slack, bounds>>

\* Heal what is paid, skip what cannot be told, remind of the rest.
Resolve(w) ==
  /\ At(w, "resolve")
  /\ \/ /\ IF session[worker[w].s] = "paid"
           THEN Put(w, [Idle EXCEPT !.pc = "settleClaim", !.s = worker[w].s])
           ELSE Go(w, "remind")
        /\ UNCHANGED faults
     \/ Fault /\ Return(w)
  /\ UNCHANGED <<deal, deposit, stripe, redis, slack, moves>>

\* The throttle stamp, then the e-mail.
Remind(w) ==
  /\ At(w, "remind") /\ Return(w)
  /\ UNCHANGED <<deal, deposit, stripe, redis, slack, bounds>>

-----------------------------------------------------------------------------
(* The cron that closes leads the rancher never answered.                   *)

\* isStuckPendingRancher: a deal asked for on the rancher's own page, whatever it
\* has become; nothing the rancher or the buyer does clears 'Pending Rancher
\* Response'.
Sweep(w) ==
  /\ deal.waiting = "yes" /\ deal.status \notin Closed /\ Move
  /\ Begin(w, [Idle EXCEPT !.pc = "sweep"])
  /\ UNCHANGED <<deal, deposit, stripe, redis, slack, faults>>

SweepWrite(w) ==
  /\ At(w, "sweep") /\ Return(w)
  /\ deal' = [deal EXCEPT !.status = "Closed Lost", !.waiting = "no"]
  /\ Note("swept", deal.status # "Open")
  /\ UNCHANGED <<deposit, stripe, redis, bounds>>

\* The invocation dies, or a read or write throws: its event stays owed.
Crash(w) ==
  /\ ~At(w, "idle") /\ Fault /\ Return(w) /\ Note("unheard", At(w, "signal"))
  /\ UNCHANGED <<deal, deposit, stripe, redis, moves>>

-----------------------------------------------------------------------------
Rancher(w) == \/ \E to \in Statuses \ {"Slot Locked"} : Patch(w, to)
              \/ \E to \in {"Open", "Closed Won", "Closed Lost"} : Quick(w, to)
              \/ Confirm(w) \/ Accept(w) \/ Request(w) \/ Send(w)
Step(w) == \/ Machine(w) \/ Write(w) \/ Signal(w) \/ Ask(w)
           \/ SendClaim(w) \/ SendMint(w) \/ SendWrite(w)
           \/ Look(w) \/ ClickClaim(w) \/ ClickMint(w) \/ ClickStamp(w)
           \/ SettleClaim(w) \/ SettleRead(w) \/ SettleStamp(w) \/ SettleClose(w)
           \/ Resolve(w) \/ Remind(w) \/ SweepWrite(w)

Next ==
  \/ \E w \in Workers : Rancher(w) \/ Visit(w) \/ Click(w) \/ Dun(w) \/ Sweep(w) \/ Step(w) \/ Crash(w)
  \/ \E w \in Workers, s \in Sessions : Deliver(w, s)
  \/ Charge \/ Stamp \/ Restamp \/ Refund
  \/ \E s \in Sessions : Pay(s) \/ Expire(s) \/ LapseSettle(s)
  \/ Forget \/ LapseMint

Spec == Init /\ [][Next]_vars

-----------------------------------------------------------------------------
(* Properties. *)

PCs == {"idle", "signal", "clickStamp", "settleClaim", "settleRead", "settleStamp", "settleClose",
        "resolve", "remind"} \cup Deciding \cup Invoicing

\* Status, milestones and pointers keep their shape; an invocation works on a
\* session Stripe has opened.
TypeOK ==
  /\ deal \in [status : Statuses, waiting : {"yes", "no"}, asked : {"yes", "no"},
               paid : {"yes", "no"}, accepted : {"yes", "no"}, sent : {"yes", "no"},
               ptr : Sessions \cup {None}, final : {"yes", "no"}]
  /\ deposit \in {"none", "open", "charged", "unstamped", "settled", "refunded"}
  /\ session \in [Sessions -> {"none", "open", "shown", "expired", "paid"}]
  /\ stored \in Sessions \cup {None} /\ inbox \subseteq Paid
  /\ mint \in {"free", "held"} /\ settling \subseteq Paid
  /\ worker \in [Workers -> [pc : PCs, to : Statuses \cup {"", "ack"},
                             s : Sessions \cup {None}, owed : {"yes", "no"}]]
  /\ slack \subseteq Slack /\ moves \in 0..MaxMoves /\ faults \in 0..MaxFaults

Quiet == inbox = {} /\ In({"idle"}) = Workers

\* "never a second charge": sends and clicks, together or after one another, leave
\* the buyer at most one session on which the balance can be paid or has been.
OneCharge == faults = 0 /\ "resent" \notin slack => Cardinality(Live) <= 1

\* The same of what he did pay, whatever fails: unless a session strayed, a crash or an
\* unanswered request between mint, write and settlement costs him no second payment.
PaidOnce == slack \cap {"resent", "strayed"} = {} => Cardinality(Paid) <= 1

\* "never dun a buyer who paid": a reminder goes out only if the balance was unpaid
\* when the cron read the deal.
DunnedOwes ==
  faults = 0 /\ "resent" \notin slack => \A w \in In({"remind"}) : worker[w].owed = "yes"

\* "must not let the rancher pass, close Lost, or regress a referral once the
\* deposit is paid", whichever rail he uses and whatever he had read.  (The sweep
\* may.)
PaidStands ==
  deal.paid = "yes" /\ faults = 0 /\ slack \cap {"raced", "swept"} = {} =>
    deal.status \notin {"Open", "Closed Lost"}

\* A balance that is invoiced and unpaid is where the two recovery rails look.
InvoicedIsChased ==
  Quiet /\ deal.sent = "yes" /\ deal.paid = "yes" /\ Paid = {}
    /\ slack \cap {"raced", "late", "swept"} = {}
    => deal.status \in {"Awaiting Payment", "Closed Won"}

\* "the buyer owes nothing": no session is opened for a deposit that went back.
RefundedOwesNothing ==
  [][deposit = "refunded" /\ slack \cap {"raced", "kept"} = {} => Live' \subseteq Live]_vars

\* A balance that was paid closed the deal, or is where the next run of the cron
\* will heal it, whatever was lost on the way; a session that strayed is out of the
\* cron's sight, and survives no other fault.
PaidInReach ==
  Quiet /\ Paid # {} /\ deal.paid = "yes" /\ ("strayed" \in slack => faults < 2)
    /\ slack \cap {"raced", "late", "resent", "reopened", "pending", "swept"} = {} =>
    \/ deal.status = "Closed Won"
    \/ deal.sent = "yes" /\ deal.status = "Awaiting Payment" /\ session[deal.ptr] = "paid"

\* "a deliberate correction still lands -- loudly": a deal whose balance was paid
\* leaves Closed Won only because the rancher reopened it by a move the machine is not
\* asked about or invoiced it again, because a decision was in flight when it was won,
\* or past the machine with a signal to follow; and no such signal ends unheard
\* unless something failed.
ClosedIsLoud ==
  [][/\ deal.final = "yes" /\ deal.status = "Closed Won" /\ deal'.status # "Closed Won" =>
          \/ slack' \cap {"reopened", "resent", "pending"} # {}
          \/ \E w \in Workers : worker'[w].pc = "signal"
     /\ \A w \in Workers : At(w, "signal") /\ worker'[w].pc # "signal" =>
          "loud" \in slack' \/ faults' > 0]_vars

=============================================================================
