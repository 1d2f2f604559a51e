---------------------------- MODULE SaleProofs ----------------------------
(***************************************************************************)
(* Theorems of DepositSettlement about a deal that has one Checkout        *)
(* Session, the ordinary sale: for any number of such deals, rows,         *)
(* endpoints, invocations and faults.                                      *)
(***************************************************************************)
EXTENDS DepositProofs

\* Each deal has one session: no buyer opened a second one for it.
OwnDeal == \A s, t \in Sessions : RefOf[s] = RefOf[t] => s = t

\* A session nobody can pay any more.
Dead == {"expired", "canceled"}

\* The ledger has a row for the session, and has booked its PaymentIntent.
Recorded(s) == \E r \in Rows : row[r].st # "absent" /\ row[r].ses = s
Booked(s)   == \E r \in Rows : row[r].pi = s /\ row[r].st \in {"succeeded", "refunded"}

\* What a row and an invocation know of their session when no other session is
\* for the same deal.
SaleRow(r) ==
  /\ row[r].st # "absent" => session[row[r].ses] # "none"
  /\ row[r].st = "abandoned" => session[row[r].ses] \in Dead
  /\ row[r].st \in {"succeeded", "refunded"}
       => row[r].pi = row[r].ses /\ session[row[r].ses] = "paid"
SaleStep(w) ==
  /\ worker[w].pc \in {"abandonRow", "abandonPi", "abandonWrite"}
       => session[worker[w].ses] \in Dead
  /\ worker[w].pc = "backfill" => session[worker[w].ses] \notin {"open", "none"}
  /\ worker[w].pc \in {"flip", "refundWrite"} => row[worker[w].row].pi = worker[w].ses
  /\ worker[w].pc \in {"stamp", "finish"} => Booked(worker[w].ses)
SessionsRecorded == \A s \in Sessions : session[s] # "none" => Recorded(s)
SaleRows  == \A r \in Rows : SaleRow(r)
SaleSteps == \A w \in Workers : SaleStep(w)
SaleSound == SessionsRecorded /\ SaleRows /\ SaleSteps

-----------------------------------------------------------------------------
(* What no step undoes. *)

\* A session ends once.
LEMMA SessionStable ==
  ASSUME TypeOK, [Next]_vars, NEW s \in Sessions
  PROVE  /\ session[s] \in Dead => session'[s] = session[s]
         /\ session[s] # "none" => session'[s] # "none"
         /\ session[s] \notin {"open", "none"} => session'[s] \notin {"open", "none"}
<1> USE DEF TypeOK, stripe, Dead
<1> DEFINE Kept == /\ session[s] \in Dead => session'[s] = session[s]
                   /\ session[s] # "none" => session'[s] # "none"
                   /\ session[s] \notin {"open", "none"} => session'[s] \notin {"open", "none"}
<1>1. ASSUME NEW t \in Sessions, Pay(t) \/ Expire(t) \/ Refund(t) \/ ExpireClaim(t)
      PROVE  Kept
  <2>1. CASE Pay(t)
    BY <2>1 DEF Pay
  <2>2. CASE Expire(t)
    BY <2>2 DEF Expire
  <2>3. CASE Refund(t) \/ ExpireClaim(t)
    BY <2>3 DEF Refund, ExpireClaim
  <2> QED
    BY <1>1, <2>1, <2>2, <2>3
<1>2. ASSUME NEW t \in Sessions, NEW r \in Rows, Mint(t, r)
      PROVE  Kept
  BY <1>2 DEF Mint
<1>3. ASSUME NEW w \in Workers, WorkerStep(w)
      PROVE  session' = session
  BY <1>3 DEF WorkerStep, Claim, Find, Flip, Stamp, Finish, RefundFind, RefundWrite,
     RestoreRead, RestoreWrite, Backfill, AbandonRead, AbandonMiss, AbandonWrite,
     HealRead, HealWrite
<1>4. session' = session => Kept
  OBVIOUS
<1> QED
  BY <1>1, <1>2, <1>3, <1>4 DEF Next, Accept, Deliver, Reap, HealPick, Crash, vars

\* The row an invocation carries is a row of its session.
LEMMA OwnRow ==
  ASSUME OwnDeal, TypeOK, MoneySound, NEW w \in Workers, HasRow(w), ~At(w, "idle")
  PROVE  /\ worker[w].row \in Rows /\ worker[w].ses \in Sessions
         /\ row[worker[w].row].ses = worker[w].ses
BY DEF OwnDeal, MoneySound, RowSound, SoundRow, WorkerSound, InvocationSound, HasRow, DealOf

\* A row holds no PaymentIntent but that of its own session.
LEMMA OwnIntent ==
  ASSUME OwnDeal, TypeOK, MoneySound, NEW r \in Rows, row[r].pi # None
  PROVE  row[r].pi = row[r].ses /\ row[r].ses \in Sessions /\ row[r].st # "absent"
BY DEF OwnDeal, MoneySound, RowSound, SoundRow, DealOf, TypeOK, RowRecord

\* The rows a step can write, one case per write of the ledger.
LEMMA RowWrites ==
  ASSUME [Next]_vars
  PROVE  \/ row' = row
         \/ \E s \in Sessions, q \in Rows : Mint(s, q)
         \/ \E w \in Workers : Flip(w) \/ RefundWrite(w) \/ Backfill(w) \/ AbandonWrite(w)
<1>1. ASSUME NEW s \in Sessions, Pay(s) \/ Expire(s) \/ Refund(s) \/ ExpireClaim(s)
      PROVE  row' = row
  BY <1>1 DEF Pay, Expire, Refund, ExpireClaim
<1>2. ASSUME NEW w \in Workers, WorkerStep(w),
             ~(Flip(w) \/ RefundWrite(w) \/ Backfill(w) \/ AbandonWrite(w))
      PROVE  row' = row
  BY <1>2 DEF WorkerStep, Claim, Find, Stamp, Finish, RefundFind, RestoreRead,
     RestoreWrite, AbandonRead, AbandonMiss, HealRead, HealWrite
<1> QED
  BY <1>1, <1>2 DEF Next, Accept, Deliver, Reap, HealPick, Crash, vars, stripe

\* What the writes of the ledger leave in a row that exists.
LEMMA RowAfter ==
  ASSUME OwnDeal, TypeOK, MoneySound, SaleSound, [Next]_vars,
         NEW r \in Rows, row[r].st # "absent"
  PROVE  /\ row'[r].pi = row[r].pi \/ row'[r].pi = row[r].ses
         /\ row'[r].st # row[r].st =>
              \/ /\ row'[r].st = "succeeded" /\ row'[r].pi = row[r].ses
                 /\ session[row[r].ses] = "paid"
                 /\ \E w \in Workers : Flip(w) /\ worker[w].row = r
              \/ /\ row'[r].st = "refunded" /\ row'[r].pi = row[r].ses
                 /\ row[r].ses \in refunded
              \/ /\ row'[r].st = "abandoned" /\ session[row[r].ses] \in Dead
<1> USE DEF TypeOK, stripe, RowRecord
<1>1. CASE row' = row
  BY <1>1
<1>2. ASSUME NEW s \in Sessions, NEW q \in Rows, Mint(s, q)
      PROVE  row'[r] = row[r]
  <2>1. row[q] = Absent /\ row' = [row EXCEPT ![q] = [st |-> "pending", ses |-> s, pi |-> None]]
    BY <1>2 DEF Mint
  <2>2. q # r
    BY <2>1 DEF Absent
  <2> QED
    BY <2>1, <2>2
<1>3. ASSUME NEW w \in Workers,
             Flip(w) \/ RefundWrite(w) \/ Backfill(w) \/ AbandonWrite(w)
      PROVE  /\ worker[w].row \in Rows /\ worker[w].ses \in Sessions
             /\ row[worker[w].row].ses = worker[w].ses
             /\ InvocationSound(w) /\ SaleStep(w)
  <2>1. InvocationSound(w) /\ SaleStep(w)
    BY DEF MoneySound, WorkerSound, SaleSound, SaleSteps
  <2>2. HasRow(w) /\ ~At(w, "idle")
    BY <1>3, <2>1 DEF Flip, RefundWrite, Backfill, AbandonWrite, At, InvocationSound
  <2> QED
    BY <2>1, <2>2, OwnRow
<1>4. ASSUME NEW w \in Workers, Flip(w), worker[w].row = r
      PROVE  /\ row'[r].st = "succeeded" /\ row'[r].pi = row[r].ses
             /\ session[row[r].ses] = "paid"
  <2>1. row[r].ses = worker[w].ses /\ session[row[r].ses] = "paid"
    BY <1>3, <1>4 DEF Flip, At, InvocationSound, Settling
  <2>2. CASE At(w, "flip")
    <3>1. row[r].pi = worker[w].ses
      BY <1>3, <1>4, <2>2 DEF At, SaleStep
    <3> QED
      BY <1>4, <2>1, <2>2, <3>1 DEF Flip, At
  <2>3. CASE At(w, "backflip")
    BY <1>4, <2>1, <2>3 DEF Flip, At
  <2> QED
    BY <1>4, <2>2, <2>3 DEF Flip
<1>5. ASSUME NEW w \in Workers, RefundWrite(w), worker[w].row = r
      PROVE  row'[r].st = "refunded" /\ row'[r].pi = row[r].ses /\ row[r].ses \in refunded
  BY <1>3, <1>5 DEF RefundWrite, At, InvocationSound, SaleStep
<1>6. ASSUME NEW w \in Workers, Backfill(w), worker[w].row = r
      PROVE  /\ row'[r].st = row[r].st
             /\ row'[r].pi = row[r].pi \/ row'[r].pi = row[r].ses
  BY <1>3, <1>6 DEF Backfill
<1>7. ASSUME NEW w \in Workers, AbandonWrite(w), worker[w].row = r
      PROVE  /\ row'[r].st = "abandoned" /\ row'[r].pi = row[r].pi
             /\ session[row[r].ses] \in Dead
  BY <1>3, <1>7 DEF AbandonWrite, At, SaleStep
<1>8. ASSUME NEW w \in Workers, worker[w].row # r,
             Flip(w) \/ RefundWrite(w) \/ Backfill(w) \/ AbandonWrite(w)
      PROVE  row'[r] = row[r]
  BY <1>8 DEF Flip, RefundWrite, Backfill, AbandonWrite
<1> QED
  BY <1>1, <1>2, <1>4, <1>5, <1>6, <1>7, <1>8, RowWrites

-----------------------------------------------------------------------------
(* The sale invariant. *)

LEMMA SaleInit == Init => SaleSound
BY DEF Init, SaleSound, SessionsRecorded, SaleRows, SaleRow, SaleSteps, SaleStep, Absent, Idle

\* A session the buyer can pay, or has paid, keeps its row.
LEMMA RecordedNext ==
  TypeOK /\ SessionsRecorded /\ [Next]_vars => SessionsRecorded'
<1> SUFFICES ASSUME TypeOK, SessionsRecorded, [Next]_vars, NEW s \in Sessions,
                    session'[s] # "none"
             PROVE  Recorded(s)'
  BY DEF SessionsRecorded
<1>1. CASE session[s] # "none"
  <2>1. PICK r \in Rows : row[r].st # "absent" /\ row[r].ses = s
    BY <1>1 DEF SessionsRecorded, Recorded
  <2> QED
    BY <2>1, RowStable DEF Recorded
<1>2. ASSUME NEW t \in Sessions, NEW r \in Rows, Mint(t, r), session[s] = "none"
      PROVE  Recorded(s)'
  <2>1. t = s
    BY <1>2 DEF Mint, TypeOK
  <2>2. row'[r] = [st |-> "pending", ses |-> s, pi |-> None]
    BY <1>2, <2>1 DEF Mint, TypeOK
  <2> QED
    BY <2>2 DEF Recorded
<1>3. ASSUME NEW t \in Sessions, Pay(t) \/ Expire(t) \/ Refund(t) \/ ExpireClaim(t)
      PROVE  session'[s] = session[s] \/ session[s] # "none"
  BY <1>3 DEF Pay, Expire, Refund, ExpireClaim, TypeOK
<1>4. ASSUME NEW w \in Workers, WorkerStep(w)
      PROVE  session' = session
  BY <1>4 DEF WorkerStep, Claim, Find, Flip, Stamp, Finish, RefundFind, RefundWrite,
     RestoreRead, RestoreWrite, Backfill, AbandonRead, AbandonMiss, AbandonWrite,
     HealRead, HealWrite, stripe
<1>5. \/ session' = session
      \/ \E t \in Sessions : Pay(t) \/ Expire(t) \/ Refund(t) \/ ExpireClaim(t)
      \/ \E t \in Sessions, r \in Rows : Mint(t, r)
  BY <1>4 DEF Next, Accept, Deliver, Reap, HealPick, Crash, vars, stripe
<1> QED
  BY <1>1, <1>2, <1>3, <1>5

\* A row is booked under its own PaymentIntent and abandoned only when it is dead.
LEMMA SaleRowsNext ==
  OwnDeal /\ TypeOK /\ MoneySound /\ SaleSound /\ [Next]_vars => SaleRows'
<1> SUFFICES ASSUME OwnDeal, TypeOK, MoneySound, SaleSound, [Next]_vars, NEW r \in Rows
             PROVE  SaleRow(r)'
  BY DEF SaleRows
<1>0. SaleRow(r) /\ SoundRow(r)
  BY DEF SaleSound, SaleRows, MoneySound, RowSound
<1>1. CASE row[r].st # "absent"
  <2>1. row[r].ses \in Sessions /\ row'[r].st # "absent" /\ row'[r].ses = row[r].ses
    BY <1>0, <1>1, RowStable DEF SoundRow
  <2>2. session'[row[r].ses] # "none"
    BY <1>0, <1>1, <2>1, SessionStable DEF SaleRow
  <2>3. row'[r].st = "abandoned" => session'[row[r].ses] \in Dead
    <3>1. row'[r].st = "abandoned" => session[row[r].ses] \in Dead
      BY <1>0, <1>1, RowAfter DEF SaleRow
    <3> QED
      BY <2>1, <3>1, SessionStable
  <2>4. row'[r].st \in {"succeeded", "refunded"}
          => row'[r].pi = row[r].ses /\ session'[row[r].ses] = "paid"
    <3>1. CASE row'[r].st = row[r].st
      BY <1>0, <1>1, <2>1, <3>1, RowAfter, StripeStable DEF SaleRow
    <3>2. row[r].ses \in refunded => session[row[r].ses] = "paid"
      BY DEF MoneySound, StripeSound
    <3>3. CASE row'[r].st # row[r].st
      BY <1>1, <2>1, <3>2, <3>3, RowAfter, StripeStable DEF Dead
    <3> QED
      BY <3>1, <3>3
  <2> QED
    BY <2>1, <2>2, <2>3, <2>4 DEF SaleRow
<1>2. CASE row[r].st = "absent" /\ row'[r] = row[r]
  BY <1>0, <1>2 DEF SaleRow
<1>3. ASSUME NEW s \in Sessions, NEW q \in Rows, Mint(s, q),
             row[r].st = "absent", row'[r] # row[r]
      PROVE  SaleRow(r)'
  <2>1. q = r /\ row'[r] = [st |-> "pending", ses |-> s, pi |-> None]
    BY <1>3 DEF Mint, TypeOK
  <2>2. session'[s] # "none"
    BY <1>3 DEF Mint, TypeOK
  <2> QED
    BY <2>1, <2>2 DEF SaleRow
<1>4. ASSUME NEW w \in Workers,
             Flip(w) \/ RefundWrite(w) \/ Backfill(w) \/ AbandonWrite(w),
             row[r].st = "absent"
      PROVE  row'[r] = row[r]
  <2>1. HasRow(w)
    BY <1>4 DEF Flip, RefundWrite, Backfill, AbandonWrite, At, MoneySound, WorkerSound,
       InvocationSound
  <2>2. worker[w].row # r
    BY <1>4, <2>1 DEF HasRow
  <2> QED
    BY <1>4, <2>2 DEF Flip, RefundWrite, Backfill, AbandonWrite, TypeOK
<1> QED
  BY <1>1, <1>2, <1>3, <1>4, RowWrites

\* A booked PaymentIntent stays booked: only a refund moves its row on.
LEMMA BookedStable ==
  ASSUME OwnDeal, TypeOK, MoneySound, SaleSound, [Next]_vars,
         NEW s \in Sessions, Booked(s)
  PROVE  Booked(s)'
<1>1. PICK r \in Rows : row[r].pi = s /\ row[r].st \in {"succeeded", "refunded"}
  BY DEF Booked
<1>2. row[r].ses = s /\ session[s] = "paid" /\ row[r].st # "absent"
  BY <1>1 DEF SaleSound, SaleRows, SaleRow
<1>3. row'[r].pi = s
  BY <1>1, <1>2, RowAfter
<1>4. row'[r].st \in {"succeeded", "refunded"}
  BY <1>1, <1>2, RowAfter DEF Dead
<1> QED
  BY <1>3, <1>4 DEF Booked

\* An invocation that does not move keeps what it relies on.
LEMMA OthersSale ==
  ASSUME OwnDeal, TypeOK, MoneySound, SaleSound, [Next]_vars,
         NEW v \in Workers, worker'[v] = worker[v]
  PROVE  SaleStep(v)'
<1>0. SaleStep(v) /\ InvocationSound(v)
  BY DEF SaleSound, SaleSteps, MoneySound, WorkerSound
<1>1. ~At(v, "idle") => worker[v].ses \in Sessions
  BY <1>0 DEF InvocationSound
<1>2. CASE worker[v].pc \in {"flip", "refundWrite"}
  <2>1. HasRow(v)
    BY <1>0, <1>2 DEF InvocationSound, At
  <2>2. /\ worker[v].row \in Rows /\ row[worker[v].row].ses = worker[v].ses
        /\ row[worker[v].row].st # "absent"
    BY <1>2, <2>1, OwnRow DEF At, HasRow
  <2>3. row'[worker[v].row].pi = worker[v].ses
    BY <1>0, <1>2, <2>2, RowAfter DEF SaleStep
  <2> QED
    BY <1>2, <2>3 DEF SaleStep
<1>3. CASE worker[v].pc \in {"stamp", "finish"}
  <2>1. Booked(worker[v].ses)'
    BY <1>0, <1>1, <1>3, BookedStable DEF At, SaleStep
  <2> QED
    BY <1>3, <2>1 DEF SaleStep
<1>4. CASE worker[v].pc \in {"abandonRow", "abandonPi", "abandonWrite", "backfill"}
  BY <1>0, <1>1, <1>4, SessionStable DEF At, SaleStep, Dead
<1> QED
  BY <1>2, <1>3, <1>4 DEF SaleStep

\* A step that leaves an invocation where its session is not looked at.
LEMMA FreeStep ==
  ASSUME NEW w \in Workers,
         worker'[w].pc \notin {"abandonRow", "abandonPi", "abandonWrite", "backfill",
                               "flip", "refundWrite", "stamp", "finish"}
  PROVE  SaleStep(w)'
BY DEF SaleStep

\* When the lookup runs the buyer was charged, so the session's row is there: the
\* code never settles an ordinary sale without a ledger row.
LEMMA FoundSale ==
  ASSUME OwnDeal, TypeOK, MoneySound, SaleSound, NEW s \in Sessions, session[s] = "paid"
  PROVE  ByPi(s) # {} \/ Pending(RefOf[s]) # {}
<1>1. PICK r \in Rows : row[r].st # "absent" /\ row[r].ses = s
  BY DEF SaleSound, SessionsRecorded, Recorded
<1>2. row[r].st \in {"pending", "succeeded", "refunded"}
  BY <1>1 DEF SaleSound, SaleRows, SaleRow, Dead, TypeOK, RowRecord
<1>3. CASE row[r].st = "pending"
  BY <1>1, <1>3 DEF Pending, DealOf
<1>4. CASE row[r].st \in {"succeeded", "refunded"}
  BY <1>1, <1>4 DEF SaleSound, SaleRows, SaleRow, ByPi
<1> QED
  BY <1>2, <1>3, <1>4

\* Invocations: what each step relies on was true when it was taken, and still is.
LEMMA SaleStepsNext ==
  OwnDeal /\ TypeOK /\ MoneySound /\ SaleSound /\ [Next]_vars => SaleSteps'
<1> SUFFICES ASSUME OwnDeal, TypeOK, MoneySound, SaleSound, [Next]_vars, NEW v \in Workers
             PROVE  SaleStep(v)'
  BY DEF SaleSteps
<1> DEFINE s == worker[v].ses
<1>0. InvocationSound(v) /\ SaleStep(v)
  BY DEF MoneySound, WorkerSound, SaleSound, SaleSteps
<1>1. worker[v] \in Invocation /\ worker \in [Workers -> Invocation]
  BY DEF TypeOK
<1>2. CASE worker'[v] = worker[v]
  BY <1>2, OthersSale
<1>3. CASE worker'[v] = Idle
  BY <1>3, FreeStep DEF Idle
<1>4. ~At(v, "idle") => s \in Sessions
  BY <1>0 DEF InvocationSound
<1>5. ASSUME \/ \E ev \in Events : Deliver(v, ev)
             \/ \E r \in Rows : HealPick(v, r)
             \/ Claim(v) \/ RefundWrite(v) \/ RestoreRead(v) \/ HealRead(v)
      PROVE  SaleStep(v)'
  <2>1. worker'[v].pc \in {"claim", "refundFind", "find", "restoreRead", "restoreWrite",
                           "healRead", "healWrite", "idle"}
    BY <1>1, <1>5 DEF Deliver, HealPick, Claim, RefundWrite, RestoreRead, HealRead, Start,
       Go, Return, Idle, Invocation
  <2> QED
    BY <2>1, FreeStep
<1>6. ASSUME NEW r \in Rows, Reap(v, r) PROVE SaleStep(v)'
  <2> DEFINE t == row[r].ses
  <2>1. row[r].st # "absent" /\ t \in Sessions
    BY <1>6 DEF Reap, MoneySound, RowSound, SoundRow
  <2>2. (IF row[r].pi = None THEN row[r].ses ELSE row[r].pi) = t
    BY <2>1, OwnIntent
  <2>3. session[t] \notin {"open", "none"} /\ session' = session
    BY <1>6, <2>1, <2>2 DEF Reap, stripe, SaleSound, SaleRows, SaleRow
  <2>4. PICK pc \in {"claim", "abandonPi", "abandonRow", "backfill"} :
          /\ worker'[v] = [pc |-> pc, ses |-> t, row |-> r, ev |-> None]
          /\ pc = "abandonPi" => session[t] # "paid"
          /\ pc = "abandonRow" => session[t] = "expired"
    BY <1>1, <1>6, <2>2 DEF Reap, Start, AfterPi
  <2>5. session[t] # "paid" => session[t] \in Dead
    BY <2>1, <2>3 DEF Dead, TypeOK, SessionStates
  <2>6. session'[worker'[v].ses] = session[t] /\ worker'[v].pc = pc
    BY <2>3, <2>4
  <2> QED
    BY <2>3, <2>4, <2>5, <2>6 DEF SaleStep, Dead
<1>7. ASSUME Find(v) PROVE SaleStep(v)'
  <2>1. s \in Sessions /\ session[s] = "paid" /\ row' = row
    BY <1>0, <1>4, <1>7 DEF Find, At, InvocationSound, Settling
  <2>2. ByPi(s) # {} \/ Pending(RefOf[s]) # {}
    BY <2>1, FoundSale
  <2>3. \/ worker'[v] = Idle
        \/ \E r \in ByPi(s) : worker'[v] = [worker[v] EXCEPT !.pc = "flip", !.row = r]
        \/ \E r \in Rows : worker'[v] = [worker[v] EXCEPT !.pc = "backflip", !.row = r]
    BY <1>1, <1>7, <2>2 DEF Find, Go, Return, Pending
  <2>4. ASSUME NEW r \in ByPi(s), worker'[v] = [worker[v] EXCEPT !.pc = "flip", !.row = r]
        PROVE  SaleStep(v)'
    <3>1. worker'[v].pc = "flip" /\ worker'[v].row = r /\ worker'[v].ses = s
      BY <1>1, <2>4 DEF Invocation
    <3>2. row'[r].pi = s
      BY <2>1 DEF ByPi
    <3> QED
      BY <3>1, <3>2 DEF SaleStep
  <2>5. ASSUME NEW r \in Rows, worker'[v] = [worker[v] EXCEPT !.pc = "backflip", !.row = r]
        PROVE  SaleStep(v)'
    <3>1. worker'[v].pc = "backflip"
      BY <1>1, <2>5 DEF Invocation
    <3> QED
      BY <3>1, FreeStep
  <2> QED
    BY <1>3, <2>3, <2>4, <2>5
<1>8. ASSUME Flip(v) PROVE SaleStep(v)'
  <2>1. HasRow(v) /\ ~At(v, "idle")
    BY <1>0, <1>8 DEF Flip, At, InvocationSound
  <2>2. worker[v].row \in Rows /\ s \in Sessions /\ row[worker[v].row].ses = s
    BY <2>1, OwnRow
  <2>3. row'[worker[v].row].st = "succeeded" /\ row'[worker[v].row].pi = s
    BY <1>0, <1>8, <2>2 DEF Flip, At, SaleStep, TypeOK, RowRecord
  <2>4. worker'[v].pc = "stamp" /\ worker'[v].ses = s
    BY <1>1, <1>8 DEF Flip, Go, Invocation
  <2> QED
    BY <2>2, <2>3, <2>4 DEF SaleStep, Booked
<1>9. ASSUME Stamp(v) PROVE SaleStep(v)'
  <2>1. \A t \in Sessions : Booked(t) =>
          \E r \in Rows : row'[r].pi = t /\ row'[r].st \in {"succeeded", "refunded"}
    BY BookedStable DEF Booked
  <2>2. s \in Sessions /\ Booked(s)
    BY <1>0, <1>4, <1>9 DEF Stamp, At, SaleStep
  <2>3. worker'[v].pc = "finish" /\ worker'[v].ses = s
    BY <1>1, <1>9 DEF Stamp, Go, Invocation
  <2> QED
    BY <2>1, <2>2, <2>3 DEF SaleStep, Booked
<1>10. ASSUME RefundFind(v), worker'[v] # Idle PROVE SaleStep(v)'
  <2>1. PICK r \in ByPi(s) : worker'[v] = [worker[v] EXCEPT !.pc = "refundWrite", !.row = r]
    BY <1>1, <1>10 DEF RefundFind, Return
  <2>2. worker'[v].pc = "refundWrite" /\ worker'[v].row = r /\ worker'[v].ses = s
    BY <1>1, <2>1 DEF Invocation
  <2>3. row'[r].pi = s
    BY <1>10 DEF RefundFind, ByPi
  <2> QED
    BY <2>2, <2>3 DEF SaleStep
<1>11. ASSUME Backfill(v) PROVE SaleStep(v)'
  <2>1. s \in Sessions /\ session[s] \notin {"open", "none"} /\ session' = session
    BY <1>0, <1>4, <1>11 DEF Backfill, At, SaleStep, stripe
  <2>2. worker'[v].pc = AfterPi(s) /\ worker'[v].ses = s
    BY <1>1, <1>11 DEF Backfill, Go, Invocation
  <2>3. AfterPi(s) = "claim" \/ (AfterPi(s) = "abandonPi" /\ session[s] \in Dead)
    BY <2>1 DEF AfterPi, Dead, TypeOK, SessionStates
  <2> QED
    BY <2>1, <2>2, <2>3 DEF SaleStep
<1>12. ASSUME AbandonRead(v), worker'[v] # Idle PROVE SaleStep(v)'
  <2>1. s \in Sessions /\ session[s] \in Dead /\ session' = session
    BY <1>0, <1>4, <1>12 DEF AbandonRead, At, SaleStep, stripe
  <2>2. PICK r \in Rows : worker'[v] = [worker[v] EXCEPT !.pc = "abandonWrite", !.row = r]
    BY <1>1, <1>12 DEF AbandonRead
  <2>3. worker'[v].pc = "abandonWrite" /\ worker'[v].ses = s
    BY <1>1, <2>2 DEF Invocation
  <2> QED
    BY <2>1, <2>3 DEF SaleStep
<1>13. ASSUME Finish(v) \/ RestoreWrite(v) \/ AbandonMiss(v) \/ AbandonWrite(v)
              \/ HealWrite(v) \/ Crash(v)
       PROVE  worker'[v] = Idle
  BY <1>1, <1>13 DEF Finish, RestoreWrite, AbandonMiss, AbandonWrite, HealWrite, Crash, Return
<1>14. ASSUME NEW w \in Workers, w # v,
              \/ \E ev \in Events : Deliver(w, ev)
              \/ \E r \in Rows : Reap(w, r) \/ HealPick(w, r)
       PROVE  worker'[v] = worker[v]
  BY <1>1, <1>14 DEF Deliver, Reap, HealPick, Start
<1>15. ASSUME NEW w \in Workers, w # v, WorkerStep(w) \/ Crash(w)
       PROVE  worker'[v] = worker[v]
  BY <1>1, <1>15 DEF WorkerStep, Claim, Find, Flip, Stamp, Finish, RefundFind, RefundWrite,
     RestoreRead, RestoreWrite, Backfill, AbandonRead, AbandonMiss, AbandonWrite,
     HealRead, HealWrite, Crash, Go, Return
<1>16. ASSUME \/ \E t \in Sessions : Pay(t) \/ Expire(t) \/ Refund(t) \/ ExpireClaim(t)
              \/ \E t \in Sessions, r \in Rows : Mint(t, r)
              \/ \E f \in Referrals : Accept(f)
       PROVE  worker' = worker
  BY <1>16 DEF Pay, Expire, Refund, ExpireClaim, Mint, Accept
<1> QED
  BY <1>2, <1>3, <1>5, <1>6, <1>7, <1>8, <1>9, <1>10, <1>11, <1>12, <1>13, <1>14,
     <1>15, <1>16
  DEF Next, WorkerStep, vars

-----------------------------------------------------------------------------
(* Theorems. *)

LEMMA SaleInvariant == OwnDeal => (Spec => [](TypeOK /\ MoneySound /\ SaleSound))
<1> SUFFICES ASSUME OwnDeal PROVE Spec => [](TypeOK /\ MoneySound /\ SaleSound)
  OBVIOUS
<1>1. Init => SaleSound
  BY SaleInit
<1>2. TypeOK /\ MoneySound /\ SaleSound /\ [Next]_vars => SaleSound'
  BY RecordedNext, SaleRowsNext, SaleStepsNext DEF SaleSound
<1> QED
  BY <1>1, <1>2, MoneyInvariant, PTL DEF Spec

\* Where each deal has one session, the buyer is told of a deposit only when the
\* ledger has booked it, whether a webhook or the reaper settled it, with or
\* without Redis, and whatever refund or failure comes between.
THEOREM NotifiesOnlyBooked == OwnDeal => (Spec => []NotifiedIsBooked)
<1> SUFFICES ASSUME OwnDeal PROVE Spec => []NotifiedIsBooked
  OBVIOUS
<1>1. SaleSound => NotifiedIsBooked
  BY DEF SaleSound, SaleSteps, SaleStep, Booked, NotifiedIsBooked, At
<1> QED
  BY <1>1, SaleInvariant, PTL

\* Where each deal has one session, the reaper's two round trips never turn a
\* settled row into an abandoned one: it only abandons what nobody can pay.
THEOREM ReaperNeverUndoesSettlement == OwnDeal => (Spec => SettleWinsRace)
<1> SUFFICES ASSUME OwnDeal PROVE Spec => SettleWinsRace
  OBVIOUS
<1>1. TypeOK /\ MoneySound /\ SaleSound /\ [Next]_vars
        => [\A r \in Rows : row[r].st = "succeeded" => row'[r].st # "abandoned"]_vars
  <2> SUFFICES ASSUME TypeOK, MoneySound, SaleSound, [Next]_vars,
                      NEW r \in Rows, row[r].st = "succeeded"
               PROVE  row'[r].st # "abandoned"
    OBVIOUS
  <2>1. session[row[r].ses] = "paid"
    BY DEF SaleSound, SaleRows, SaleRow
  <2> QED
    BY <2>1, RowAfter DEF Dead
<1> QED
  BY <1>1, SaleInvariant, PTL DEF Spec, SettleWinsRace

-----------------------------------------------------------------------------
(* What the crons can see. *)

\* The two queries of the reaper return a row of the session: pending, with no
\* PaymentIntent or the session's own; or settled, for the W1 cross-check.
InSight(s) == \E r \in Rows :
  /\ row[r].ses = s
  /\ row[r].st = "succeeded" \/ (row[r].st = "pending" /\ row[r].pi \in {None, s})

\* A session that was paid and not refunded stays in sight of the reaper.
PaidInSight == \A s \in Sessions : session[s] = "paid" => s \in refunded \/ InSight(s)

RefundsSound == \A r \in Rows : row[r].st = "refunded" => row[r].ses \in refunded

LEMMA RefundedGrows == ASSUME [Next]_vars PROVE refunded \subseteq refunded'
<1>1. ASSUME NEW w \in Workers, WorkerStep(w) PROVE refunded' = refunded
  BY <1>1 DEF WorkerStep, Claim, Find, Flip, Stamp, Finish, RefundFind, RefundWrite,
     RestoreRead, RestoreWrite, Backfill, AbandonRead, AbandonMiss, AbandonWrite,
     HealRead, HealWrite, stripe
<1> QED
  BY <1>1 DEF Next, Pay, Expire, Refund, ExpireClaim, Mint, Accept, Deliver, Reap, HealPick,
     Crash, stripe, vars

LEMMA RefundsNext ==
  OwnDeal /\ TypeOK /\ MoneySound /\ SaleSound /\ RefundsSound /\ [Next]_vars => RefundsSound'
<1> SUFFICES ASSUME OwnDeal, TypeOK, MoneySound, SaleSound, RefundsSound, [Next]_vars,
                    NEW r \in Rows, row'[r].st = "refunded"
             PROVE  row'[r].ses \in refunded'
  BY DEF RefundsSound
<1>1. CASE row[r].st = "absent"
  <2>1. CASE row' = row
    BY <1>1, <2>1
  <2>2. ASSUME NEW s \in Sessions, NEW q \in Rows, Mint(s, q) PROVE FALSE
    BY <1>1, <2>2 DEF Mint, TypeOK
  <2>3. ASSUME NEW w \in Workers, Flip(w) \/ RefundWrite(w) \/ Backfill(w) \/ AbandonWrite(w)
        PROVE  FALSE
    <3>1. HasRow(w)
      BY <2>3 DEF Flip, RefundWrite, Backfill, AbandonWrite, At, MoneySound, WorkerSound,
         InvocationSound
    <3>2. worker[w].row # r
      BY <1>1, <3>1 DEF HasRow
    <3> QED
      BY <1>1, <2>3, <3>2 DEF Flip, RefundWrite, Backfill, AbandonWrite, TypeOK
  <2> QED
    BY <2>1, <2>2, <2>3, RowWrites
<1>2. CASE row[r].st # "absent"
  <2>1. row[r].ses \in refunded
    BY <1>2, RowAfter DEF RefundsSound
  <2>2. row'[r].ses = row[r].ses
    <3>1. ASSUME NEW s \in Sessions, NEW q \in Rows, Mint(s, q) PROVE row'[r] = row[r]
      BY <1>2, <3>1 DEF Mint, TypeOK, Absent
    <3>2. ASSUME NEW w \in Workers, Flip(w) \/ RefundWrite(w) \/ Backfill(w) \/ AbandonWrite(w)
          PROVE  row'[r].ses = row[r].ses
      BY <3>2 DEF Flip, RefundWrite, Backfill, AbandonWrite, TypeOK, RowRecord
    <3> QED
      BY <3>1, <3>2, RowWrites
  <2> QED
    BY <2>1, <2>2, RefundedGrows
<1> QED
  BY <1>1, <1>2

\* Where each deal has one session, the reaper can always find money that reached
\* Stripe and was not given back: no failure, lost event, stale write or pass of the
\* reaper itself leaves a paid session without a row that one of its queries returns.
THEOREM PaidStaysInSight == OwnDeal => (Spec => []PaidInSight)
<1> SUFFICES ASSUME OwnDeal PROVE Spec => []PaidInSight
  OBVIOUS
<1>1. Init => RefundsSound
  BY DEF Init, RefundsSound, Absent
<1>2. TypeOK /\ MoneySound /\ SaleSound /\ RefundsSound => PaidInSight
  <2> SUFFICES ASSUME TypeOK, MoneySound, SaleSound, RefundsSound,
                      NEW s \in Sessions, session[s] = "paid", s \notin refunded
               PROVE  InSight(s)
    BY DEF PaidInSight
  <2>1. PICK r \in Rows : row[r].st # "absent" /\ row[r].ses = s
    BY DEF SaleSound, SessionsRecorded, Recorded
  <2>2. row[r].st \notin {"abandoned", "refunded"}
    BY <2>1 DEF SaleSound, SaleRows, SaleRow, Dead, RefundsSound
  <2>3. row[r].st \in {"pending", "succeeded"}
    BY <2>1, <2>2 DEF TypeOK, RowRecord
  <2>4. row[r].pi \in {None, s}
    BY <2>1, OwnIntent
  <2> QED
    BY <2>1, <2>3, <2>4 DEF InSight
<1> QED
  BY <1>1, <1>2, RefundsNext, SaleInvariant, PTL DEF Spec

-----------------------------------------------------------------------------
(* The notifications. *)

\* No session was recorded twice: the buyer did not come back to the page before
\* paying.  And nobody asked for the money back.
OnceRecorded ==
  \A q, r \in Rows :
    row[q].st # "absent" /\ row[r].st # "absent" /\ row[q].ses = row[r].ses => q = r
Ordinary == OnceRecorded /\ refunded = {}

\* A booked session is one whose row has succeeded; its effects are still to run
\* exactly in the invocation that wrote it.
Settled(s) == \E r \in Rows : row[r].st = "succeeded" /\ row[r].ses = s
OnceSession(s) == effects[s] <= 1 /\ (effects[s] # 0 => Settled(s))
OnceStep(w) ==
  /\ worker[w].pc \in {"flip", "backflip"} => row[worker[w].row].st # "succeeded"
  /\ worker[w].pc \in {"stamp", "finish"}
       => effects[worker[w].ses] = 0 /\ Settled(worker[w].ses)
OnceSound == (\A s \in Sessions : OnceSession(s)) /\ (\A w \in Workers : OnceStep(w))

\* The whole of what is known of an ordinary sale.
SaleInv == TypeOK /\ MoneySound /\ HoldsClaim /\ SaleSound

\* Without a refund a booked row is final.
LEMMA SettledStable ==
  ASSUME OwnDeal, SaleInv, refunded = {}, [Next]_vars, NEW s \in Sessions, Settled(s)
  PROVE  Settled(s)'
<1>1. PICK r \in Rows : row[r].st = "succeeded" /\ row[r].ses = s
  BY DEF Settled
<1>2. session[s] = "paid"
  BY <1>1 DEF SaleInv, SaleSound, SaleRows, SaleRow
<1>3. row'[r].ses = s
  BY <1>1, RowStable DEF SaleInv
<1>4. row'[r].st = "succeeded"
  BY <1>1, <1>2, RowAfter DEF Dead, SaleInv
<1> QED
  BY <1>3, <1>4 DEF Settled

\* An invocation about to write a row finds its session not booked yet.
LEMMA FlipUnsettled ==
  ASSUME OwnDeal, SaleInv, OnceSound, OnceRecorded, NEW w \in Workers,
         worker[w].pc \in {"flip", "backflip"}
  PROVE  /\ worker[w].ses \in Sessions /\ worker[w].row \in Rows
         /\ row[worker[w].row].ses = worker[w].ses
         /\ ~Settled(worker[w].ses)
<1>1. HasRow(w) /\ ~At(w, "idle")
  BY DEF SaleInv, MoneySound, WorkerSound, InvocationSound, At
<1>2. worker[w].row \in Rows /\ worker[w].ses \in Sessions
      /\ row[worker[w].row].ses = worker[w].ses
  BY <1>1, OwnRow DEF SaleInv
<1>3. row[worker[w].row].st \notin {"succeeded", "absent"}
  BY <1>1 DEF OnceSound, OnceStep, HasRow
<1> QED
  BY <1>2, <1>3 DEF Settled, OnceRecorded

\* Two invocations past the claim of one PaymentIntent are one.
LEMMA Alone ==
  ASSUME SaleInv, NEW v \in Workers, NEW w \in Workers,
         worker[v].pc \in Settling, worker[w].pc \in Settling,
         worker[v].ses = worker[w].ses
  PROVE  v = w
BY DEF SaleInv, HoldsClaim

\* The count of notifications is raised by the end of an invocation only.
LEMMA EffectsWrites ==
  ASSUME [Next]_vars
  PROVE  effects' = effects \/ \E w \in Workers : Finish(w)
<1>1. ASSUME NEW w \in Workers, WorkerStep(w), ~Finish(w)
      PROVE  effects' = effects
  BY <1>1 DEF WorkerStep, Claim, Find, Flip, Stamp, RefundFind, RefundWrite,
     RestoreRead, RestoreWrite, Backfill, AbandonRead, AbandonMiss, AbandonWrite,
     HealRead, HealWrite
<1> QED
  BY <1>1 DEF Next, Pay, Expire, Refund, ExpireClaim, Mint, Accept, Deliver, Reap,
     HealPick, Crash, vars

\* A session is notified by the invocation that booked it.
LEMMA OnceSessionsNext ==
  ASSUME OwnDeal, SaleInv, OnceSound, refunded = {}, [Next]_vars, NEW s \in Sessions
  PROVE  OnceSession(s)'
<1>0. OnceSession(s) /\ effects \in [Sessions -> Nat]
  BY DEF OnceSound, SaleInv, TypeOK
<1>1. Settled(s) => Settled(s)'
  BY SettledStable
<1>2. CASE effects' = effects
  BY <1>0, <1>1, <1>2 DEF OnceSession
<1>3. ASSUME NEW w \in Workers, Finish(w)
      PROVE  OnceSession(s)'
  <2>1. effects[worker[w].ses] = 0 /\ Settled(worker[w].ses)
    BY <1>3 DEF Finish, At, OnceSound, OnceStep
  <2>2. CASE worker[w].ses # s
    <3>1. effects'[s] = effects[s]
      BY <1>0, <1>3, <2>2 DEF Finish
    <3> QED
      BY <1>0, <1>1, <3>1 DEF OnceSession
  <2>3. CASE worker[w].ses = s
    <3>1. effects'[s] \in {0, 1}
      BY <1>0, <1>3, <2>1, <2>3 DEF Finish
    <3>2. Settled(s)'
      BY <1>1, <2>1, <2>3
    <3> QED
      BY <3>1, <3>2 DEF OnceSession
  <2> QED
    BY <2>2, <2>3
<1> QED
  BY <1>2, <1>3, EffectsWrites

\* An invocation that does not move is not overtaken on its own session.
LEMMA OthersOnce ==
  ASSUME OwnDeal, SaleInv, OnceSound, Ordinary, [Next]_vars,
         NEW v \in Workers, worker'[v] = worker[v]
  PROVE  OnceStep(v)'
<1> DEFINE s == worker[v].ses
<1>0. OnceStep(v)
  BY DEF OnceSound
<1>1. worker[v] \in Invocation /\ worker \in [Workers -> Invocation]
  BY DEF SaleInv, TypeOK
<1>2. CASE worker[v].pc \in {"flip", "backflip"}
  <2> DEFINE r == worker[v].row
  <2>1. s \in Sessions /\ r \in Rows /\ row[r].ses = s
    BY <1>2, FlipUnsettled DEF Ordinary
  <2>2. row[r].st \notin {"succeeded", "absent"}
    BY <1>0, <1>2 DEF OnceStep, SaleInv, MoneySound, WorkerSound, InvocationSound, HasRow
  <2>3. ASSUME NEW w \in Workers, Flip(w), worker[w].row = r
        PROVE  FALSE
    <3>1. worker'[w].pc = "stamp"
      BY <1>1, <2>3 DEF Flip, Go, Invocation
    <3>2. worker[w].pc \in {"flip", "backflip"}
      BY <2>3 DEF Flip, At
    <3>3. worker[w].ses = s
      BY <2>1, <2>3, <3>2, FlipUnsettled DEF Ordinary
    <3>4. w = v
      BY <1>2, <3>2, <3>3, Alone DEF Settling
    <3> QED
      BY <1>2, <3>1, <3>4
  <2>4. row'[r].st # "succeeded"
    BY <2>1, <2>2, <2>3, RowAfter DEF SaleInv
  <2> QED
    BY <1>2, <2>4 DEF OnceStep
<1>3. CASE worker[v].pc \in {"stamp", "finish"}
  <2>1. effects[s] = 0 /\ Settled(s) /\ s \in Sessions
    BY <1>0, <1>3 DEF OnceStep, SaleInv, MoneySound, WorkerSound, InvocationSound, At
  <2>2. Settled(s)'
    BY <2>1, SettledStable DEF Ordinary
  <2>3. ASSUME NEW w \in Workers, Finish(w), worker[w].ses = s
        PROVE  FALSE
    <3>1. w = v
      BY <1>3, <2>3, Alone DEF Finish, At, Settling
    <3>2. worker'[w].pc = "idle"
      BY <1>1, <2>3 DEF Finish, Return, Idle
    <3> QED
      BY <1>3, <3>1, <3>2
  <2>4. effects'[s] = effects[s]
    BY <2>1, <2>3, EffectsWrites DEF Finish, SaleInv, TypeOK
  <2> QED
    BY <1>3, <2>1, <2>2, <2>4 DEF OnceStep
<1> QED
  BY <1>2, <1>3 DEF OnceStep

\* Invocations: the row is settled once, and its effects follow in the same one.
LEMMA OnceStepsNext ==
  ASSUME OwnDeal, SaleInv, OnceSound, Ordinary, [Next]_vars, NEW v \in Workers
  PROVE  OnceStep(v)'
<1> DEFINE s == worker[v].ses
<1>0. OnceStep(v) /\ InvocationSound(v)
  BY DEF OnceSound, SaleInv, MoneySound, WorkerSound
<1>1. worker[v] \in Invocation /\ worker \in [Workers -> Invocation]
  BY DEF SaleInv, TypeOK
<1>2. CASE worker'[v] = worker[v]
  BY <1>2, OthersOnce
<1>3. ASSUME worker'[v].pc \notin {"flip", "backflip", "stamp", "finish"}
      PROVE  OnceStep(v)'
  BY <1>3 DEF OnceStep
<1>4. CASE Find(v)
  <2>1. s \in Sessions /\ session[s] = "paid" /\ row' = row
    BY <1>0, <1>4 DEF Find, At, InvocationSound, Settling
  <2>2. ByPi(s) # {} \/ Pending(RefOf[s]) # {}
    BY <2>1, FoundSale DEF SaleInv
  <2>3. \/ worker'[v] = Idle
        \/ \E r \in Rows, pc \in {"flip", "backflip"} :
             /\ worker'[v] = [worker[v] EXCEPT !.pc = pc, !.row = r]
             /\ row[r].st # "succeeded"
    BY <1>1, <1>4, <2>2 DEF Find, Go, Return, ByPi, Pending
  <2>4. ASSUME NEW r \in Rows, NEW pc \in {"flip", "backflip"},
               worker'[v] = [worker[v] EXCEPT !.pc = pc, !.row = r],
               row[r].st # "succeeded"
        PROVE  OnceStep(v)'
    <3>1. worker'[v].pc = pc /\ worker'[v].row = r
      BY <1>1, <2>4 DEF Invocation
    <3> QED
      BY <2>1, <2>4, <3>1 DEF OnceStep
  <2>5. CASE worker'[v] = Idle
    BY <1>3, <2>5 DEF Idle
  <2> QED
    BY <2>3, <2>4, <2>5
<1>5. CASE Flip(v)
  <2>1. worker[v].pc \in {"flip", "backflip"}
    BY <1>5 DEF Flip, At
  <2>2. /\ s \in Sessions /\ worker[v].row \in Rows /\ row[worker[v].row].ses = s
        /\ ~Settled(s)
    BY <2>1, FlipUnsettled DEF Ordinary
  <2>3. effects[s] = 0 /\ effects' = effects
    BY <1>5, <2>2 DEF OnceSound, OnceSession, Flip
  <2>4. row'[worker[v].row].st = "succeeded" /\ row'[worker[v].row].ses = s
    BY <1>5, <2>2 DEF Flip, SaleInv, TypeOK, RowRecord
  <2>5. worker'[v].pc = "stamp" /\ worker'[v].ses = s
    BY <1>1, <1>5 DEF Flip, Go, Invocation
  <2> QED
    BY <2>2, <2>3, <2>4, <2>5 DEF OnceStep, Settled
<1>6. CASE Stamp(v)
  <2>1. effects[s] = 0 /\ Settled(s) /\ effects' = effects /\ row' = row
    BY <1>0, <1>6 DEF Stamp, At, OnceStep
  <2>2. worker'[v].pc = "finish" /\ worker'[v].ses = s
    BY <1>1, <1>6 DEF Stamp, Go, Invocation
  <2> QED
    BY <2>1, <2>2 DEF OnceStep, Settled
<1>7. CASE Claim(v)
  <2>1. worker'[v].pc \in {"find", "idle"}
    BY <1>1, <1>7 DEF Claim, Go, Return, Idle, Invocation
  <2> QED
    BY <1>3, <2>1
<1>8. ASSUME WorkerStep(v), ~Claim(v), ~Find(v), ~Flip(v), ~Stamp(v)
      PROVE  OnceStep(v)'
  BY <1>3, <1>8, EntersByClaim DEF WorkerStep, Settling, SaleInv
<1>9. ASSUME \/ \E ev \in Events : Deliver(v, ev)
             \/ \E r \in Rows : Reap(v, r) \/ HealPick(v, r)
             \/ Crash(v)
      PROVE  OnceStep(v)'
  BY <1>3, <1>9, EntersByClaim DEF Settling, SaleInv
<1>10. ASSUME NEW w \in Workers, w # v,
              \/ \E ev \in Events : Deliver(w, ev)
              \/ \E r \in Rows : Reap(w, r) \/ HealPick(w, r)
       PROVE  worker'[v] = worker[v]
  BY <1>1, <1>10 DEF Deliver, Reap, HealPick, Start
<1>11. ASSUME NEW w \in Workers, w # v, WorkerStep(w) \/ Crash(w)
       PROVE  worker'[v] = worker[v]
  BY <1>1, <1>11 DEF WorkerStep, Claim, Find, Flip, Stamp, Finish, RefundFind, RefundWrite,
     RestoreRead, RestoreWrite, Backfill, AbandonRead, AbandonMiss, AbandonWrite,
     HealRead, HealWrite, Crash, Go, Return
<1>12. ASSUME \/ \E t \in Sessions : Pay(t) \/ Expire(t) \/ Refund(t) \/ ExpireClaim(t)
              \/ \E t \in Sessions, r \in Rows : Mint(t, r)
              \/ \E f \in Referrals : Accept(f)
       PROVE  worker' = worker
  BY <1>12 DEF Pay, Expire, Refund, ExpireClaim, Mint, Accept
<1> QED
  BY <1>2, <1>4, <1>5, <1>6, <1>7, <1>8, <1>9, <1>10, <1>11, <1>12
  DEF Next, vars

\* As long as Redis answers, a deal with one session recorded once and never
\* refunded notifies its buyer once, however often Stripe redelivers, however many
\* invocations run and whatever crashes between the flip and the effects.
THEOREM NotifiesOnce ==
  OwnDeal /\ RedisReliable = TRUE => (Spec /\ []Ordinary => []NotifiedOnce)
<1> SUFFICES ASSUME OwnDeal, RedisReliable = TRUE
             PROVE  Spec /\ []Ordinary => []NotifiedOnce
  OBVIOUS
<1>1. Spec => []SaleInv
  BY SaleInvariant, ClaimHeld, PTL DEF SaleInv
<1>2. Init => OnceSound
  BY DEF Init, OnceSound, OnceSession, OnceStep, Idle
<1>3. SaleInv /\ Ordinary /\ OnceSound /\ [Next]_vars => OnceSound'
  BY OnceSessionsNext, OnceStepsNext DEF OnceSound, Ordinary
<1>4. OnceSound => NotifiedOnce
  BY DEF OnceSound, OnceSession, NotifiedOnce
<1> QED
  BY <1>1, <1>2, <1>3, <1>4, PTL DEF Spec

=============================================================================
