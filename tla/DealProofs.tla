------------------------------ MODULE DealProofs ------------------------------
(* Proofs about DealLifecycle, for every number of invocations, of sessions, *)
(* of moves and of faults.                                                   *)
EXTENDS DealLifecycle, FiniteSetTheorems, TLAPS

Row == [status : Statuses, waiting : {"yes", "no"}, asked : {"yes", "no"},
        paid : {"yes", "no"}, accepted : {"yes", "no"}, sent : {"yes", "no"},
        ptr : Sessions \cup {None}, final : {"yes", "no"}]
Job == [pc : PCs, to : Statuses \cup {"", "ack"}, s : Sessions \cup {None}, owed : {"yes", "no"}]

Settling == {"settleClaim", "settleRead", "settleStamp", "settleClose"}

\* An invocation that works on a session has one, one that settles has a paid one,
\* and one that decided on a move knows where to.
Fit(x, f) ==
  /\ x.pc \in {"sendWrite", "clickLook", "clickStamp", "resolve"} \cup Settling => x.s \in Sessions
  /\ x.pc \in Settling => f[x.s] = "paid"
  /\ x.pc \in {"machine", "write", "fallback"} => x.to \in Statuses

\* The inductive invariant of the types, part by part: the pointer is there once
\* the invoice is.
RowOK == deal \in Row /\ (deal.sent = "yes" => deal.ptr \in Sessions)
StripeOK ==
  /\ session \in [Sessions -> {"none", "open", "shown", "expired", "paid"}]
  /\ stored \in Sessions \cup {None} /\ inbox \subseteq Paid
RedisOK == mint \in {"free", "held"} /\ settling \subseteq Paid
JobsOK == worker \in [Workers -> Job] /\ \A w \in Workers : Fit(worker[w], session)
BoundsOK ==
  /\ deposit \in {"none", "open", "charged", "unstamped", "settled", "refunded"}
  /\ slack \subseteq Slack /\ moves \in 0..MaxMoves /\ faults \in 0..MaxFaults
Shape == RowOK /\ StripeOK /\ RedisOK /\ JobsOK /\ BoundsOK

LEMMA ShapeTypes == Shape => TypeOK
  BY DEF Shape, TypeOK, RowOK, StripeOK, RedisOK, JobsOK, BoundsOK, Row, Job

LEMMA IdleFit == Idle \in Job /\ \A f : Fit(Idle, f)
  BY DealAssumption DEF Idle, Job, PCs, Deciding, Invoicing, Fit, Settling

LEMMA InitShape == Init => Shape
<1> SUFFICES ASSUME Init PROVE Shape
  OBVIOUS
<1>1. RowOK
  BY DEF Init, RowOK, Row, Statuses
<1>2. JobsOK
  BY IdleFit DEF Init, JobsOK
<1> QED
  BY <1>1, <1>2, DealAssumption DEF Init, Shape, StripeOK, RedisOK, BoundsOK, Paid

\* A paid session stays paid, and an invocation that does not move stays fit.
LEMMA PutJobs ==
  ASSUME JobsOK, NEW w \in Workers, NEW x \in Job, Fit(x, session'), Put(w, x),
         \A s \in Sessions : session[s] = "paid" => session'[s] = "paid"
  PROVE  JobsOK'
  BY DEF JobsOK, Fit, Put

LEMMA SameJobs ==
  ASSUME JobsOK, worker' = worker,
         \A s \in Sessions : session[s] = "paid" => session'[s] = "paid"
  PROVE  JobsOK'
  BY DEF JobsOK, Fit

LEMMA ReturnJobs ==
  ASSUME JobsOK, NEW w \in Workers, Return(w),
         \A s \in Sessions : session[s] = "paid" => session'[s] = "paid"
  PROVE  JobsOK'
  BY IdleFit, PutJobs DEF Return

LEMMA GoJobs ==
  ASSUME JobsOK, NEW w \in Workers, NEW p \in PCs, Go(w, p), session' = session,
         Fit([worker[w] EXCEPT !.pc = p], session)
  PROVE  JobsOK'
<1> DEFINE x == [worker[w] EXCEPT !.pc = p]
<1>1. x \in Job
  BY DEF JobsOK, Job
<1>2. Put(w, x)
  BY DEF Go, Put
<1> HIDE DEF x
<1> QED
  BY <1>1, <1>2, PutJobs DEF x

\* A move is counted, and its place in the history has a name.
LEMMA NoteOK ==
  ASSUME BoundsOK, NEW why \in Slack, NEW c, Note(why, c) PROVE slack' \subseteq Slack
  BY DEF BoundsOK, Note

LEMMA MoveOK == ASSUME BoundsOK, Move PROVE moves' \in 0..MaxMoves
  BY DealAssumption DEF BoundsOK, Move

LEMMA FaultOK == ASSUME BoundsOK, Fault PROVE faults' \in 0..MaxFaults
  BY DealAssumption DEF BoundsOK, Fault

\* A step that takes or hands back a job and leaves the rest of the state alone.
LEMMA OnlyJob ==
  ASSUME Shape, JobsOK', BoundsOK', UNCHANGED <<deal, stripe, redis>>
  PROVE  Shape'
  BY DEF Shape, RowOK, StripeOK, RedisOK, stripe, redis, Paid

\* A worker takes a job that needs no session.
LEMMA BeginJobs ==
  ASSUME Shape, NEW w \in Workers, NEW p \in {"ask", "sendClaim", "sweep"},
         Begin(w, [Idle EXCEPT !.pc = p]), UNCHANGED stripe
  PROVE  JobsOK'
<1> DEFINE x == [Idle EXCEPT !.pc = p]
<1>1. x \in Job /\ Fit(x, session)
  BY IdleFit DEF Job, Fit, PCs, Deciding, Invoicing, Settling, Idle
<1>2. Put(w, x)
  BY DEF Begin
<1> HIDE DEF x
<1> QED
  BY <1>1, <1>2, PutJobs DEF Shape, stripe

\* A worker takes a decision.
LEMMA DecideJobs ==
  ASSUME Shape, NEW w \in Workers, NEW p \in {"machine", "write"}, NEW to \in Statuses,
         Begin(w, [Idle EXCEPT !.pc = p, !.to = to]), UNCHANGED stripe
  PROVE  JobsOK'
<1> DEFINE x == [Idle EXCEPT !.pc = p, !.to = to]
<1>1. x \in Job /\ Fit(x, session)
  BY DealAssumption DEF Job, Fit, PCs, Deciding, Invoicing, Settling, Idle
<1>2. Put(w, x)
  BY DEF Begin
<1> HIDE DEF x
<1> QED
  BY <1>1, <1>2, PutJobs DEF Shape, stripe

\* The steps of the rancher take a job and nothing else.
LEMMA RancherShape ==
  ASSUME Shape, NEW w \in Workers, Rancher(w)
  PROVE  Shape'
<1>0. "reopened" \in Slack /\ "resent" \in Slack
  BY DEF Slack
<1>a. BoundsOK /\ {"Open", "Slot Locked", "Closed Won", "Closed Lost"} \subseteq Statuses
  BY DEF Shape, Statuses
<1>1. ASSUME NEW to \in Statuses, Patch(w, to) PROVE Shape'
  <2>1. PICK p \in {"machine", "write"} : /\ Begin(w, [Idle EXCEPT !.pc = p, !.to = to])
                                         /\ Note("reopened", p = "write" /\ deal.status \in Closed)
    BY <1>1 DEF Patch, Rails
  <2>2. JobsOK'
    BY <1>1, <2>1, DecideJobs DEF Patch
  <2>3. BoundsOK'
    BY <1>0, <1>a, <1>1, <2>1, MoveOK, NoteOK DEF Patch, BoundsOK
  <2> QED
    BY <1>1, <2>2, <2>3, OnlyJob DEF Patch
<1>2. ASSUME NEW to \in Statuses, Quick(w, to) PROVE Shape'
  <2>1. PICK p \in {"machine", "write"} : Begin(w, [Idle EXCEPT !.pc = p, !.to = to])
    BY <1>2 DEF Quick
  <2>3. JobsOK'
    BY <1>2, <2>1, DecideJobs DEF Quick
  <2>2. BoundsOK'
    BY <1>a, <1>2, MoveOK DEF Quick, BoundsOK
  <2> QED
    BY <1>2, <2>2, <2>3, OnlyJob DEF Quick
<1>3. CASE Confirm(w)
  <2>1. JobsOK'
    BY <1>a, <1>3, DecideJobs DEF Confirm
  <2>2. BoundsOK'
    BY <1>a, <1>3, MoveOK DEF Confirm, BoundsOK
  <2> QED
    BY <1>3, <2>1, <2>2, OnlyJob DEF Confirm
<1>4. CASE Accept(w)
  <2>1. JobsOK'
    BY <1>a, <1>4, DecideJobs DEF Accept
  <2>2. BoundsOK'
    BY <1>a, <1>4 DEF Accept, BoundsOK, bounds
  <2> QED
    BY <1>4, <2>1, <2>2, OnlyJob DEF Accept
<1>5. CASE Request(w)
  <2>1. JobsOK'
    BY <1>5, BeginJobs DEF Request
  <2>2. BoundsOK'
    BY <1>0, <1>a, <1>5, MoveOK, NoteOK DEF Request, BoundsOK
  <2> QED
    BY <1>5, <2>1, <2>2, OnlyJob DEF Request
<1>6. CASE Send(w)
  <2>1. JobsOK'
    BY <1>6, BeginJobs DEF Send
  <2>2. BoundsOK'
    BY <1>0, <1>a, <1>6, MoveOK, NoteOK DEF Send, BoundsOK
  <2> QED
    BY <1>6, <2>1, <2>2, OnlyJob DEF Send
<1> QED
  BY <1>a, <1>1, <1>2, <1>3, <1>4, <1>5, <1>6 DEF Rancher

\* The machine's verdict, and the writes of the row.
LEMMA MoveShape ==
  ASSUME Shape, NEW w \in Workers, Machine(w) \/ Write(w) \/ Ask(w) \/ SweepWrite(w)
  PROVE  Shape'
<1>0. BoundsOK /\ JobsOK /\ RowOK /\ {"late", "pending", "swept"} \subseteq Slack
  BY DEF Shape, Slack
<1>a. worker[w] \in Job /\ Fit(worker[w], session)
  BY <1>0 DEF JobsOK
<1>1. CASE Machine(w)
  <2>1. ASSUME NEW p \in {"write", "fallback"}
        PROVE  Fit([worker[w] EXCEPT !.pc = p], session) /\ p \in PCs
    BY <1>a, <1>1 DEF Fit, Settling, Machine, At, Job, PCs, Deciding
  <2>2. JobsOK'
    BY <1>0, <1>1, <2>1, GoJobs DEF Machine, stripe
  <2>3. BoundsOK'
    BY <1>0, <1>1 DEF Machine, BoundsOK, bounds
  <2> QED
    BY <1>1, <2>2, <2>3, OnlyJob DEF Machine
<1>2. CASE Write(w)
  <2>0. Fit([worker[w] EXCEPT !.pc = "signal"], session) /\ "signal" \in PCs
    BY <1>a DEF Fit, Settling, Job, PCs
  <2>1. JobsOK'
    BY <1>0, <1>2, <2>0, ReturnJobs, GoJobs DEF Write, stripe
  <2>2. BoundsOK'
    BY <1>0, <1>2 DEF Write, BoundsOK, bounds
  <2>3. worker[w].to \in Statuses
    BY <1>a, <1>2 DEF Fit, Write, At
  <2>4. RowOK'
    BY <1>0, <1>2, <2>3 DEF Write, RowOK, Row
  <2> QED
    BY <1>2, <2>1, <2>2, <2>4 DEF Write, Shape, StripeOK, RedisOK, stripe, redis, Paid
<1>3. CASE Ask(w)
  <2>1. JobsOK'
    BY <1>0, <1>3, ReturnJobs DEF Ask, stripe
  <2>2. BoundsOK'
    BY <1>0, <1>3, FaultOK DEF Ask, BoundsOK
  <2>4. RowOK'
    BY <1>0, <1>3 DEF Ask, RowOK, Row, Statuses
  <2> QED
    BY <1>3, <2>1, <2>2, <2>4 DEF Ask, Shape, StripeOK, RedisOK, stripe, redis, Paid
<1>4. CASE SweepWrite(w)
  <2>1. JobsOK'
    BY <1>0, <1>4, ReturnJobs DEF SweepWrite, stripe
  <2>2. BoundsOK'
    BY <1>0, <1>4, NoteOK DEF SweepWrite, BoundsOK, bounds
  <2>4. RowOK'
    BY <1>0, <1>4 DEF SweepWrite, RowOK, Row, Statuses
  <2> QED
    BY <1>4, <2>1, <2>2, <2>4 DEF SweepWrite, Shape, StripeOK, RedisOK, stripe, redis, Paid
<1> QED
  BY <1>1, <1>2, <1>3, <1>4

\* The deposit: the page, Stripe, the stamps and the refund.
LEMMA DepositShape ==
  ASSUME Shape, Charge \/ Stamp \/ Restamp \/ Refund
  PROVE  Shape'
<1>0. BoundsOK /\ JobsOK /\ RowOK /\ {"raced", "kept"} \subseteq Slack
  BY DEF Shape, Slack
<1>1. UNCHANGED <<stripe, redis, worker>>
  BY DEF Charge, Stamp, Restamp, Refund
<1>2. JobsOK'
  BY <1>0, <1>1, SameJobs DEF stripe
<1>3. BoundsOK'
  <2>1. CASE Charge
    BY <1>0, <2>1 DEF Charge, BoundsOK, bounds
  <2>2. CASE Stamp
    BY <1>0, <2>2, NoteOK, DealAssumption DEF Stamp, BoundsOK
  <2>3. CASE Restamp
    BY <1>0, <2>3, NoteOK DEF Restamp, BoundsOK, bounds
  <2>4. CASE Refund
    BY <1>0, <2>4, NoteOK DEF Refund, BoundsOK, bounds
  <2> QED
    BY <2>1, <2>2, <2>3, <2>4
<1>4. RowOK'
  BY <1>0 DEF RowOK, Row, Statuses, Charge, Stamp, Restamp, Refund
<1> QED
  BY <1>1, <1>2, <1>3, <1>4 DEF Shape, StripeOK, RedisOK, stripe, redis, Paid

LEMMA VisitShape ==
  ASSUME Shape, NEW w \in Workers, Visit(w)
  PROVE  Shape'
<1>1. JobsOK'
  <2>1. CASE Begin(w, Idle)
    BY <2>1, IdleFit, PutJobs DEF Visit, Begin, stripe, Shape
  <2>2. CASE Begin(w, [Idle EXCEPT !.pc = "ask"])
    BY <2>2, BeginJobs DEF Visit
  <2> QED
    BY <2>1, <2>2 DEF Visit
<1>2. BoundsOK'
  BY DEF Visit, Shape, BoundsOK, bounds
<1> QED
  BY <1>1, <1>2, OnlyJob DEF Visit

\* Sends of the final invoice.
LEMMA SendShape ==
  ASSUME Shape, NEW w \in Workers, SendClaim(w) \/ SendMint(w) \/ SendWrite(w)
  PROVE  Shape'
<1>0. BoundsOK /\ JobsOK /\ RowOK /\ StripeOK /\ RedisOK
  BY DEF Shape
<1>a. worker[w] \in Job /\ Fit(worker[w], session)
  BY <1>0 DEF JobsOK
<1>1. CASE SendClaim(w)
  <2>1. Fit([worker[w] EXCEPT !.pc = "sendMint"], session) /\ "sendMint" \in PCs
    BY <1>a DEF Fit, Settling, Job, PCs, Invoicing
  <2>2. JobsOK'
    BY <1>0, <1>1, <2>1, GoJobs, ReturnJobs DEF SendClaim, stripe
  <2> QED
    BY <1>0, <1>1, <2>2 DEF SendClaim, Shape, RowOK, BoundsOK, StripeOK, RedisOK, stripe, bounds, Paid
<1>2. CASE SendMint(w)
  <2>1. ASSUME NEW s \in Sessions,
               Put(w, [worker[w] EXCEPT !.pc = "sendWrite", !.s = s]),
               \A r \in Sessions : session[r] = "paid" => session'[r] = "paid"
        PROVE  JobsOK'
    <3> DEFINE x == [worker[w] EXCEPT !.pc = "sendWrite", !.s = s]
    <3>1. x \in Job /\ Fit(x, session')
      BY <1>a DEF Job, Fit, PCs, Invoicing, Settling
    <3> HIDE DEF x
    <3> QED
      BY <1>0, <2>1, <3>1, PutJobs DEF x
  <2>2. CASE stored # None /\ Put(w, [worker[w] EXCEPT !.pc = "sendWrite", !.s = stored])
             /\ UNCHANGED <<session, stored>>
    <3>1. JobsOK'
      BY <1>0, <2>1, <2>2 DEF StripeOK
    <3> QED
      BY <1>0, <1>2, <2>2, <3>1 DEF SendMint, Shape, RowOK, BoundsOK, StripeOK, RedisOK, redis, bounds, Paid
  <2>3. ASSUME NEW s \in Sessions, Fresh(s), session' = [session EXCEPT ![s] = "open"],
               stored' = s, Put(w, [worker[w] EXCEPT !.pc = "sendWrite", !.s = s])
        PROVE  Shape'
    <3>1. \A r \in Sessions : session[r] = "paid" => session'[r] = "paid"
      BY <1>0, <2>3 DEF StripeOK, Fresh
    <3>2. JobsOK'
      BY <2>1, <2>3, <3>1
    <3>3. Paid \subseteq Paid'
      BY <3>1 DEF Paid
    <3>4. StripeOK' /\ RedisOK'
      BY <1>0, <1>2, <2>3, <3>3 DEF SendMint, StripeOK, RedisOK, redis
    <3> QED
      BY <1>0, <1>2, <3>2, <3>4 DEF SendMint, Shape, RowOK, BoundsOK, bounds
  <2> QED
    BY <1>2, <2>2, <2>3 DEF SendMint
<1>3. CASE SendWrite(w)
  <2>1. worker[w].s \in Sessions
    BY <1>a, <1>3 DEF Fit, SendWrite, At
  <2>2. \A r \in Sessions : session[r] = "paid" => session'[r] = "paid"
    BY <1>0, <1>3 DEF StripeOK, SendWrite, Show
  <2>3. JobsOK'
    BY <1>0, <1>3, <2>2, ReturnJobs DEF SendWrite
  <2>4. Paid \subseteq Paid'
    BY <2>2 DEF Paid
  <2>5. session' \in [Sessions -> {"none", "open", "shown", "expired", "paid"}]
    BY <1>0, <1>3, <2>1 DEF StripeOK, SendWrite, Show
  <2>6. StripeOK' /\ RedisOK'
    BY <1>0, <1>3, <2>4, <2>5 DEF SendWrite, StripeOK, RedisOK, redis
  <2>7. RowOK'
    BY <1>0, <1>3, <2>1 DEF SendWrite, RowOK, Row, Statuses
  <2>8. BoundsOK'
    BY <1>0, <1>3, FaultOK DEF SendWrite, BoundsOK
  <2> QED
    BY <2>3, <2>6, <2>7, <2>8 DEF Shape
<1> QED
  BY <1>1, <1>2, <1>3

\* Clicks on the durable link.
LEMMA ClickShape ==
  ASSUME Shape, NEW w \in Workers,
         Click(w) \/ Look(w) \/ ClickClaim(w) \/ ClickMint(w) \/ ClickStamp(w)
  PROVE  Shape'
<1>0. BoundsOK /\ JobsOK /\ RowOK /\ StripeOK /\ RedisOK
  BY DEF Shape
<1>a. worker[w] \in Job /\ Fit(worker[w], session)
  BY <1>0 DEF JobsOK
<1>b. "strayed" \in Slack
  BY DEF Slack
<1>1. CASE Click(w)
  <2> DEFINE x == [Idle EXCEPT !.pc = "clickLook", !.s = deal.ptr]
  <2>1. x \in Job /\ Fit(x, session)
    BY <1>0, <1>1, IdleFit DEF Click, RowOK, Job, Fit, PCs, Invoicing, Settling, Idle
  <2>2. Put(w, x)
    BY <1>1 DEF Click, Begin
  <2>3. JobsOK'
    <3> HIDE DEF x
    <3> QED BY <1>0, <1>1, <2>1, <2>2, PutJobs DEF Click, stripe
  <2> QED
    BY <1>0, <1>1, <2>3, OnlyJob DEF Click, BoundsOK, bounds
<1>2. CASE Look(w)
  <2> DEFINE x == [Idle EXCEPT !.pc = "clickClaim"]
  <2>1. x \in Job /\ Fit(x, session)
    BY IdleFit DEF Job, Fit, PCs, Invoicing, Settling, Idle
  <2>2. Put(w, x) \/ Return(w)
    BY <1>2 DEF Look
  <2>3. JobsOK'
    <3> HIDE DEF x
    <3> QED BY <1>0, <1>2, <2>1, <2>2, PutJobs, ReturnJobs DEF Look, stripe
  <2>4. slack' \subseteq Slack
    BY <1>0, <1>2, NoteOK, <1>b DEF Look, BoundsOK
  <2>5. BoundsOK'
    BY <1>0, <1>2, <2>4, FaultOK DEF Look, BoundsOK
  <2> QED
    BY <1>2, <2>3, <2>5, OnlyJob DEF Look
<1>3. CASE ClickClaim(w)
  <2>1. Fit([worker[w] EXCEPT !.pc = "clickMint"], session) /\ "clickMint" \in PCs
    BY <1>a DEF Fit, Settling, Job, PCs, Invoicing
  <2>2. JobsOK'
    BY <1>0, <1>3, <2>1, GoJobs, ReturnJobs DEF ClickClaim, stripe
  <2> QED
    BY <1>0, <1>3, <2>2 DEF ClickClaim, Shape, RowOK, BoundsOK, StripeOK, RedisOK, stripe, bounds, Paid
<1>4. CASE ClickMint(w)
  <2>1. PICK s \in Sessions : /\ Fresh(s) /\ session' = [session EXCEPT ![s] = "open"]
                              /\ Put(w, [worker[w] EXCEPT !.pc = "clickStamp", !.s = s])
    BY <1>4 DEF ClickMint
  <2> DEFINE x == [worker[w] EXCEPT !.pc = "clickStamp", !.s = s]
  <2>2. \A r \in Sessions : session[r] = "paid" => session'[r] = "paid"
    BY <1>0, <2>1 DEF StripeOK, Fresh
  <2>3. x \in Job /\ Fit(x, session')
    BY <1>a DEF Job, Fit, PCs, Invoicing, Settling
  <2>4. Put(w, x)
    BY <2>1
  <2>5. JobsOK'
    <3> HIDE DEF x
    <3> QED BY <1>0, <2>2, <2>3, <2>4, PutJobs
  <2>6. Paid \subseteq Paid'
    BY <2>2 DEF Paid
  <2>7. StripeOK' /\ RedisOK'
    BY <1>0, <1>4, <2>1, <2>6 DEF ClickMint, StripeOK, RedisOK, redis
  <2> QED
    BY <1>0, <1>4, <2>5, <2>7 DEF ClickMint, Shape, RowOK, BoundsOK, bounds
<1>5. CASE ClickStamp(w)
  <2>1. worker[w].s \in Sessions
    BY <1>a, <1>5 DEF Fit, ClickStamp, At
  <2>2. \A r \in Sessions : session[r] = "paid" => session'[r] = "paid"
    BY <1>0, <1>5 DEF StripeOK, ClickStamp, Show
  <2>3. JobsOK'
    BY <1>0, <1>5, <2>2, ReturnJobs DEF ClickStamp
  <2>4. Paid \subseteq Paid'
    BY <2>2 DEF Paid
  <2>5. session' \in [Sessions -> {"none", "open", "shown", "expired", "paid"}]
    BY <1>0, <1>5, <2>1 DEF StripeOK, ClickStamp, Show
  <2>6. StripeOK' /\ RedisOK'
    BY <1>0, <1>5, <2>4, <2>5 DEF ClickStamp, StripeOK, RedisOK, redis
  <2>7. RowOK'
    BY <1>0, <1>5, <2>1 DEF ClickStamp, RowOK, Row
  <2>8. slack' \subseteq Slack
    BY <1>0, <1>5, NoteOK, <1>b DEF ClickStamp, BoundsOK
  <2>9. BoundsOK'
    BY <1>0, <1>5, <2>8, FaultOK DEF ClickStamp, BoundsOK
  <2> QED
    BY <2>3, <2>6, <2>7, <2>9 DEF Shape
<1> QED
  BY <1>1, <1>2, <1>3, <1>4, <1>5

\* What Stripe and the two keys do by themselves.
LEMMA OutsideShape ==
  ASSUME Shape, \/ \E s \in Sessions : Pay(s) \/ Expire(s) \/ LapseSettle(s)
                \/ Forget \/ LapseMint
  PROVE  Shape'
<1>0. BoundsOK /\ JobsOK /\ RowOK /\ StripeOK /\ RedisOK
  BY DEF Shape
<1>1. deal' = deal /\ worker' = worker /\ UNCHANGED <<deposit, slack, bounds>>
  BY DEF Pay, Expire, LapseSettle, Forget, LapseMint
<1>2. \A r \in Sessions : session[r] = "paid" => session'[r] = "paid"
  BY <1>0 DEF StripeOK, Pay, Expire, LapseSettle, Forget, LapseMint, stripe
<1>3. JobsOK'
  BY <1>0, <1>1, <1>2, SameJobs
<1>4. Paid \subseteq Paid'
  BY <1>2 DEF Paid
<1>5. session' \in [Sessions -> {"none", "open", "shown", "expired", "paid"}]
  BY <1>0 DEF StripeOK, Pay, Expire, LapseSettle, Forget, LapseMint, stripe
<1>6. inbox' \subseteq Paid'
  <2>1. ASSUME NEW s \in Sessions, Pay(s) PROVE inbox' \subseteq Paid'
    BY <1>0, <1>4, <2>1 DEF StripeOK, Pay, Paid
  <2>2. CASE inbox' = inbox
    BY <1>0, <1>4, <2>2 DEF StripeOK
  <2> QED
    BY <2>1, <2>2 DEF Expire, LapseSettle, Forget, LapseMint, stripe
<1>7. stored' \in Sessions \cup {None}
  BY <1>0 DEF StripeOK, Pay, Expire, LapseSettle, Forget, LapseMint, stripe
<1>8. mint' \in {"free", "held"} /\ settling' \subseteq settling
  BY <1>0 DEF RedisOK, Pay, Expire, LapseSettle, Forget, LapseMint, redis
<1> QED
  BY <1>0, <1>1, <1>3, <1>4, <1>5, <1>6, <1>7, <1>8
     DEF Shape, RowOK, StripeOK, RedisOK, BoundsOK, bounds

\* The settling of the balance, and the cron that reminds of it.
LEMMA SettleShape ==
  ASSUME Shape, NEW w \in Workers,
         SettleClaim(w) \/ SettleRead(w) \/ SettleStamp(w) \/ SettleClose(w)
  PROVE  Shape'
<1>0. BoundsOK /\ JobsOK /\ RowOK /\ StripeOK /\ RedisOK /\ "pending" \in Slack
  BY DEF Shape, Slack
<1>a. worker[w] \in Job /\ Fit(worker[w], session) /\ worker[w].pc \in Settling
  BY <1>0 DEF JobsOK, SettleClaim, SettleRead, SettleStamp, SettleClose, At, Settling
<1>b. worker[w].s \in Paid
  BY <1>a DEF Fit, Paid
<1>1. session' = session /\ stored' = stored /\ Paid' = Paid
  BY DEF SettleClaim, SettleRead, SettleStamp, SettleClose, stripe, Paid
<1>2. ASSUME NEW p \in Settling, Go(w, p) PROVE JobsOK'
  <2>1. Fit([worker[w] EXCEPT !.pc = p], session) /\ p \in PCs
    BY <1>a DEF Fit, Settling, Job, PCs
  <2> QED
    BY <1>0, <1>1, <1>2, <2>1, GoJobs
<1>3. ASSUME Done(w) PROVE JobsOK' /\ inbox' \subseteq inbox
  BY <1>0, <1>1, <1>3, ReturnJobs DEF Done
<1>4. JobsOK' /\ inbox' \subseteq inbox
  BY <1>2, <1>3 DEF SettleClaim, SettleRead, SettleStamp, SettleClose, Settling, stripe
<1>5. StripeOK' /\ RedisOK'
  BY <1>0, <1>b, <1>1, <1>4 DEF SettleClaim, SettleRead, SettleStamp, SettleClose, StripeOK, RedisOK, redis
<1>6. RowOK'
  BY <1>0 DEF SettleClaim, SettleRead, SettleStamp, SettleClose, RowOK, Row, Statuses
<1>7. BoundsOK'
  <2>1. CASE SettleClaim(w) \/ SettleRead(w)
    BY <1>0, <2>1 DEF SettleClaim, SettleRead, BoundsOK, bounds
  <2>2. CASE SettleStamp(w)
    BY <1>0, <2>2, FaultOK DEF SettleStamp, BoundsOK
  <2>3. CASE SettleClose(w)
    BY <1>0, <2>3, NoteOK DEF SettleClose, BoundsOK, bounds
  <2> QED
    BY <2>1, <2>2, <2>3
<1> QED
  BY <1>4, <1>5, <1>6, <1>7 DEF Shape

LEMMA DunShape ==
  ASSUME Shape, NEW w \in Workers,
         \/ Dun(w) \/ Resolve(w) \/ Remind(w) \/ Signal(w) \/ Sweep(w) \/ Crash(w)
         \/ \E s \in Sessions : Deliver(w, s)
  PROVE  Shape'
<1>0. BoundsOK /\ JobsOK /\ RowOK /\ StripeOK /\ RedisOK /\ {"loud", "unheard"} \subseteq Slack
  BY DEF Shape, Slack
<1>a. worker[w] \in Job /\ Fit(worker[w], session)
  BY <1>0 DEF JobsOK
<1>b. UNCHANGED <<deal, stripe, redis>>
  BY DEF Dun, Resolve, Remind, Signal, Sweep, Crash, Deliver
<1>c. BoundsOK'
  <2>1. CASE Signal(w) \/ Crash(w)
    BY <1>0, <2>1, FaultOK, NoteOK DEF Signal, Crash, BoundsOK
  <2>2. CASE Dun(w) \/ Resolve(w) \/ Remind(w) \/ Sweep(w) \/ \E s \in Sessions : Deliver(w, s)
    BY <1>0, <2>2, FaultOK, MoveOK DEF Dun, Resolve, Remind, Sweep, Deliver, BoundsOK, bounds
  <2> QED
    BY <2>1, <2>2
<1>d. ASSUME NEW x \in Job, Fit(x, session), Put(w, x) PROVE JobsOK'
  BY <1>0, <1>b, <1>d, PutJobs DEF stripe
<1>1. CASE Dun(w)
  <2> DEFINE x == [Idle EXCEPT !.pc = "resolve", !.s = deal.ptr,
                               !.owed = IF Paid = {} THEN "yes" ELSE "no"]
  <2>1. x \in Job /\ Fit(x, session)
    BY <1>0, <1>1, IdleFit DEF Dun, RowOK, Job, Fit, PCs, Settling, Idle
  <2>2. Put(w, x)
    BY <1>1 DEF Dun, Begin
  <2> HIDE DEF x
  <2> QED
    BY <1>b, <1>c, <1>d, <2>1, <2>2, OnlyJob
<1>2. CASE Resolve(w)
  <2> DEFINE x == [Idle EXCEPT !.pc = "settleClaim", !.s = worker[w].s]
  <2>1. session[worker[w].s] = "paid" => x \in Job /\ Fit(x, session)
    BY <1>a, <1>2, IdleFit DEF Resolve, At, Job, Fit, PCs, Settling, Idle
  <2>2. Fit([worker[w] EXCEPT !.pc = "remind"], session) /\ "remind" \in PCs
    BY <1>a DEF Fit, Settling, Job, PCs
  <2>3. JobsOK'
    <3>1. CASE Go(w, "remind")
      BY <1>0, <1>b, <2>2, <3>1, GoJobs DEF stripe
    <3>2. CASE Return(w)
      BY <1>0, <1>b, <3>2, ReturnJobs DEF stripe
    <3>3. CASE session[worker[w].s] = "paid" /\ Put(w, x)
      <4> HIDE DEF x
      <4> QED BY <1>d, <2>1, <3>3
    <3> QED
      BY <1>2, <3>1, <3>2, <3>3 DEF Resolve
  <2> QED
    BY <1>b, <1>c, <2>3, OnlyJob
<1>3. CASE Remind(w) \/ Signal(w) \/ Crash(w)
  <2>1. JobsOK'
    BY <1>0, <1>b, <1>3, ReturnJobs DEF Remind, Signal, Crash, stripe
  <2> QED
    BY <1>b, <1>c, <2>1, OnlyJob
<1>4. CASE Sweep(w)
  <2>1. JobsOK'
    BY <1>b, <1>4, BeginJobs DEF Sweep
  <2> QED
    BY <1>b, <1>c, <2>1, OnlyJob
<1>5. ASSUME NEW s \in Sessions, Deliver(w, s) PROVE Shape'
  <2> DEFINE x == [Idle EXCEPT !.pc = "settleClaim", !.to = "ack", !.s = s]
  <2>1. x \in Job /\ Fit(x, session)
    BY <1>0, <1>5, IdleFit DEF Deliver, StripeOK, Paid, Job, Fit, PCs, Settling, Idle
  <2>2. Put(w, x)
    BY <1>5 DEF Deliver, Begin
  <2> HIDE DEF x
  <2> QED
    BY <1>b, <1>c, <1>d, <2>1, <2>2, OnlyJob
<1> QED
  BY <1>1, <1>2, <1>3, <1>4, <1>5

LEMMA NextShape == Shape /\ [Next]_vars => Shape'
<1> SUFFICES ASSUME Shape, [Next]_vars PROVE Shape'
  OBVIOUS
<1>1. ASSUME NEW w \in Workers,
             Rancher(w) \/ Visit(w) \/ Click(w) \/ Dun(w) \/ Sweep(w) \/ Step(w) \/ Crash(w)
      PROVE  Shape'
  BY <1>1, RancherShape, VisitShape, ClickShape, DunShape, MoveShape, SendShape, SettleShape DEF Step
<1>2. ASSUME NEW w \in Workers, NEW s \in Sessions, Deliver(w, s) PROVE Shape'
  BY <1>2, DunShape
<1>3. CASE UNCHANGED vars
  <2>1. JobsOK'
    BY <1>3, SameJobs DEF vars, Shape, stripe
  <2> QED
    BY <1>3, <2>1 DEF vars, Shape, RowOK, StripeOK, RedisOK, BoundsOK, stripe, redis, bounds, Paid
<1> QED
  BY <1>1, <1>2, <1>3, DepositShape, OutsideShape DEF Next

\* The inductive invariant of the types holds.
THEOREM ShapeHolds == Spec => []Shape
  BY InitShape, NextShape, PTL DEF Spec

\* The row, Stripe, the keys and the invocations keep the shape the code gives
\* them, and only a paid session is acknowledged or settled.
THEOREM DealTypes == Spec => []TypeOK
  BY ShapeHolds, ShapeTypes, PTL

\* What an invocation that moves on becomes.
LEMMA GoPut ==
  ASSUME Shape, NEW w \in Workers, NEW p, Go(w, p)
  PROVE  \E x : Put(w, x) /\ x.pc = p /\ x.s = worker[w].s /\ x.owed = worker[w].owed
<1> DEFINE x == [worker[w] EXCEPT !.pc = p]
<1>1. Put(w, x) /\ x.pc = p /\ x.s = worker[w].s /\ x.owed = worker[w].owed
  BY DEF Go, Put, Job, Shape, JobsOK
<1> HIDE DEF x
<1> QED
  BY <1>1

LEMMA ReturnPut == ASSUME NEW w \in Workers, Return(w) PROVE \E x : Put(w, x) /\ x.pc = "idle"
<1>1. Idle.pc = "idle"
  BY DEF Idle
<1> QED
  BY <1>1 DEF Return

\* A decision that is written is over, but for the word to the operator.
LEMMA WritePut ==
  ASSUME Shape, NEW w \in Workers, Write(w)
  PROVE  \E p \in {"idle", "signal"} : \E x : Put(w, x) /\ x.pc = p
<1>1. CASE Return(w)
  BY <1>1, ReturnPut
<1>2. CASE Go(w, "signal")
  BY <1>2, GoPut
<1> QED
  BY <1>1, <1>2 DEF Write

-----------------------------------------------------------------------------
(* A paid deal stands, an invoiced one is chased, a refunded one owes nothing. *)

Stood == {"Closed Won", "Awaiting Payment", "Slot Locked"}
Paying == {"settled", "refunded"}
Sending == {"sendClaim", "sendMint", "sendWrite"}

\* What an invocation holds against the row: a decision on a paid deal keeps it
\* standing, an invoice is of a deposit that settled, and none is of one that went back.
Heeds(x) ==
  /\ deal.paid = "yes" /\ "raced" \notin slack /\ x.pc \in {"machine", "write", "fallback"}
       => x.to \in Stood
  /\ x.pc \in Sending => deposit \in Paying
  /\ deposit = "refunded" /\ "raced" \notin slack /\ "kept" \notin slack => x.pc \notin Invoicing

RowStands ==
  /\ deal.paid = "yes" /\ faults = 0 /\ "raced" \notin slack /\ "swept" \notin slack
       => deal.status \in Stood
  /\ deal.sent = "yes" /\ deal.paid = "yes" /\ "raced" \notin slack /\ "late" \notin slack
       /\ "swept" \notin slack => deal.status \in {"Awaiting Payment", "Closed Won"}
  /\ deposit = "unstamped" => faults # 0
  /\ deal.sent = "yes" \/ deal.paid = "yes" => deposit \in Paying
  /\ deposit = "refunded" /\ "raced" \notin slack /\ "kept" \notin slack => deal.paid = "no"
Stands == RowStands /\ \A w \in Workers : Heeds(worker[w])

LEMMA InitStands == Init => Stands
<1> SUFFICES ASSUME Init PROVE Stands
  OBVIOUS
<1>1. deal.paid = "no" /\ deal.sent = "no" /\ deposit = "none"
  BY DEF Init
<1>2. RowStands
  BY <1>1 DEF RowStands
<1>3. \A w \in Workers : worker[w].pc = "idle"
  BY DEF Init, Idle
<1> QED
  BY <1>2, <1>3 DEF Stands, Heeds, Sending, Invoicing

\* A step of one invocation that writes neither the row nor the deposit.
LEMMA PutStands ==
  ASSUME Shape, Stands, NEW w \in Workers, NEW x, Put(w, x), Heeds(x),
         UNCHANGED <<deal, deposit>>, slack \subseteq slack', faults' = 0 => faults = 0
  PROVE  Stands'
<1>0. worker \in [Workers -> Job]
  BY DEF Shape, JobsOK
<1>1. RowStands'
  BY DEF Stands, RowStands, Stood, Paying
<1>2. ASSUME NEW v \in Workers PROVE Heeds(worker[v])'
  <2>1. worker'[v] = x \/ worker'[v] = worker[v]
    BY <1>0 DEF Put
  <2> QED
    BY <2>1 DEF Stands, Heeds, Stood, Paying, Sending, Invoicing
<1> QED
  BY <1>1, <1>2 DEF Stands

\* A step that writes the row or the deposit, and sends its invocation home or to
\* the operator.
LEMMA LeaveStands ==
  ASSUME Shape, Stands, NEW w \in Workers, NEW p \in {"idle", "signal"},
         \E x : Put(w, x) /\ x.pc = p,
         RowStands', deposit' = deposit, deal'.paid = deal.paid, slack \subseteq slack'
  PROVE  Stands'
<1>0. worker \in [Workers -> Job]
  BY DEF Shape, JobsOK
<1>1. ASSUME NEW v \in Workers PROVE Heeds(worker[v])'
  <2>1. worker'[v].pc = p \/ worker'[v] = worker[v]
    BY <1>0 DEF Put
  <2> QED
    BY <2>1 DEF Stands, Heeds, Stood, Paying, Sending, Invoicing
<1> QED
  BY <1>1 DEF Stands

LEMMA ReturnStands ==
  ASSUME Shape, Stands, NEW w \in Workers, Return(w), RowStands', deposit' = deposit,
         deal'.paid = deal.paid, slack \subseteq slack'
  PROVE  Stands'
  BY LeaveStands, ReturnPut

LEMMA IdleHeeds == Heeds(Idle)
  BY DEF Heeds, Idle, Sending, Invoicing

LEMMA MoveStands ==
  ASSUME Shape, Stands, NEW w \in Workers, Machine(w) \/ Write(w) \/ Ask(w) \/ SweepWrite(w)
  PROVE  Stands'
<1>0. faults \in Nat /\ worker \in [Workers -> Job] /\ deal \in Row
  BY DEF Shape, BoundsOK, JobsOK, RowOK
<1>1. CASE Machine(w)
  <2>1. PICK p \in {"write", "fallback"} : Go(w, p)
    BY <1>1 DEF Machine
  <2> DEFINE x == [worker[w] EXCEPT !.pc = p]
  <2>2. Put(w, x) /\ x.pc = p /\ x.to = worker[w].to
    BY <1>0, <2>1 DEF Go, Put, Job
  <2> HIDE DEF x
  <2>3. Heeds(x)
    BY <1>1, <2>2 DEF Machine, At, Stands, Heeds, Sending, Invoicing
  <2> QED
    BY <1>0, <1>1, <2>2, <2>3, PutStands DEF Machine, bounds
<1>2. CASE Write(w)
  <2>1. deal.paid = "yes" /\ "raced" \notin slack => worker[w].to \in Stood
    BY <1>2 DEF Write, At, Stands, Heeds
  <2>2. RowStands'
    BY <1>0, <1>2, <2>1 DEF Write, Stands, RowStands, bounds, Row, Stood, Paying
  <2>3. PICK p \in {"idle", "signal"} : \E x : Put(w, x) /\ x.pc = p
    BY <1>2, WritePut
  <2> QED
    BY <1>0, <1>2, <2>2, <2>3, LeaveStands DEF Write, Row
<1>3. CASE Ask(w)
  <2>1. (faults' = 0 => faults = 0) /\ slack' = slack /\ deposit' = deposit
    BY <1>0, <1>3 DEF Ask, Fault
  <2>a. deal' = [deal EXCEPT !.status = "Awaiting Payment", !.asked = "yes"] \/ deal' = deal
    BY <1>3 DEF Ask
  <2>2. RowStands'
    BY <1>0, <2>1, <2>a DEF Stands, RowStands, Row, Stood, Paying
  <2> QED
    BY <1>0, <1>3, <2>1, <2>2, ReturnStands DEF Ask, Row
<1>4. CASE SweepWrite(w)
  <2>1. RowStands'
    BY <1>0, <1>4 DEF SweepWrite, Stands, RowStands, Row, Stood, Paying, Note, bounds
  <2> QED
    BY <1>0, <1>4, <2>1, ReturnStands DEF SweepWrite, Row, Note
<1> QED
  BY <1>1, <1>2, <1>3, <1>4

LEMMA DepositStands ==
  ASSUME Shape, Stands, Charge \/ Stamp \/ Restamp \/ Refund
  PROVE  Stands'
<1>0. faults \in Nat /\ worker \in [Workers -> Job] /\ deal \in Row
  BY DEF Shape, BoundsOK, JobsOK, RowOK
<1>a. worker' = worker
  BY DEF Charge, Stamp, Restamp, Refund
<1>1. CASE Charge
  BY <1>0, <1>1 DEF Charge, Stands, RowStands, Heeds, Paying, bounds, Stood
<1>2. ASSUME deposit = "charged", deposit' = "unstamped", deal' = deal, slack' = slack, faults' # 0
      PROVE  Stands'
  <2>1. RowStands'
    BY <1>0, <1>2 DEF Stands, RowStands, Paying, Stood
  <2> QED
    BY <1>a, <1>2, <2>1 DEF Stands, Heeds, Paying, Stood
<1>3. ASSUME deposit \in {"charged", "unstamped"}, deposit' = "settled",
             Note("raced", In(Deciding) # {}), faults' = faults,
             \/ deal' = [deal EXCEPT !.status = "Awaiting Payment", !.paid = "yes"]
             \/ faults # 0 /\ deal' = [deal EXCEPT !.paid = "yes"]
      PROVE  Stands'
  <2>0. deal.sent = "no" /\ slack \subseteq slack'
    BY <1>0, <1>3 DEF Stands, RowStands, Paying, Row, Note
  <2>1. RowStands'
    BY <1>0, <1>3, <2>0 DEF Stands, RowStands, Paying, Row, Stood
  <2>2. ASSUME NEW v \in Workers PROVE Heeds(worker[v])'
    <3>1. "raced" \notin slack' => worker[v].pc \notin Deciding
      BY <1>3 DEF Note, In
    <3>2. worker[v].pc \notin Sending
      BY <1>3 DEF Stands, Heeds, Paying
    <3> QED
      BY <1>3, <1>a, <3>1, <3>2 DEF Heeds, Paying, Sending, Deciding
  <2> QED
    BY <2>1, <2>2 DEF Stands
<1>4. CASE Refund
  <2>1. RowStands'
    BY <1>0, <1>4 DEF Refund, Stands, RowStands, Paying, Row, Note, Stood, bounds
  <2>2. ASSUME NEW v \in Workers PROVE Heeds(worker[v])'
    BY <1>0, <1>4 DEF Refund, Stands, Heeds, Paying, Sending, Row, Note, In, Invoicing, Stood
  <2> QED
    BY <2>1, <2>2 DEF Stands
<1>5. CASE Stamp
  <2>1. faults < MaxFaults /\ faults' = faults + 1 => faults' # 0
    BY <1>0
  <2> QED
    BY <1>2, <1>3, <1>5, <2>1 DEF Stamp
<1>6. CASE Restamp
  <2>1. faults # 0
    BY <1>6 DEF Restamp, Stands, RowStands
  <2> QED
    BY <1>3, <1>6, <2>1 DEF Restamp, bounds
<1> QED
  BY <1>1, <1>4, <1>5, <1>6

\* The steps that only take a job: what is taken heeds the row as it is.
LEMMA RancherStands ==
  ASSUME Shape, Stands, NEW w \in Workers,
         Rancher(w) \/ Click(w) \/ Dun(w) \/ Sweep(w) \/ \E s \in Sessions : Deliver(w, s)
  PROVE  Stands'
<1>0. deal \in Row
  BY DEF Shape, RowOK
<1>1. UNCHANGED <<deal, deposit, faults>> /\ slack \subseteq slack'
  BY DEF Rancher, Patch, Quick, Confirm, Accept, Request, Send, Click, Dun, Sweep, Deliver, Note, bounds
<1>2. ASSUME NEW x, Begin(w, x), x.pc \notin {"machine", "write", "fallback"} \cup Invoicing
      PROVE Stands'
  <2>1. Heeds(x)
    BY <1>2 DEF Heeds, Sending, Invoicing
  <2> QED
    BY <1>1, <1>2, <2>1, PutStands DEF Begin
<1>3. ASSUME NEW x, Begin(w, x), x.pc \in {"machine", "write"},
             deal.paid = "yes" => x.to \in Stood
      PROVE Stands'
  <2>1. Heeds(x)
    BY <1>3 DEF Heeds, Sending, Invoicing
  <2> QED
    BY <1>1, <1>3, <2>1, PutStands DEF Begin
<1>4. ASSUME NEW x, Begin(w, x), x.pc \in {"sendClaim", "clickLook"}, deal.paid = "yes"
      PROVE Stands'
  <2>1. Heeds(x)
    BY <1>4 DEF Heeds, Sending, Invoicing, Stands, RowStands
  <2> QED
    BY <1>1, <1>4, <2>1, PutStands DEF Begin
<1>5. ASSUME NEW to \in Statuses, Patch(w, to) PROVE Stands'
  BY <1>3, <1>5 DEF Patch, Rails, Stood, Idle
<1>6. ASSUME NEW to \in Statuses, Quick(w, to) PROVE Stands'
  BY <1>3, <1>6 DEF Quick, Idle
<1>7. CASE Confirm(w)
  BY <1>3, <1>7 DEF Confirm, Stood, Idle
<1>8. CASE Accept(w)
  BY <1>3, <1>8 DEF Accept, Stood, Idle
<1>9. CASE Send(w)
  BY <1>4, <1>9 DEF Send, CanInvoice, Idle
<1>10. CASE Click(w)
  BY <1>4, <1>10 DEF Click, CanInvoice, Idle
<1>11. CASE Request(w) \/ Dun(w) \/ Sweep(w) \/ \E s \in Sessions : Deliver(w, s)
  BY <1>2, <1>11 DEF Request, Dun, Sweep, Deliver, Idle, Invoicing
<1>12. {"Open", "Closed Won", "Closed Lost"} \subseteq Statuses
  BY DEF Statuses
<1> QED
  BY <1>5, <1>6, <1>7, <1>8, <1>9, <1>10, <1>11, <1>12 DEF Rancher

\* The page opens a session for a deposit that was never paid.
LEMMA VisitStands ==
  ASSUME Shape, Stands, NEW w \in Workers, Visit(w)
  PROVE  Stands'
<1>0. worker \in [Workers -> Job] /\ deal' = deal /\ slack' = slack /\ faults' = faults
      /\ deposit = "none" /\ deposit' = "open"
  BY DEF Shape, JobsOK, Visit, bounds
<1>1. RowStands'
  BY <1>0 DEF Stands, RowStands, Stood, Paying
<1> DEFINE x == IF deal.asked = "no" THEN [Idle EXCEPT !.pc = "ask"] ELSE Idle
<1>2. worker' = [worker EXCEPT ![w] = x] /\ x.pc \in {"ask", "idle"}
  BY DEF Visit, Begin, Put, Idle
<1> HIDE DEF x
<1>3. ASSUME NEW v \in Workers PROVE Heeds(worker[v])'
  <2>1. worker'[v] = x \/ worker'[v] = worker[v]
    BY <1>0, <1>2
  <2>2. worker[v].pc \notin Sending
    BY <1>0 DEF Stands, Heeds, Paying
  <2> QED
    BY <1>0, <1>2, <2>1, <2>2 DEF Stands, Heeds, Stood, Sending
<1> QED
  BY <1>1, <1>3 DEF Stands

\* The steps of an invocation past its decision.
LEMMA StepStands ==
  ASSUME Shape, Stands, NEW w \in Workers, Step(w) \/ Crash(w)
  PROVE  Stands'
<1>0. worker \in [Workers -> Job] /\ deal \in Row /\ faults \in Nat /\ worker[w] \in Job
  BY DEF Shape, JobsOK, RowOK, BoundsOK
<1>1. Fault => (faults' = 0 => faults = 0)
  BY <1>0 DEF Fault
<1>2. ASSUME Return(w), deal' = deal, deposit' = deposit, slack \subseteq slack',
             faults' = 0 => faults = 0
      PROVE  Stands'
  BY <1>2, PutStands, IdleHeeds DEF Return
<1>3. ASSUME NEW x, Put(w, x), deal' = deal, deposit' = deposit, slack \subseteq slack',
             faults' = 0 => faults = 0,
             x.pc \notin {"machine", "write", "fallback"},
             x.pc \in Sending => worker[w].pc \in Sending,
             x.pc \in Invoicing => worker[w].pc \in Invoicing
      PROVE  Stands'
  <2>1. Heeds(x)
    BY <1>3 DEF Stands, Heeds
  <2> QED
    BY <1>3, <2>1, PutStands
<1>4. ASSUME NEW p \in PCs, Go(w, p), deal' = deal, deposit' = deposit, slack \subseteq slack',
             faults' = 0 => faults = 0,
             p \notin {"machine", "write", "fallback"},
             p \in Sending => worker[w].pc \in Sending,
             p \in Invoicing => worker[w].pc \in Invoicing
      PROVE  Stands'
  <2> DEFINE x == [worker[w] EXCEPT !.pc = p]
  <2>1. Put(w, x) /\ x.pc = p
    BY <1>0, <1>4 DEF Go, Put, Job
  <2> HIDE DEF x
  <2> QED
    BY <1>3, <1>4, <2>1
<1>5. CASE Machine(w) \/ Write(w) \/ Ask(w) \/ SweepWrite(w)
  BY <1>5, MoveStands
<1>6. CASE SendClaim(w) \/ ClickClaim(w)
  <2>1. CASE Return(w)
    BY <1>2, <1>6, <2>1 DEF SendClaim, ClickClaim, bounds
  <2>2. CASE Go(w, "sendMint") /\ SendClaim(w)
    BY <1>4, <2>2 DEF SendClaim, At, bounds, PCs, Sending, Invoicing
  <2>3. CASE Go(w, "clickMint") /\ ClickClaim(w)
    BY <1>4, <2>3 DEF ClickClaim, At, bounds, PCs, Sending, Invoicing
  <2> QED
    BY <1>6, <2>1, <2>2, <2>3 DEF SendClaim, ClickClaim
<1>7. CASE SendMint(w) \/ ClickMint(w)
  <2>1. ASSUME NEW s, Put(w, [worker[w] EXCEPT !.pc = "sendWrite", !.s = s]), SendMint(w)
        PROVE  Stands'
    <3> DEFINE x == [worker[w] EXCEPT !.pc = "sendWrite", !.s = s]
    <3>1. x.pc = "sendWrite"
      BY <1>0 DEF Job
    <3> HIDE DEF x
    <3> QED
      BY <1>3, <2>1, <3>1 DEF SendMint, At, bounds, Sending, Invoicing, x
  <2>2. ASSUME NEW s, Put(w, [worker[w] EXCEPT !.pc = "clickStamp", !.s = s]), ClickMint(w)
        PROVE  Stands'
    <3> DEFINE x == [worker[w] EXCEPT !.pc = "clickStamp", !.s = s]
    <3>1. x.pc = "clickStamp"
      BY <1>0 DEF Job
    <3> HIDE DEF x
    <3> QED
      BY <1>3, <2>2, <3>1 DEF ClickMint, At, bounds, Sending, Invoicing, x
  <2> QED
    BY <1>7, <2>1, <2>2 DEF SendMint, ClickMint
<1>8. CASE SendWrite(w)
  <2>1. CASE deal' = deal /\ Fault
    BY <1>1, <1>2, <1>8, <2>1 DEF SendWrite
  <2>2. CASE deal' = [deal EXCEPT !.status = "Awaiting Payment", !.sent = "yes", !.ptr = worker[w].s]
             /\ faults' = faults
    <3>1. deposit \in Paying
      BY <1>8 DEF SendWrite, At, Stands, Heeds, Sending
    <3>2. RowStands'
      BY <1>0, <1>8, <2>2, <3>1 DEF SendWrite, Stands, RowStands, Row, Stood, Paying
    <3> QED
      BY <1>0, <1>8, <2>2, <3>2, ReturnStands DEF SendWrite, Row
  <2> QED
    BY <1>8, <2>1, <2>2 DEF SendWrite
<1>9. CASE Look(w)
  <2>0. slack \subseteq slack'
    BY <1>9 DEF Look, Note
  <2>1. CASE Return(w)
    BY <1>1, <1>2, <1>9, <2>0, <2>1 DEF Look
  <2>2. CASE Put(w, [Idle EXCEPT !.pc = "clickClaim"])
    BY <1>1, <1>3, <1>9, <2>0, <2>2 DEF Look, At, Idle, Sending, Invoicing
  <2> QED
    BY <1>9, <2>1, <2>2 DEF Look
<1>10. CASE ClickStamp(w)
  <2>0. slack \subseteq slack'
    BY <1>10 DEF ClickStamp, Note
  <2>1. CASE deal' = deal
    BY <1>1, <1>2, <1>10, <2>0, <2>1 DEF ClickStamp
  <2>2. CASE deal' = [deal EXCEPT !.ptr = worker[w].s] /\ faults' = faults
    <3>1. RowStands'
      BY <1>0, <1>10, <2>0, <2>2 DEF ClickStamp, Stands, RowStands, Row, Stood, Paying
    <3> QED
      BY <1>0, <1>10, <2>0, <2>2, <3>1, ReturnStands DEF ClickStamp, Row
  <2> QED
    BY <1>10, <2>1, <2>2 DEF ClickStamp
<1>11. CASE SettleClaim(w) \/ SettleRead(w)
  <2>1. CASE Done(w)
    BY <1>2, <1>11, <2>1 DEF SettleClaim, SettleRead, Done, bounds
  <2>2. CASE Go(w, "settleRead") \/ Go(w, "settleStamp")
    BY <1>4, <1>11, <2>2 DEF SettleClaim, SettleRead, bounds, PCs, Sending, Invoicing
  <2> QED
    BY <1>11, <2>1, <2>2 DEF SettleClaim, SettleRead
<1>12. CASE SettleStamp(w)
  <2>1. CASE deal' = deal
    BY <1>1, <1>4, <1>12, <2>1 DEF SettleStamp, PCs, Sending, Invoicing
  <2>2. CASE deal' = [deal EXCEPT !.final = "yes"] /\ faults' = faults
    <3>1. RowStands'
      BY <1>0, <1>12, <2>2 DEF SettleStamp, Stands, RowStands, Row, Stood, Paying
    <3>2. worker'[w].pc = "settleClose" /\ \A v \in Workers \ {w} : worker'[v] = worker[v]
      BY <1>0, <1>12 DEF SettleStamp, Go, Job
    <3>3. deal'.paid = deal.paid
      BY <1>0, <2>2 DEF Row
    <3>4. ASSUME NEW v \in Workers PROVE Heeds(worker[v])'
      BY <1>12, <3>2, <3>3 DEF SettleStamp, Stands, Heeds, Stood, Paying, Sending, Invoicing
    <3> QED
      BY <3>1, <3>4 DEF Stands
  <2> QED
    BY <1>12, <2>1, <2>2 DEF SettleStamp
<1>13. CASE SettleClose(w)
  <2>1. RowStands'
    BY <1>0, <1>13 DEF SettleClose, Stands, RowStands, Row, Stood, Paying, Note, bounds
  <2> QED
    BY <1>0, <1>13, <2>1, ReturnStands DEF SettleClose, Done, Row, Note
<1>14. CASE Resolve(w)
  <2>1. CASE Return(w)
    BY <1>1, <1>2, <1>14, <2>1 DEF Resolve
  <2>2. CASE Go(w, "remind") /\ faults' = faults
    BY <1>4, <1>14, <2>2 DEF Resolve, PCs, Sending, Invoicing
  <2>3. CASE Put(w, [Idle EXCEPT !.pc = "settleClaim", !.s = worker[w].s]) /\ faults' = faults
    BY <1>3, <1>14, <2>3 DEF Resolve, Idle, Sending, Invoicing
  <2> QED
    BY <1>14, <2>1, <2>2, <2>3 DEF Resolve
<1>15. CASE Remind(w) \/ Signal(w) \/ Crash(w)
  BY <1>1, <1>2, <1>15 DEF Remind, Signal, Crash, Note, bounds
<1> QED
  BY <1>5, <1>6, <1>7, <1>8, <1>9, <1>10, <1>11, <1>12, <1>13, <1>14, <1>15 DEF Step

LEMMA OutsideStands ==
  ASSUME Stands, UNCHANGED <<deal, deposit, worker, slack, faults>>
  PROVE  Stands'
  BY DEF Stands, RowStands, Heeds, Stood, Paying, Sending, Invoicing

LEMMA NextStands == Shape /\ Stands /\ [Next]_vars => Stands'
<1> SUFFICES ASSUME Shape, Stands, [Next]_vars PROVE Stands'
  OBVIOUS
<1>1. ASSUME NEW w \in Workers,
             \/ Rancher(w) \/ Visit(w) \/ Click(w) \/ Dun(w) \/ Sweep(w) \/ Step(w) \/ Crash(w)
             \/ \E s \in Sessions : Deliver(w, s)
      PROVE  Stands'
  BY <1>1, RancherStands, VisitStands, StepStands
<1>2. CASE \/ \E s \in Sessions : Pay(s) \/ Expire(s) \/ LapseSettle(s)
           \/ Forget \/ LapseMint \/ UNCHANGED vars
  BY <1>2, OutsideStands DEF Pay, Expire, LapseSettle, Forget, LapseMint, vars, bounds
<1> QED
  BY <1>1, <1>2, DepositStands DEF Next

\* Row, deposit and decisions in flight agree at every step.
THEOREM StandsHolds == Spec => []Stands
<1>1. Shape /\ Stands /\ [Next]_vars => Stands'
  BY NextStands
<1> QED
  BY <1>1, InitStands, ShapeHolds, PTL DEF Spec

\* Once the deposit is paid and nothing failed, no rail of the rancher leaves the
\* deal open or lost, unless the deposit landed under a decision in flight.
THEOREM PaidDealStands == Spec => []PaidStands
<1>1. Stands => PaidStands
  BY DEF Stands, RowStands, PaidStands, Stood
<1> QED
  BY <1>1, StandsHolds, PTL

\* An invoiced, paid deal stays where the webhook and the cron look, whatever fails.
THEOREM InvoicedDealIsChased == Spec => []InvoicedIsChased
<1>1. Stands => InvoicedIsChased
  BY DEF Stands, RowStands, InvoicedIsChased
<1> QED
  BY <1>1, StandsHolds, PTL

\* Only an invocation that invoices opens a session.
LEMMA LiveSteps ==
  ASSUME Shape, Next, In(Invoicing) = {}
  PROVE  Live' \subseteq Live
<1>0. session \in [Sessions -> {"none", "open", "shown", "expired", "paid"}]
      /\ worker \in [Workers -> Job] /\ \A w \in Workers : worker[w].pc \notin Invoicing
  BY DEF Shape, StripeOK, JobsOK, In
<1>1. CASE session' = session
  BY <1>1 DEF Live
<1>2. ASSUME NEW s, Show(s) PROVE Live' \subseteq Live
  BY <1>0, <1>2 DEF Show, Live
<1>3. ASSUME NEW s \in Sessions, Pay(s) \/ Expire(s) PROVE Live' \subseteq Live
  BY <1>0, <1>3 DEF Pay, Expire, Live
<1>4. ASSUME NEW w \in Workers, Step(w) PROVE Live' \subseteq Live
  <2>1. ~SendMint(w) /\ ~ClickMint(w) /\ ~SendWrite(w)
    BY <1>0 DEF SendMint, ClickMint, SendWrite, At, Invoicing
  <2>2. CASE ClickStamp(w)
    BY <1>2, <2>2 DEF ClickStamp
  <2> QED
    BY <1>1, <1>4, <2>1, <2>2 DEF Step, Machine, Write, Signal, Ask, SendClaim, Look, ClickClaim, SettleClaim,
       SettleRead, SettleStamp, SettleClose, Resolve, Remind, SweepWrite, stripe
<1>5. ASSUME NEW w \in Workers,
             Rancher(w) \/ Visit(w) \/ Click(w) \/ Dun(w) \/ Sweep(w) \/ Crash(w)
             \/ \E s \in Sessions : Deliver(w, s)
      PROVE  Live' \subseteq Live
  BY <1>1, <1>5 DEF Rancher, Patch, Quick, Confirm, Accept, Request, Send, Visit, Click, Dun, Sweep,
     Crash, Deliver, stripe
<1>6. CASE Charge \/ Stamp \/ Restamp \/ Refund \/ Forget \/ LapseMint
           \/ \E s \in Sessions : LapseSettle(s)
  BY <1>1, <1>6 DEF Charge, Stamp, Restamp, Refund, Forget, LapseMint, LapseSettle, stripe
<1> QED
  BY <1>3, <1>4, <1>5, <1>6 DEF Next

\* No session for the balance is opened once the deposit went back.
THEOREM NoInvoiceOnceRefunded == Spec => RefundedOwesNothing
<1>1. Shape /\ Stands /\ [Next]_vars =>
        [deposit = "refunded" /\ slack \cap {"raced", "kept"} = {} => Live' \subseteq Live]_vars
  <2> SUFFICES ASSUME Shape, Stands, Next, deposit = "refunded", slack \cap {"raced", "kept"} = {}
               PROVE  Live' \subseteq Live
    OBVIOUS
  <2>1. In(Invoicing) = {}
    BY DEF Stands, Heeds, In
  <2> QED
    BY <2>1, LiveSteps
<1> QED
  BY <1>1, ShapeHolds, StandsHolds, PTL DEF Spec, RefundedOwesNothing

-----------------------------------------------------------------------------
(* Who may mint: what the key and the row say of the invocations.            *)

Minting  == {"sendMint", "sendWrite", "clickMint", "clickStamp"}
Clicking == {"clickLook", "clickClaim", "clickMint", "clickStamp"}
Special  == Invoicing \cup {"clickStamp", "resolve", "remind"}

\* A step that leaves the sessions, the key and the pointer alone ...
Calm ==
  /\ UNCHANGED <<session, stored, mint>> /\ slack \subseteq slack' /\ (faults' = 0 => faults = 0)
  /\ deal'.sent = deal.sent /\ deal'.ptr = deal.ptr

\* ... and whose invocation, if any, is not about to invoice or to remind, nor to mint
\* unless it dies.
Plain(w) ==
  /\ worker[w].pc \in Minting => faults' # 0
  /\ Calm /\ worker'[w].pc \notin Special /\ \A v \in Workers \ {w} : worker'[v] = worker[v]
  /\ deal'.final = "yes" => deal.final = "yes" \/ worker'[w].pc \in Settling

Still == Calm /\ worker' = worker /\ deal'.final = deal.final

LEMMA ReturnPlain ==
  ASSUME Shape, NEW w \in Workers, Return(w), Calm, deal'.final = deal.final,
         worker[w].pc \in Minting => faults' # 0
  PROVE  Plain(w)
  BY DEF Shape, JobsOK, Return, Put, Idle, Plain, Special, Invoicing

LEMMA BeginPlain ==
  ASSUME Shape, NEW w \in Workers, NEW x, Begin(w, x), x.pc \notin Special, Calm, deal'.final = deal.final
  PROVE  Plain(w)
  BY DEF Shape, JobsOK, Begin, At, Put, Plain, Minting

LEMMA GoPlain ==
  ASSUME Shape, NEW w \in Workers, NEW p \in PCs, Go(w, p), p \notin Special, Calm,
         deal'.final = "yes" => deal.final = "yes" \/ p \in Settling,
         worker[w].pc \notin Minting
  PROVE  Plain(w)
  BY DEF Shape, JobsOK, Job, Go, Plain

LEMMA RancherPlain ==
  ASSUME Shape, NEW w \in Workers,
         Rancher(w) \/ Visit(w) \/ Sweep(w) \/ \E s \in Sessions : Deliver(w, s)
  PROVE  Plain(w) \/ Send(w)
<1>1. Calm /\ deal'.final = deal.final
  BY DEF Calm, Rancher, Patch, Quick, Confirm, Accept, Request, Send, Visit, Sweep, Deliver, Note, stripe,
         redis, bounds
<1>2. ASSUME NEW x, Begin(w, x), x.pc \notin Special PROVE Plain(w)
  BY <1>1, <1>2, BeginPlain
<1>3. ASSUME NEW to, Patch(w, to) \/ Quick(w, to) PROVE Plain(w)
  BY <1>2, <1>3 DEF Patch, Rails, Quick, Idle, Special, Invoicing
<1>4. CASE Confirm(w) \/ Accept(w) \/ Request(w) \/ Sweep(w) \/ \E s \in Sessions : Deliver(w, s)
  BY <1>2, <1>4 DEF Confirm, Accept, Request, Sweep, Deliver, Idle, Special, Invoicing
<1>5. CASE Visit(w)
  <2>1. CASE deal.asked = "no"
    BY <1>2, <1>5, <2>1 DEF Visit, Idle, Special, Invoicing
  <2>2. CASE deal.asked # "no"
    BY <1>2, <1>5, <2>2 DEF Visit, Idle, Special, Invoicing
  <2> QED
    BY <2>1, <2>2
<1> QED
  BY <1>3, <1>4, <1>5 DEF Rancher

LEMMA StepPlain ==
  ASSUME Shape, NEW w \in Workers, Step(w) \/ Crash(w)
  PROVE  \/ Plain(w) \/ SendClaim(w) \/ SendMint(w) \/ SendWrite(w)
         \/ Look(w) \/ ClickClaim(w) \/ ClickMint(w) \/ ClickStamp(w) \/ Resolve(w)
<1>0. deal \in Row /\ faults \in Nat
  BY DEF Shape, RowOK, BoundsOK
<1>1. Fault => faults' # 0
  BY <1>0 DEF Fault
<1>2. CASE Machine(w)
  BY <1>2, GoPlain DEF Machine, At, Calm, stripe, redis, bounds, PCs, Deciding, Special, Invoicing, Minting
<1>3. CASE Write(w) \/ Ask(w) \/ SweepWrite(w)
  <2>1. Calm
    BY <1>0, <1>1, <1>3 DEF Write, Ask, SweepWrite, Calm, Note, stripe, redis, bounds, Row
  <2>2. deal'.final = deal.final
    BY <1>0, <1>3 DEF Write, Ask, SweepWrite, Row
  <2>3. worker[w].pc \notin Minting
    BY <1>3 DEF Write, Ask, SweepWrite, At, Minting
  <2>4. CASE Return(w)
    BY <2>1, <2>2, <2>3, <2>4, ReturnPlain
  <2>5. CASE Go(w, "signal")
    BY <2>1, <2>2, <2>3, <2>5, GoPlain DEF PCs, Special, Invoicing
  <2> QED
    BY <1>3, <2>4, <2>5 DEF Write, Ask, SweepWrite
<1>4. CASE SettleClaim(w) \/ SettleRead(w)
  <2>1. Calm /\ deal'.final = deal.final /\ worker[w].pc \notin Minting
    BY <1>4 DEF SettleClaim, SettleRead, At, Calm, redis, bounds, Minting
  <2>2. CASE Done(w)
    BY <2>1, <2>2, ReturnPlain DEF Done
  <2>3. CASE Go(w, "settleRead") \/ Go(w, "settleStamp")
    BY <2>1, <2>3, GoPlain DEF PCs, Special, Invoicing, Settling
  <2> QED
    BY <1>4, <2>2, <2>3 DEF SettleClaim, SettleRead
<1>5. CASE SettleStamp(w)
  <2>1. Calm /\ worker[w].pc \notin Minting
    BY <1>0, <1>1, <1>5 DEF SettleStamp, At, Calm, stripe, redis, Row, Minting
  <2> QED
    BY <1>5, <2>1, GoPlain DEF SettleStamp, PCs, Special, Invoicing, Settling
<1>6. CASE SettleClose(w)
  <2>1. Calm /\ deal'.final = deal.final /\ worker[w].pc \notin Minting
    BY <1>0, <1>6 DEF SettleClose, At, Calm, Note, redis, bounds, Row, Minting
  <2> QED
    BY <1>6, <2>1, ReturnPlain DEF SettleClose, Done
<1>7. CASE Remind(w) \/ Signal(w) \/ Crash(w)
  <2>1. Calm /\ deal'.final = deal.final /\ (worker[w].pc \in Minting => faults' # 0)
    BY <1>1, <1>7 DEF Remind, Signal, Crash, At, Calm, Note, stripe, redis, bounds, Minting
  <2> QED
    BY <1>7, <2>1, ReturnPlain DEF Remind, Signal, Crash
<1> QED
  BY <1>2, <1>3, <1>4, <1>5, <1>6, <1>7 DEF Step

LEMMA DepositStill ==
  ASSUME Shape, Charge \/ Stamp \/ Restamp \/ Refund \/ (\E s \in Sessions : LapseSettle(s)) \/ UNCHANGED vars
  PROVE  Still
<1>0. deal \in Row /\ faults \in Nat
  BY DEF Shape, RowOK, BoundsOK
<1>1. UNCHANGED <<session, stored, mint, worker>> /\ slack \subseteq slack'
  BY DEF Charge, Stamp, Restamp, Refund, LapseSettle, Note, stripe, redis, vars
<1>2. faults' = 0 => faults = 0
  <2>1. CASE Stamp
    BY <1>0, <2>1 DEF Stamp
  <2> QED
    BY <2>1 DEF Charge, Restamp, Refund, LapseSettle, bounds, vars
<1>3. deal'.sent = deal.sent /\ deal'.ptr = deal.ptr /\ deal'.final = deal.final
  BY <1>0 DEF Charge, Stamp, Restamp, Refund, LapseSettle, Row, vars
<1> QED
  BY <1>1, <1>2, <1>3 DEF Still, Calm

\* Every step is a plain one or one of a few.
LEMMA Steps ==
  ASSUME Shape, [Next]_vars
  PROVE  \/ Still
         \/ \E w \in Workers :
              \/ Plain(w) \/ Send(w) \/ Click(w) \/ Dun(w) \/ Resolve(w)
              \/ SendClaim(w) \/ SendMint(w) \/ SendWrite(w)
              \/ Look(w) \/ ClickClaim(w) \/ ClickMint(w) \/ ClickStamp(w)
         \/ (\E s \in Sessions : Pay(s) \/ Expire(s)) \/ Forget \/ LapseMint
  BY RancherPlain, StepPlain, DepositStill DEF Next

\* Whoever mints holds the key; a buyer has a link only of an invoice that was sent;
\* and until the rancher sends it again, whoever sends it after another finds the key held.
Holds(x) ==
  /\ x.pc \in Minting => mint = "held"
  /\ x.pc \in Clicking => deal.sent = "yes"
  /\ "resent" \notin slack =>
       /\ x.pc = "sendClaim" /\ deal.sent = "yes" => mint = "held"
       /\ x.pc \in {"sendMint", "sendWrite"} => deal.sent = "no"

Held ==
  /\ \A w \in Workers : Holds(worker[w])
  /\ \A v, w \in Workers : worker[v].pc \in Minting /\ worker[w].pc \in Minting => v = w
  /\ \A s \in Sessions : session[s] \in {"shown", "paid"} => deal.sent = "yes"
  /\ deal.final = "yes" => deal.sent = "yes"

LEMMA InitHeld == Init => Held
<1> SUFFICES ASSUME Init PROVE Held
  OBVIOUS
<1>1. \A w \in Workers : worker[w].pc = "idle"
  BY DEF Init, Idle
<1>2. deal.final = "no" /\ \A s \in Sessions : session[s] = "none"
  BY DEF Init
<1> QED
  BY <1>1, <1>2 DEF Held, Holds, Minting, Clicking

LEMMA CalmHeld ==
  ASSUME Shape, Shape', Held, Still \/ \E w \in Workers : Plain(w)
  PROVE  Held'
<1>1. Calm
  BY DEF Still, Plain
<1>2. \A s \in Sessions : session'[s] \in {"shown", "paid"} => deal'.sent = "yes"
  BY <1>1 DEF Held, Calm
<1>3. CASE Still
  BY <1>1, <1>2, <1>3 DEF Still, Held, Holds, Calm, Minting, Clicking
<1>4. ASSUME NEW w \in Workers, Plain(w) PROVE Held'
  <2>1. worker'[w].pc \notin Minting \cup Clicking \cup {"sendClaim"}
    BY <1>4 DEF Plain, Special, Invoicing, Minting, Clicking
  <2>2. ASSUME NEW v \in Workers PROVE Holds(worker[v])'
    BY <1>1, <1>4, <2>1 DEF Plain, Calm, Held, Holds, Minting, Clicking
  <2>3. ASSUME NEW v \in Workers, NEW u \in Workers,
               worker'[v].pc \in Minting, worker'[u].pc \in Minting
        PROVE  u = v
    BY <1>4, <2>1, <2>3 DEF Plain, Held
  <2>4. deal'.final = "yes" => deal'.sent = "yes"
    <3>1. CASE worker'[w].pc \in Settling
      <4>1. session'[worker'[w].s] = "paid" /\ worker'[w].s \in Sessions
        BY <3>1 DEF Shape, JobsOK, Fit
      <4> QED
        BY <1>2, <4>1
    <3> QED
      BY <1>1, <1>4, <3>1 DEF Plain, Calm, Held
  <2> QED
    BY <1>2, <2>2, <2>3, <2>4 DEF Held, Minting
<1> QED
  BY <1>3, <1>4

\* An invocation that moves, and the key and the row as they then are.
LEMMA MovedHeld ==
  ASSUME Shape, Held, NEW w \in Workers, NEW x, Put(w, x), Holds(x)',
         x.pc \in Minting => worker[w].pc \in Minting \/ mint = "free",
         mint = "held" => mint' = "held",
         deal'.sent = deal.sent, deal'.final = deal.final, slack \subseteq slack',
         \A s \in Sessions : session'[s] \in {"shown", "paid"} => deal.sent = "yes"
  PROVE  Held'
<1>0. worker \in [Workers -> Job] /\ mint \in {"free", "held"}
  BY DEF Shape, JobsOK, RedisOK
<1>1. worker'[w] = x /\ \A v \in Workers \ {w} : worker'[v] = worker[v]
  BY <1>0 DEF Put
<1>2. ASSUME NEW v \in Workers PROVE Holds(worker[v])'
  <2>1. CASE v = w
    BY <1>1, <2>1 DEF Holds, Minting, Clicking
  <2>2. CASE v # w
    BY <1>1, <2>2 DEF Held, Holds, Minting, Clicking
  <2> QED
    BY <2>1, <2>2
<1>3. x.pc \in Minting => \A v \in Workers \ {w} : worker[v].pc \notin Minting
  BY <1>0 DEF Held, Holds
<1>4. ASSUME NEW v \in Workers, NEW u \in Workers,
             worker'[v].pc \in Minting, worker'[u].pc \in Minting
      PROVE  v = u
  BY <1>1, <1>3, <1>4 DEF Held
<1> QED
  BY <1>2, <1>4 DEF Held, Minting

LEMMA NextHeld == Shape /\ Shape' /\ Held /\ [Next]_vars => Held'
<1> SUFFICES ASSUME Shape, Shape', Held, [Next]_vars PROVE Held'
  OBVIOUS
<1>0. worker \in [Workers -> Job] /\ mint \in {"free", "held"} /\ deal \in Row
      /\ session \in [Sessions -> {"none", "open", "shown", "expired", "paid"}]
      /\ \A s \in Sessions : session[s] \in {"shown", "paid"} => deal.sent = "yes"
  BY DEF Shape, JobsOK, RedisOK, RowOK, StripeOK, Held
<1>1. ASSUME NEW w \in Workers, Send(w) PROVE Held'
  <2> DEFINE x == [Idle EXCEPT !.pc = "sendClaim"]
  <2>1. Put(w, x) /\ UNCHANGED <<deal, stripe, redis>> /\ slack \subseteq slack'
        /\ (deal.sent = "no" \/ "resent" \in slack')
    BY <1>1 DEF Send, Begin, Note
  <2>2. x.pc = "sendClaim"
    BY DEF Idle
  <2> HIDE DEF x
  <2>3. Holds(x)'
    BY <2>1, <2>2 DEF Holds, Minting, Clicking, x
  <2> QED
    BY <1>0, <2>1, <2>2, <2>3, MovedHeld DEF stripe, redis, Minting
<1>2. ASSUME NEW w \in Workers, NEW x, Put(w, x), UNCHANGED <<deal, stripe, redis>>, slack \subseteq slack',
             x.pc \notin Minting \cup {"sendClaim"}, x.pc \in Clicking => deal.sent = "yes"
      PROVE  Held'
  <2>1. Holds(x)'
    BY <1>2 DEF Holds, Minting, Clicking
  <2> QED
    BY <1>0, <1>2, <2>1, MovedHeld DEF stripe, redis
<1>3. ASSUME NEW w \in Workers, Click(w) \/ Dun(w) \/ Resolve(w) \/ Look(w) PROVE Held'
  <2>1. CASE Click(w)
    BY <1>2, <2>1 DEF Click, Begin, Idle, Minting, Clicking
  <2>2. CASE Dun(w)
    BY <1>2, <2>2 DEF Dun, Begin, Idle, Minting, Clicking
  <2>3. CASE Resolve(w)
    <3>2. CASE Go(w, "remind")
      <4>1. PICK x : Put(w, x) /\ x.pc = "remind"
        BY <3>2, GoPut
      <4> QED
        BY <1>2, <2>3, <4>1 DEF Resolve, Minting, Clicking
    <3>3. CASE Return(w)
      BY <1>2, <2>3, <3>3 DEF Resolve, Return, Idle, Minting, Clicking
    <3>4. CASE Put(w, [Idle EXCEPT !.pc = "settleClaim", !.s = worker[w].s])
      BY <1>2, <2>3, <3>4 DEF Resolve, Idle, Minting, Clicking
    <3> QED
      BY <2>3, <3>2, <3>3, <3>4 DEF Resolve
  <2>4. CASE Look(w)
    <3>1. deal.sent = "yes" /\ slack \subseteq slack'
      BY <2>4 DEF Look, At, Held, Holds, Clicking, Note
    <3>2. CASE Return(w)
      BY <1>2, <2>4, <3>1, <3>2 DEF Look, Return, Idle, Minting, Clicking
    <3>3. CASE Put(w, [Idle EXCEPT !.pc = "clickClaim"])
      BY <1>2, <2>4, <3>1, <3>3 DEF Look, Idle, Minting, Clicking
    <3> QED
      BY <2>4, <3>2, <3>3 DEF Look
  <2> QED
    BY <1>3, <2>1, <2>2, <2>3, <2>4
<1>4. ASSUME NEW w \in Workers, SendClaim(w) \/ ClickClaim(w) PROVE Held'
  <2>1. UNCHANGED <<deal, stripe>> /\ slack' = slack
    BY <1>4 DEF SendClaim, ClickClaim
  <2>2. CASE Return(w) /\ mint' = mint
    <3>1. Holds(Idle)'
      BY DEF Holds, Idle, Minting, Clicking
    <3> QED
      BY <1>0, <2>1, <2>2, <3>1, MovedHeld DEF Return, stripe, Idle, Minting
  <2>3. ASSUME NEW p \in {"sendMint", "clickMint"}, Go(w, p), mint = "free", mint' = "held",
               p = "sendMint" => At(w, "sendClaim"), p = "clickMint" => At(w, "clickClaim")
        PROVE  Held'
    <3>1. PICK x : Put(w, x) /\ x.pc = p
      BY <2>3, GoPut
    <3>2. Holds(worker[w])
      BY DEF Held
    <3>3. Holds(x)'
      BY <1>0, <2>1, <2>3, <3>1, <3>2 DEF Holds, At, Minting, Clicking, Row
    <3> QED
      BY <1>0, <2>1, <2>3, <3>1, <3>3, MovedHeld DEF stripe
  <2> QED
    BY <1>0, <1>4, <2>2, <2>3 DEF SendClaim, ClickClaim
<1>5. ASSUME NEW w \in Workers, SendMint(w) \/ ClickMint(w) PROVE Held'
  <2>1. UNCHANGED <<deal, redis>> /\ slack' = slack /\ Holds(worker[w])
    BY <1>5 DEF SendMint, ClickMint, Held
  <2>2. \A s \in Sessions : session'[s] \in {"shown", "paid"} => deal.sent = "yes"
    BY <1>0, <1>5 DEF SendMint, ClickMint
  <2>3. ASSUME NEW s, NEW p \in {"sendWrite", "clickStamp"}, Put(w, [worker[w] EXCEPT !.pc = p, !.s = s]),
               p = "sendWrite" => At(w, "sendMint"), p = "clickStamp" => At(w, "clickMint")
        PROVE  Held'
    <3>0. Put(w, [worker[w] EXCEPT !.pc = p, !.s = s])
      BY <2>3
    <3>1. PICK x : Put(w, x) /\ x.pc = p
      <4> DEFINE y == [worker[w] EXCEPT !.pc = p, !.s = s]
      <4>1. Put(w, y) /\ y.pc = p
        BY <1>0, <3>0 DEF Job
      <4> HIDE DEF y
      <4> QED
        BY <4>1
    <3>2. worker[w].pc \in Minting
      BY <2>3 DEF At, Minting
    <3>3. Holds(x)'
      BY <2>1, <2>3, <3>1, <3>2 DEF Holds, At, Minting, Clicking, redis
    <3> QED
      BY <2>1, <2>2, <3>1, <3>2, <3>3, MovedHeld DEF redis
  <2> QED
    BY <1>5, <2>3 DEF SendMint, ClickMint
<1>6. ASSUME NEW w \in Workers, Return(w), At(w, "sendWrite") \/ At(w, "clickStamp"), mint' = mint,
             slack \subseteq slack', deal'.final = deal.final, deal'.sent \in {"yes", deal.sent},
             \A s \in Sessions : session'[s] \in {"shown", "paid"} => deal'.sent = "yes"
      PROVE  Held'
  <2>1. worker'[w].pc = "idle" /\ \A v \in Workers \ {w} : worker'[v] = worker[v]
    BY <1>0, <1>6 DEF Return, Put, Idle
  <2>2. mint = "held" /\ \A v \in Workers \ {w} : worker[v].pc \notin Minting
    BY <1>6 DEF Held, Holds, At, Minting
  <2>3. ASSUME NEW v \in Workers PROVE Holds(worker[v])'
    BY <1>6, <2>1, <2>2 DEF Held, Holds, Minting, Clicking
  <2> QED
    BY <1>6, <2>1, <2>2, <2>3 DEF Held, Minting
<1>7. ASSUME NEW w \in Workers, SendWrite(w) \/ ClickStamp(w) PROVE Held'
  <2>1. Return(w) /\ (At(w, "sendWrite") \/ At(w, "clickStamp")) /\ mint' = mint
       /\ slack \subseteq slack'
    BY <1>7 DEF SendWrite, ClickStamp, redis, Note
  <2>2. deal'.final = deal.final /\ deal'.sent \in {"yes", deal.sent}
    BY <1>0, <1>7 DEF SendWrite, ClickStamp, Row
  <2>3. \A s \in Sessions : session'[s] \in {"shown", "paid"} => deal'.sent = "yes"
    <3>1. CASE SendWrite(w)
      BY <1>0, <3>1 DEF SendWrite, Row
    <3>2. CASE ClickStamp(w)
      <4>1. deal.sent = "yes"
        BY <3>2 DEF ClickStamp, At, Held, Holds, Clicking
      <4> QED
        BY <1>0, <3>2, <4>1 DEF ClickStamp, Row
    <3> QED
      BY <1>7, <3>1, <3>2
  <2> QED
    BY <1>6, <2>1, <2>2, <2>3
<1>8. CASE (\E s \in Sessions : Pay(s) \/ Expire(s)) \/ Forget \/ LapseMint
  <2>1. UNCHANGED <<deal, worker, slack>>
    BY <1>8 DEF Pay, Expire, Forget, LapseMint
  <2>2. \A s \in Sessions : session'[s] \in {"shown", "paid"} => deal.sent = "yes"
    BY <1>0, <1>8 DEF Pay, Expire, Forget, LapseMint, stripe
  <2>3. mint' = mint \/ \A v \in Workers : worker[v].pc \notin Minting \cup {"sendClaim"}
    BY <1>8 DEF Pay, Expire, Forget, LapseMint, redis, In, Invoicing, Minting
  <2> QED
    BY <2>1, <2>2, <2>3 DEF Held, Holds, Minting, Clicking
<1> QED
  BY <1>1, <1>3, <1>4, <1>5, <1>7, <1>8, Steps, CalmHeld

\* Only the holder of the key mints, and nothing is shown, paid or settled before the
\* invoice was sent.
THEOREM HeldHolds == Spec => []Held
<1>1. Shape /\ Shape' /\ Held /\ [Next]_vars => Held'
  BY NextHeld
<1> QED
  BY <1>1, InitHeld, ShapeHolds, PTL DEF Spec

-----------------------------------------------------------------------------
(* One charge: while nothing failed and nothing was sent again, the only     *)
(* session the buyer can pay is the one the row, or whoever mints, points to.*)

\* What an invocation that mints, clicks or reminds may rely on.
Sole(x) ==
  /\ x.pc = "sendWrite" => Live \subseteq {x.s}
  /\ x.pc = "clickStamp" => \A s \in Live : s = x.s /\ session[s] = "open"
  /\ x.pc = "clickMint" => Live = {}
  /\ x.pc = "clickLook" /\ mint = "free" => x.s = deal.ptr
  /\ x.pc = "clickClaim" /\ mint = "free" => deal.ptr \notin Live
  /\ x.pc = "resolve" /\ x.owed = "no" => session[x.s] = "paid"
  /\ x.pc = "remind" => x.owed = "yes"

SoleAt(v) == Sole(worker[v])
Replacing(v) == worker[v].pc \in {"clickMint", "clickStamp"}
Alone == faults = 0 /\ "resent" \notin slack

Only ==
  /\ \A w \in Workers : SoleAt(w)
  /\ deal.sent = "no" => Live \subseteq {stored}
  /\ deal.sent = "yes" /\ (\A w \in Workers : ~Replacing(w)) => Live \subseteq {deal.ptr}
One == Alone => Only

LEMMA InitOne == Init => One
<1> SUFFICES ASSUME Init PROVE One
  OBVIOUS
<1>1. \A w \in Workers : worker[w].pc = "idle"
  BY DEF Init, Idle
<1>2. deal.sent = "no" /\ Live = {}
  BY DEF Init, Live
<1> QED
  BY <1>1, <1>2 DEF One, Only, Sole, SoleAt

NoneOpened == \A s \in Sessions :
  session'[s] = session[s] \/ (session'[s] = "expired" /\ session[s] # "paid")

\* An invocation that does not move, while no session is opened and the pointer stays.
LEMMA SoleStays ==
  ASSUME Shape, Shape', NEW v \in Workers, worker'[v] = worker[v], SoleAt(v),
         NoneOpened,
         mint' = "free" => mint = "free", deal'.ptr = deal.ptr
  PROVE  SoleAt(v)'
<1>1. Live' \subseteq Live /\ \A s \in Live' : session'[s] = session[s]
  BY DEF Live, NoneOpened
<1>2. worker[v].pc = "resolve" => worker[v].s \in Sessions
  BY DEF Shape, JobsOK, Fit
<1> QED
  BY <1>1, <1>2 DEF Sole, SoleAt, NoneOpened

LEMMA CalmOne ==
  ASSUME Shape, Shape', One, Still \/ \E w \in Workers : Plain(w)
  PROVE  One'
<1> SUFFICES ASSUME Alone' PROVE Only'
  BY DEF One, Only
<1>1. Calm /\ Live' = Live
  BY DEF Still, Plain, Calm, Live
<1>2. Alone
  BY <1>1 DEF Alone, Calm
<1>3. ASSUME NEW v \in Workers, worker'[v] = worker[v] PROVE SoleAt(v)'
  <2>1. SoleAt(v) /\ session' = session /\ mint' = mint /\ deal'.ptr = deal.ptr
    BY <1>1, <1>2, <1>3 DEF Calm, One, Only
  <2>2. NoneOpened
    BY <2>1 DEF NoneOpened
  <2> QED
    BY <1>3, <2>1, <2>2, SoleStays
<1>4. CASE Still
  BY <1>1, <1>2, <1>3, <1>4 DEF Still, Calm, One, Only, Replacing
<1>5. ASSUME NEW w \in Workers, Plain(w)
      PROVE  Only'
  <2>1. SoleAt(w)'
    BY <1>5 DEF Plain, Sole, SoleAt, Special, Invoicing
  <2>2. ~Replacing(w) /\ \A v \in Workers \ {w} : worker'[v] = worker[v]
    BY <1>5 DEF Plain, Alone, Replacing, Minting
  <2> QED
    BY <1>1, <1>2, <1>3, <2>1, <2>2 DEF Calm, One, Only, Replacing
<1> QED
  BY <1>4, <1>5

\* An invocation that moves and touches no session.
LEMMA MovedOne ==
  ASSUME Shape, Shape', One, NEW w \in Workers, NEW x, Put(w, x), Alone' => Sole(x)',
         ~Replacing(w), UNCHANGED <<deal, session, stored>>, mint' = "free" => mint = "free",
         slack \subseteq slack', faults' = 0 => faults = 0
  PROVE  One'
<1> SUFFICES ASSUME Alone' PROVE Only'
  BY DEF One, Only
<1>1. Alone /\ Live' = Live
  BY DEF Alone, Live
<1>2. worker'[w] = x /\ \A v \in Workers \ {w} : worker'[v] = worker[v]
  BY DEF Shape, JobsOK, Put
<1>3. ASSUME NEW v \in Workers \ {w} PROVE SoleAt(v)'
  <2>1. SoleAt(v) /\ worker'[v] = worker[v]
    BY <1>1, <1>2 DEF One, Only
  <2>2. v \in Workers /\ NoneOpened
    BY DEF NoneOpened
  <2> QED
    BY <2>1, <2>2, SoleStays
<1>4. SoleAt(w)'
  BY <1>2 DEF Sole, SoleAt
<1> QED
  BY <1>1, <1>2, <1>3, <1>4 DEF One, Only, Replacing

\* Whoever takes the key finds what it needs; whoever reads the row trusts it.
LEMMA StepOne ==
  ASSUME Shape, Shape', Held, One, NEW w \in Workers,
         Send(w) \/ Click(w) \/ Dun(w) \/ Look(w) \/ Resolve(w) \/ SendClaim(w) \/ ClickClaim(w)
  PROVE  One'
<1>0. worker \in [Workers -> Job] /\ deal \in Row /\ faults \in Nat /\ mint \in {"free", "held"}
  BY DEF Shape, JobsOK, RowOK, BoundsOK, RedisOK
<1>1. ~Replacing(w)
  BY DEF Replacing, Send, Click, Dun, Look, Resolve, SendClaim, ClickClaim, Begin, At
<1>2. UNCHANGED <<deal, session, stored>> /\ slack \subseteq slack' /\ (mint' = "free" => mint = "free")
  BY <1>0 DEF Send, Click, Dun, Look, Resolve, SendClaim, ClickClaim, Note, stripe, redis
<1>3. faults' = 0 => faults = 0
  <2>1. Fault => faults' # 0
    BY <1>0 DEF Fault
  <2> QED
    BY <2>1 DEF Send, Click, Dun, Look, Resolve, SendClaim, ClickClaim, bounds
<1>4. Alone' => Alone
  BY <1>2, <1>3 DEF Alone
<1>5. Live' = Live
  BY <1>2 DEF Live
<1>6. ASSUME NEW x, Put(w, x), x.pc \notin Special \/ x.pc \in {"sendClaim", "sendMint"} PROVE One'
  <2>1. Sole(x)'
    BY <1>6 DEF Sole, SoleAt, Special, Invoicing
  <2> QED
    BY <1>1, <1>2, <1>3, <1>6, <2>1, MovedOne
<1>7. CASE Send(w)
  BY <1>6, <1>7 DEF Send, Begin, Idle
<1>8. CASE Click(w)
  <2>1. PICK x : Put(w, x) /\ x.pc = "clickLook" /\ x.s = deal.ptr
    <3> DEFINE y == [Idle EXCEPT !.pc = "clickLook", !.s = deal.ptr]
    <3>1. Put(w, y) /\ y.pc = "clickLook" /\ y.s = deal.ptr
      BY <1>8 DEF Click, Begin, Idle
    <3> HIDE DEF y
    <3> QED
      BY <3>1
  <2>2. Sole(x)'
    BY <1>2, <2>1 DEF Sole, SoleAt
  <2> QED
    BY <1>1, <1>2, <1>3, <2>1, <2>2, MovedOne
<1>9. CASE Dun(w)
  <2>1. PICK x : /\ Put(w, x) /\ x.pc = "resolve" /\ x.s = deal.ptr
                 /\ x.owed = IF Paid = {} THEN "yes" ELSE "no"
    <3> DEFINE o == IF Paid = {} THEN "yes" ELSE "no"
               y == [Idle EXCEPT !.pc = "resolve", !.s = deal.ptr, !.owed = o]
    <3>1. Put(w, y)
      BY <1>9 DEF Dun, Begin
    <3>2. y.pc = "resolve" /\ y.s = deal.ptr /\ y.owed = o
      <4> HIDE DEF o
      <4> QED BY DEF Idle
    <3> HIDE DEF y
    <3> QED
      BY <3>1, <3>2
  <2>2. ASSUME Alone, Paid # {} PROVE session[deal.ptr] = "paid"
    <3>1. PICK s \in Paid : TRUE
      BY <2>2
    <3>2. s \in Live /\ session[s] = "paid" /\ s \in Sessions
      BY <3>1 DEF Paid, Live
    <3>3. \A v \in Workers : ~Replacing(v)
      BY <2>2, <3>2 DEF One, Only, Sole, SoleAt, Replacing
    <3>4. s = deal.ptr
      BY <1>9, <2>2, <3>2, <3>3 DEF One, Only, Dun
    <3> QED
      BY <3>2, <3>4
  <2>3. Alone' => Sole(x)'
    BY <1>2, <1>4, <2>1, <2>2 DEF Sole, SoleAt
  <2> QED
    BY <1>1, <1>2, <1>3, <2>1, <2>3, MovedOne
<1>10. CASE Look(w)
  <2>1. CASE Return(w)
    BY <1>6, <2>1 DEF Return, Idle, Special, Invoicing
  <2>2. CASE Put(w, [Idle EXCEPT !.pc = "clickClaim"])
    <3>1. PICK x : Put(w, x) /\ x.pc = "clickClaim"
      <4> DEFINE y == [Idle EXCEPT !.pc = "clickClaim"]
      <4>1. Put(w, y) /\ y.pc = "clickClaim"
        BY <2>2 DEF Idle
      <4> HIDE DEF y
      <4> QED
        BY <4>1
    <3>2. Alone' => session[worker[w].s] = "expired"
      <4>1. Fault => faults' # 0
        BY <1>0 DEF Fault
      <4>2. Return(w) /\ Put(w, [Idle EXCEPT !.pc = "clickClaim"]) => FALSE
        <5>1. ASSUME Return(w) PROVE worker'[w].pc = "idle"
          BY <1>0, <5>1 DEF Return, Put, Idle
        <5>2. Put(w, [Idle EXCEPT !.pc = "clickClaim"]) => worker'[w].pc = "clickClaim"
          BY <1>0 DEF Put, Idle
        <5> QED
          BY <5>1, <5>2
      <4> QED
        BY <1>10, <2>2, <4>1, <4>2 DEF Look, Alone
    <3>3. Alone' /\ mint = "free" => worker[w].s = deal.ptr
      BY <1>4, <1>10 DEF Look, At, One, Only, Sole, SoleAt
    <3>4. Alone' => Sole(x)'
      BY <1>2, <1>5, <3>1, <3>2, <3>3 DEF Sole, SoleAt, Live
    <3> QED
      BY <1>1, <1>2, <1>3, <3>1, <3>4, MovedOne
  <2> QED
    BY <1>10, <2>1, <2>2 DEF Look
<1>11. CASE Resolve(w)
  <2>1. CASE Return(w) \/ Put(w, [Idle EXCEPT !.pc = "settleClaim", !.s = worker[w].s])
    BY <1>6, <2>1 DEF Return, Idle, Special, Invoicing
  <2>2. CASE Go(w, "remind") /\ session[worker[w].s] # "paid"
    <3>1. PICK x : Put(w, x) /\ x.pc = "remind" /\ x.owed = worker[w].owed
      BY <2>2, GoPut
    <3>2. worker[w].owed \in {"yes", "no"}
      BY <1>0 DEF Job
    <3>3. Alone' => Sole(x)'
      BY <1>4, <1>11, <2>2, <3>1, <3>2 DEF Resolve, At, One, Only, Sole, SoleAt
    <3> QED
      BY <1>1, <1>2, <1>3, <3>1, <3>3, MovedOne
  <2> QED
    BY <1>11, <2>1, <2>2 DEF Resolve
<1>12. CASE SendClaim(w)
  <2>1. CASE Return(w)
    BY <1>6, <2>1 DEF Return, Idle, Special, Invoicing
  <2>2. CASE Go(w, "sendMint")
    <3>1. PICK x : Put(w, x) /\ x.pc = "sendMint"
      BY <2>2, GoPut
    <3> QED
      BY <1>6, <3>1
  <2> QED
    BY <1>12, <2>1, <2>2 DEF SendClaim
<1>13. CASE ClickClaim(w)
  <2>1. CASE Return(w)
    BY <1>6, <2>1 DEF Return, Idle, Special, Invoicing
  <2>2. CASE Go(w, "clickMint") /\ mint # "held"
    <3>1. PICK x : Put(w, x) /\ x.pc = "clickMint"
      BY <2>2, GoPut
    <3>2. (\A v \in Workers : ~Replacing(v)) /\ deal.sent = "yes"
      BY <1>13, <2>2 DEF Held, Holds, Replacing, Minting, Clicking, ClickClaim, At
    <3>3. Alone' => Live = {}
      BY <1>0, <1>4, <1>13, <2>2, <3>2 DEF One, Only, Sole, SoleAt, ClickClaim, At
    <3>4. Alone' => Sole(x)'
      BY <1>5, <3>1, <3>3 DEF Sole, SoleAt
    <3> QED
      BY <1>1, <1>2, <1>3, <3>1, <3>4, MovedOne
  <2> QED
    BY <1>13, <2>1, <2>2 DEF ClickClaim
<1> QED
  BY <1>7, <1>8, <1>9, <1>10, <1>11, <1>12, <1>13

\* The four steps of whoever holds the key.
LEMMA MintOne ==
  ASSUME Shape, Shape', Held, Held', One, NEW w \in Workers,
         SendMint(w) \/ ClickMint(w) \/ SendWrite(w) \/ ClickStamp(w)
  PROVE  One'
<1> SUFFICES ASSUME Alone' PROVE Only'
  BY DEF One, Only
<1>0. /\ worker \in [Workers -> Job] /\ deal \in Row /\ faults \in Nat /\ worker[w] \in Job
      /\ session \in [Sessions -> {"none", "open", "shown", "expired", "paid"}]
      /\ Live \subseteq Sessions
  BY DEF Shape, JobsOK, RowOK, BoundsOK, StripeOK, Live
<1>1. Fault => faults' # 0
  BY <1>0 DEF Fault
<1>2. Alone /\ slack' = slack /\ faults' = faults /\ ~Fault
  BY <1>1 DEF Alone, SendMint, ClickMint, SendWrite, ClickStamp, bounds
<1>3. Only
  BY <1>2 DEF One, Only
<1>4. worker[w].pc \in Minting /\ mint = "held" /\ mint' = "held"
      /\ \A v \in Workers \ {w} : worker[v].pc \notin Minting /\ worker'[v] = worker[v]
  BY <1>0 DEF SendMint, ClickMint, SendWrite, ClickStamp, At, Held, Holds, Minting, Return, Put, redis
<1>5. \A s \in Sessions : session[s] = "paid" => session'[s] = "paid"
  BY <1>0 DEF SendMint, ClickMint, SendWrite, ClickStamp, Fresh, Show
<1>6. ASSUME NEW v \in Workers, v # w PROVE SoleAt(v)'
  <2>1. SoleAt(v) /\ worker'[v] = worker[v] /\ worker[v].pc \notin Minting
    BY <1>3, <1>4, <1>6 DEF Only
  <2>2. worker[v].pc = "resolve" => worker[v].s \in Sessions
    BY DEF Shape, JobsOK, Fit
  <2> QED
    BY <1>4, <1>5, <2>1, <2>2 DEF SoleAt, Sole, Minting
<1>7. CASE SendMint(w)
  <2>1. deal.sent = "no" /\ deal' = deal /\ Live \subseteq {stored}
    BY <1>2, <1>3, <1>7 DEF Only, SendMint, At, Held, Holds, Alone
  <2>2. CASE /\ stored # None /\ Put(w, [worker[w] EXCEPT !.pc = "sendWrite", !.s = stored])
             /\ UNCHANGED <<session, stored>>
    <3>1. worker'[w].pc = "sendWrite" /\ worker'[w].s = stored /\ Live' = Live
      BY <1>0, <2>2 DEF Put, Job, Live
    <3>2. SoleAt(w)'
      BY <2>1, <3>1 DEF SoleAt, Sole
    <3> QED
      BY <1>6, <2>1, <2>2, <3>1, <3>2 DEF Only
  <2>3. ASSUME NEW s \in Sessions, stored = None, Fresh(s), session' = [session EXCEPT ![s] = "open"],
               stored' = s, Put(w, [worker[w] EXCEPT !.pc = "sendWrite", !.s = s])
        PROVE  /\ \A v \in Workers : SoleAt(v)'
               /\ Live' \subseteq {stored'}
    <3>1. worker'[w].pc = "sendWrite" /\ worker'[w].s = s
      BY <1>0, <2>3 DEF Put, Job
    <3>2. Live = {}
      BY <1>0, <2>1, <2>3, DealAssumption
    <3>3. Live' \subseteq {s}
      BY <1>0, <2>3, <3>2 DEF Live
    <3>4. SoleAt(w)'
      BY <3>1, <3>3 DEF SoleAt, Sole
    <3> QED
      BY <1>6, <2>3, <3>3, <3>4
  <2> QED
    BY <1>7, <2>1, <2>2, <2>3 DEF Only, SendMint
<1>8. CASE ClickMint(w)
  <2>1. PICK s \in Sessions : /\ Fresh(s) /\ session' = [session EXCEPT ![s] = "open"]
                              /\ Put(w, [worker[w] EXCEPT !.pc = "clickStamp", !.s = s])
    BY <1>8 DEF ClickMint
  <2>2. worker'[w].pc = "clickStamp" /\ worker'[w].s = s
    BY <1>0, <2>1 DEF Put, Job
  <2>3. Live = {} /\ deal' = deal /\ deal.sent = "yes"
    BY <1>3, <1>8 DEF Only, ClickMint, At, SoleAt, Sole, Held, Holds, Clicking
  <2>4. \A r \in Live' : r = s /\ session'[r] = "open"
    BY <1>0, <2>1, <2>3 DEF Live
  <2>5. SoleAt(w)'
    BY <2>2, <2>4 DEF SoleAt, Sole
  <2>6. Replacing(w)'
    BY <2>2 DEF Replacing
  <2> QED
    BY <1>6, <2>3, <2>5, <2>6 DEF Only
<1>9. CASE SendWrite(w) \/ ClickStamp(w)
  <2>1. worker'[w].pc = "idle" /\ Live' = Live /\ worker[w].s \in Sessions
    <3>1. worker'[w].pc = "idle"
      <4>1. Return(w)
        BY <1>9 DEF SendWrite, ClickStamp
      <4> QED
        BY <1>0, <4>1 DEF Return, Put, Idle
    <3>2. worker[w].s \in Sessions
      BY <1>9 DEF SendWrite, ClickStamp, At, Shape, JobsOK, Fit
    <3>3. Show(worker[w].s)
      BY <1>2, <1>9 DEF SendWrite, ClickStamp
    <3>4. Live' = Live
      BY <1>0, <3>3 DEF Show, Live
    <3> QED
      BY <3>1, <3>2, <3>4
  <2>2. SoleAt(w)'
    BY <2>1 DEF SoleAt, Sole
  <2>3. Live \subseteq {worker[w].s}
    BY <1>3, <1>9 DEF Only, SendWrite, ClickStamp, At, SoleAt, Sole
  <2>4. deal'.ptr = worker[w].s /\ deal'.sent = "yes"
    <3>1. CASE SendWrite(w)
      BY <1>0, <1>2, <3>1 DEF SendWrite, Row
    <3>2. CASE ClickStamp(w)
      <4>1. deal.sent = "yes"
        BY <3>2 DEF ClickStamp, At, Held, Holds, Clicking
      <4> QED
        BY <1>0, <1>2, <3>2, <4>1 DEF ClickStamp, Row
    <3> QED
      BY <1>9, <3>1, <3>2
  <2> QED
    BY <1>6, <2>1, <2>2, <2>3, <2>4 DEF Only
<1> QED
  BY <1>7, <1>8, <1>9

\* What happens outside: a session is paid or lapses, an answer or the key is let go.
LEMMA OutsideOne ==
  ASSUME Shape, Shape', Held, One, (\E s \in Sessions : Pay(s) \/ Expire(s)) \/ Forget \/ LapseMint
  PROVE  One'
<1> SUFFICES ASSUME Alone PROVE Only'
  BY DEF One, Only, Alone, Pay, Expire, Forget, LapseMint, bounds
<1>0. /\ session \in [Sessions -> {"none", "open", "shown", "expired", "paid"}]
      /\ deal' = deal /\ worker' = worker
  BY DEF Shape, StripeOK, Pay, Expire, Forget, LapseMint
<1>1. Only
  BY DEF One, Only
<1>2. CASE \E s \in Sessions : Expire(s)
  <2>1. NoneOpened /\ Live' \subseteq Live /\ mint' = mint /\ stored' = stored
    BY <1>0, <1>2 DEF Expire, NoneOpened, Live, redis
  <2>2. \A v \in Workers : SoleAt(v)'
    BY <1>0, <1>1, <2>1, SoleStays DEF Only
  <2> QED
    BY <1>0, <1>1, <2>1, <2>2 DEF Only, Replacing
<1>3. ASSUME NEW s \in Sessions, Pay(s)
      PROVE  Only'
  <2>1. Live' = Live /\ mint' = mint /\ stored' = stored /\ s \in Live /\ session[s] = "shown"
    BY <1>0, <1>3 DEF Pay, Live, redis
  <2>2. \A r \in Sessions : session[r] = "paid" => session'[r] = "paid"
    BY <1>0, <1>3 DEF Pay
  <2>3. ASSUME NEW v \in Workers PROVE SoleAt(v)'
    <3>1. worker[v].pc # "clickStamp"
      BY <1>1, <2>1 DEF Only, SoleAt, Sole
    <3>2. worker[v].pc = "resolve" => worker[v].s \in Sessions
      BY DEF Shape, JobsOK, Fit
    <3> QED
      BY <1>0, <1>1, <2>1, <2>2, <3>1, <3>2 DEF Only, SoleAt, Sole
  <2> QED
    BY <1>0, <1>1, <2>1, <2>3 DEF Only, Replacing
<1>4. CASE Forget
  <2>1. NoneOpened /\ Live' = Live /\ mint' = mint
    BY <1>4 DEF Forget, NoneOpened, Live, redis
  <2>2. ASSUME NEW v \in Workers PROVE SoleAt(v)'
    BY <1>0, <1>1, <2>1, SoleStays DEF Only
  <2>3. ASSUME deal.sent = "no" PROVE Live = {}
    <3>1. \A s \in Live : s = stored /\ session[s] = "open"
      BY <1>0, <1>1, <2>3 DEF Only, Held, Live
    <3> QED
      BY <1>4, <3>1 DEF Forget
  <2> QED
    BY <1>0, <1>1, <2>1, <2>2, <2>3 DEF Only, Replacing
<1>5. CASE LapseMint
  <2>1. session' = session /\ Live' = Live /\ stored' = stored
    BY <1>5 DEF LapseMint, stripe, Live
  <2>2. ASSUME NEW v \in Workers PROVE SoleAt(v)'
    <3>1. worker[v].pc \notin Invoicing \cup {"clickStamp"}
      BY <1>5 DEF LapseMint, In
    <3> QED
      BY <1>0, <1>1, <2>1, <3>1 DEF Only, SoleAt, Sole, Invoicing
  <2> QED
    BY <1>0, <1>1, <2>1, <2>2 DEF Only, Replacing
<1> QED
  BY <1>2, <1>3, <1>4, <1>5

LEMMA NextOne == Shape /\ Shape' /\ Held /\ Held' /\ One /\ [Next]_vars => One'
  BY Steps, CalmOne, StepOne, MintOne, OutsideOne

\* Stripe, the pointer and the invocations agree on the one session.
THEOREM OneHolds == Spec => []One
<1>1. Shape /\ Shape' /\ Held /\ Held' /\ One /\ [Next]_vars => One'
  BY NextOne
<1> QED
  BY <1>1, InitOne, ShapeHolds, HeldHolds, PTL DEF Spec

LEMMA AtMostOne == ASSUME NEW S, NEW a, S \subseteq {a} PROVE Cardinality(S) <= 1
<1>1. CASE S = {}
  BY <1>1, FS_EmptySet
<1>2. CASE S = {a}
  BY <1>2, FS_Singleton
<1> QED
  BY <1>1, <1>2

\* However many sends and clicks there are, together or after one another, the buyer
\* has at most one session to pay while nothing fails and the invoice is not resent.
THEOREM ChargedOnce == Spec => []OneCharge
<1>1. Shape /\ One => OneCharge
  <2> SUFFICES ASSUME Shape, One, Alone PROVE Cardinality(Live) <= 1
    BY DEF OneCharge, Alone
  <2>1. deal.sent \in {"yes", "no"}
    BY DEF Shape, RowOK, Row
  <2>2. ASSUME NEW v \in Workers, Replacing(v) PROVE Live \subseteq {worker[v].s}
    BY <2>2 DEF One, Only, SoleAt, Sole, Replacing
  <2>3. \E a : Live \subseteq {a}
    BY <2>1, <2>2 DEF One, Only
  <2> QED
    BY <2>3, AtMostOne
<1> QED
  BY <1>1, ShapeHolds, OneHolds, PTL

\* A reminder goes out only for a balance that was unpaid when the cron read the row.
THEOREM DunnedWhoOwes == Spec => []DunnedOwes
<1>1. One => DunnedOwes
  BY DEF One, Only, Alone, SoleAt, Sole, DunnedOwes, In
<1> QED
  BY <1>1, OneHolds, PTL

-----------------------------------------------------------------------------
(* A closed deal is reopened loudly.                                         *)

Loudly == {"reopened", "resent", "pending"}
Quietly == deal.status = "Closed Won" /\ slack \cap Loudly = {}

\* Nothing that was decided is about to take the deal out of Closed Won.
Firm(v) ==
  Quietly => /\ worker[v].pc \notin {"ask", "sweep"}
             /\ worker[v].pc = "write" => worker[v].to = "Closed Won"
Firmly == \A v \in Workers : Firm(v)

LEMMA InitFirmly == Init => Firmly
<1> SUFFICES ASSUME Init PROVE Firmly
  OBVIOUS
<1>1. deal.status = "Open"
  BY DEF Init
<1> QED
  BY <1>1 DEF Firmly, Firm, Quietly

\* A step that does not win the deal.
LEMMA PutFirmly ==
  ASSUME Shape, Firmly, NEW w \in Workers, NEW x, Put(w, x), slack \subseteq slack',
         deal'.status = "Closed Won" => deal.status = "Closed Won",
         Quietly' => x.pc \notin {"ask", "sweep"} /\ (x.pc = "write" => x.to = "Closed Won")
  PROVE  Firmly'
<1>1. worker'[w] = x /\ \A v \in Workers \ {w} : worker'[v] = worker[v]
  BY DEF Shape, JobsOK, Put
<1>2. Quietly' => Quietly
  BY DEF Quietly, Loudly
<1> QED
  BY <1>1, <1>2 DEF Firmly, Firm

LEMMA ReturnFirmly ==
  ASSUME Shape, Firmly, NEW w \in Workers, Return(w), slack \subseteq slack',
         deal'.status = "Closed Won" => deal.status = "Closed Won"
  PROVE  Firmly'
<1>1. Idle.pc = "idle"
  BY DEF Idle
<1> QED
  BY <1>1, PutFirmly DEF Return

\* A step that wins it says so if anything else is decided.
LEMMA WinFirmly ==
  ASSUME Shape, Firmly, NEW w \in Workers, NEW x, Put(w, x), x.pc \in {"idle", "signal"},
         slack \subseteq slack', "pending" \in slack' \/ In(Deciding) \subseteq {w}
  PROVE  Firmly'
<1>1. worker'[w].pc \in {"idle", "signal"} /\ \A v \in Workers \ {w} : worker'[v] = worker[v]
  BY DEF Shape, JobsOK, Put
<1>2. CASE "pending" \in slack'
  BY <1>2 DEF Firmly, Firm, Quietly, Loudly
<1>3. CASE In(Deciding) \subseteq {w}
  BY <1>1, <1>3 DEF Firmly, Firm, In, Deciding
<1> QED
  BY <1>2, <1>3

LEMMA RancherFirmly ==
  ASSUME Shape, Firmly, NEW w \in Workers,
         Rancher(w) \/ Visit(w) \/ Click(w) \/ Dun(w) \/ Sweep(w) \/ \E s \in Sessions : Deliver(w, s)
  PROVE  Firmly'
<1>1. deal' = deal /\ slack \subseteq slack'
  BY DEF Rancher, Patch, Quick, Confirm, Accept, Request, Send, Visit, Click, Dun, Sweep, Deliver, Note
<1>2. ASSUME NEW x, Begin(w, x), x.pc \notin {"ask", "sweep", "write"} PROVE Firmly'
  BY <1>1, <1>2, PutFirmly DEF Begin
<1>3. ASSUME NEW x, Begin(w, x), deal.status # "Closed Won" \/ "reopened" \in slack'
             \/ (x.pc \notin {"ask", "sweep"} /\ x.to = "Closed Won")
      PROVE  Firmly'
  BY <1>1, <1>3, PutFirmly DEF Begin, Quietly, Loudly
<1>4. ASSUME NEW to \in Statuses, Patch(w, to) PROVE Firmly'
  <2>1. PICK p \in {"machine", "write"} : /\ Begin(w, [Idle EXCEPT !.pc = p, !.to = to])
                                         /\ Note("reopened", p = "write" /\ deal.status \in Closed)
    BY <1>4 DEF Patch, Rails
  <2>2. CASE p = "write"
    BY <1>3, <2>1, <2>2 DEF Note, Closed
  <2>3. CASE p = "machine"
    BY <1>2, <2>1, <2>3 DEF Idle
  <2> QED
    BY <2>2, <2>3
<1>5. ASSUME NEW to, Quick(w, to) PROVE Firmly'
  BY <1>3, <1>5 DEF Quick, Closed
<1>6. CASE Confirm(w)
  BY <1>3, <1>6 DEF Confirm
<1>7. CASE Accept(w) \/ Send(w) \/ Click(w) \/ Dun(w) \/ \E s \in Sessions : Deliver(w, s)
  BY <1>2, <1>7 DEF Accept, Send, Click, Dun, Deliver, Idle
<1>8. CASE Request(w)
  BY <1>3, <1>8 DEF Request, Note, Closed
<1>9. CASE Visit(w) \/ Sweep(w)
  BY <1>3, <1>9 DEF Visit, Sweep, Closed
<1>10. {"Open", "Closed Won", "Closed Lost"} \subseteq Statuses
  BY DEF Statuses
<1> QED
  BY <1>4, <1>5, <1>6, <1>7, <1>8, <1>9 DEF Rancher

LEMMA StepFirmly ==
  ASSUME Shape, Firmly, NEW w \in Workers, Step(w) \/ Crash(w)
  PROVE  Firmly'
<1>0. worker \in [Workers -> Job] /\ worker[w] \in Job /\ deal \in Row
  BY DEF Shape, JobsOK, RowOK
<1>1. CASE Machine(w)
  <2> DEFINE p == IF Rejects(worker[w].to) THEN "fallback" ELSE "write"
             x == [worker[w] EXCEPT !.pc = p]
  <2>1. Put(w, x) /\ x.pc = p /\ x.to = worker[w].to
    BY <1>0, <1>1 DEF Machine, Go, Put, Job
  <2> HIDE DEF x
  <2>2. deal' = deal /\ slack' = slack
    BY <1>1 DEF Machine
  <2>3. deal.status = "Closed Won" /\ x.pc = "write" => x.to = "Closed Won"
    BY <2>1 DEF Rejects, CanTransition, Closed
  <2>4. x.pc \notin {"ask", "sweep"}
    BY <2>1
  <2> HIDE DEF p
  <2> QED
    BY <2>1, <2>2, <2>3, <2>4, PutFirmly DEF Quietly
<1>2. CASE Write(w)
  <2>0. PICK x : Put(w, x) /\ x.pc \in {"idle", "signal"}
    BY <1>2, WritePut
  <2>1. CASE worker[w].to = "Closed Won"
    BY <1>2, <2>0, <2>1, WinFirmly DEF Write
  <2>2. CASE worker[w].to # "Closed Won"
    BY <1>0, <1>2, <2>0, <2>2, PutFirmly DEF Write, Row
  <2> QED
    BY <2>1, <2>2
<1>3. CASE Ask(w) \/ SweepWrite(w) \/ SendWrite(w) \/ ClickStamp(w) \/ Remind(w) \/ Signal(w) \/ Crash(w)
  <2>1. Return(w) /\ slack \subseteq slack'
    BY <1>3 DEF Ask, SweepWrite, SendWrite, ClickStamp, Remind, Signal, Crash, Note
  <2>2. deal'.status = "Closed Won" => deal.status = "Closed Won"
    BY <1>0, <1>3 DEF Ask, SweepWrite, SendWrite, ClickStamp, Remind, Signal, Crash, Row
  <2> QED
    BY <2>1, <2>2, ReturnFirmly
<1>4. CASE SettleClose(w)
  <2>1. Return(w) /\ slack \subseteq slack' /\ ("pending" \in slack' \/ In(Deciding) = {})
    BY <1>4 DEF SettleClose, Done, Note
  <2> QED
    BY <2>1, WinFirmly DEF Return, Idle
<1>5. ASSUME \/ Return(w)
             \/ \E p \in PCs \ {"ask", "sweep", "write"} : Go(w, p)
             \/ \E x : Put(w, x) /\ x.pc \notin {"ask", "sweep", "write"},
             slack \subseteq slack', deal'.status = deal.status
      PROVE  Firmly'
  <2>1. ASSUME NEW p \in PCs \ {"ask", "sweep", "write"}, Go(w, p) PROVE Firmly'
    <3>1. PICK x : Put(w, x) /\ x.pc = p
      BY <2>1, GoPut
    <3> QED
      BY <1>5, <3>1, PutFirmly
  <2>2. ASSUME NEW x, Put(w, x), x.pc \notin {"ask", "sweep", "write"} PROVE Firmly'
    BY <1>5, <2>2, PutFirmly
  <2>3. CASE Return(w)
    BY <1>5, <2>3, ReturnFirmly
  <2> QED
    BY <1>5, <2>1, <2>2, <2>3
<1>6. CASE SendClaim(w) \/ ClickClaim(w) \/ SettleClaim(w) \/ SettleRead(w) \/ SettleStamp(w)
  <2>1. slack' = slack /\ deal'.status = deal.status
    BY <1>0, <1>6 DEF SendClaim, ClickClaim, SettleClaim, SettleRead, SettleStamp, Row
  <2>2. Return(w) \/ \E p \in PCs \ {"ask", "sweep", "write"} : Go(w, p)
    BY <1>6 DEF SendClaim, ClickClaim, SettleClaim, SettleRead, SettleStamp, Done, PCs, Invoicing
  <2> QED
    BY <1>5, <2>1, <2>2
<1>7. CASE SendMint(w) \/ ClickMint(w)
  <2>1. ASSUME NEW s, NEW p \in {"sendWrite", "clickStamp"}, Put(w, [worker[w] EXCEPT !.pc = p, !.s = s])
        PROVE  Firmly'
    <3> DEFINE y == [worker[w] EXCEPT !.pc = p, !.s = s]
    <3>0. Put(w, y)
      BY <2>1
    <3>1. y.pc = p
      BY <1>0 DEF Job
    <3> HIDE DEF y
    <3>2. slack' = slack /\ deal'.status = deal.status
      BY <1>7 DEF SendMint, ClickMint
    <3> QED
      BY <1>5, <3>0, <3>1, <3>2
  <2> QED
    BY <1>7, <2>1 DEF SendMint, ClickMint
<1>8. CASE Look(w) \/ Resolve(w)
  <2>1. slack \subseteq slack' /\ deal'.status = deal.status
    BY <1>8 DEF Look, Resolve, Note
  <2>2. ASSUME NEW x, Put(w, x), x.pc \in {"clickClaim", "settleClaim"} PROVE Firmly'
    BY <1>5, <2>1, <2>2
  <2>3. CASE Return(w) \/ Go(w, "remind")
    BY <1>5, <2>1, <2>3 DEF PCs
  <2>4. CASE Put(w, [Idle EXCEPT !.pc = "clickClaim"])
    BY <2>2, <2>4 DEF Idle
  <2>5. CASE Put(w, [Idle EXCEPT !.pc = "settleClaim", !.s = worker[w].s])
    BY <2>2, <2>5 DEF Idle
  <2> QED
    BY <1>8, <2>3, <2>4, <2>5 DEF Look, Resolve
<1> QED
  BY <1>1, <1>2, <1>3, <1>4, <1>6, <1>7, <1>8 DEF Step

LEMMA NextFirmly == Shape /\ Firmly /\ [Next]_vars => Firmly'
<1> SUFFICES ASSUME Shape, Firmly, [Next]_vars PROVE Firmly'
  OBVIOUS
<1>1. ASSUME NEW w \in Workers,
             \/ Rancher(w) \/ Visit(w) \/ Click(w) \/ Dun(w) \/ Sweep(w) \/ Step(w) \/ Crash(w)
             \/ \E s \in Sessions : Deliver(w, s)
      PROVE  Firmly'
  BY <1>1, RancherFirmly, StepFirmly
<1>2. CASE \/ Charge \/ Stamp \/ Restamp \/ Refund \/ Forget \/ LapseMint \/ UNCHANGED vars
           \/ \E s \in Sessions : Pay(s) \/ Expire(s) \/ LapseSettle(s)
  <2>1. worker' = worker /\ slack \subseteq slack'
    BY <1>2 DEF Charge, Stamp, Restamp, Refund, Forget, LapseMint, Pay, Expire, LapseSettle, Note, vars
  <2>2. deal'.status = "Closed Won" => deal.status = "Closed Won"
    BY <1>2 DEF Shape, RowOK, Row, Charge, Stamp, Restamp, Refund, Forget, LapseMint, Pay, Expire,
       LapseSettle, vars
  <2> QED
    BY <2>1, <2>2 DEF Firmly, Firm, Quietly, Loudly
<1> QED
  BY <1>1, <1>2 DEF Next

\* No quiet decision is about to take a won deal back.
THEOREM FirmlyHolds == Spec => []Firmly
<1>1. Shape /\ Firmly /\ [Next]_vars => Firmly'
  BY NextFirmly
<1> QED
  BY <1>1, InitFirmly, ShapeHolds, PTL DEF Spec

\* A signal is lost only if something failed.
Heard == "unheard" \in slack => faults # 0

LEMMA NextHeard == Shape /\ Heard /\ [Next]_vars => Heard'
<1> SUFFICES ASSUME Shape, Heard, [Next]_vars PROVE Heard'
  OBVIOUS
<1>0. faults \in Nat /\ (Fault => faults' # 0)
  BY DEF Shape, BoundsOK, Fault
<1>1. ASSUME faults' = faults \/ Fault, "unheard" \in slack' => "unheard" \in slack PROVE Heard'
  BY <1>0, <1>1 DEF Heard
<1>2. ASSUME NEW w \in Workers,
             \/ Rancher(w) \/ Visit(w) \/ Click(w) \/ Dun(w) \/ Sweep(w)
             \/ \E s \in Sessions : Deliver(w, s)
      PROVE  Heard'
  <2>1. faults' = faults
    BY <1>2 DEF Rancher, Patch, Quick, Confirm, Accept, Request, Send, Visit, Click, Dun, Sweep, Deliver, bounds
  <2>2. "unheard" \in slack' => "unheard" \in slack
    <3>1. ASSUME NEW to, Patch(w, to) PROVE "unheard" \in slack' => "unheard" \in slack
      BY <3>1 DEF Patch, Note
    <3>2. CASE Request(w) \/ Send(w)
      BY <3>2 DEF Request, Send, Note
    <3> QED
      BY <1>2, <3>1, <3>2 DEF Rancher, Quick, Confirm, Accept, Visit, Click, Dun, Sweep, Deliver
  <2> QED
    BY <1>1, <2>1, <2>2
<1>3. ASSUME NEW w \in Workers, Signal(w) \/ Crash(w) PROVE Heard'
  BY <1>0, <1>3 DEF Signal, Crash, Note, Heard
<1>4. ASSUME NEW w \in Workers, Step(w), ~Signal(w) PROVE Heard'
  <2>1. faults' = faults \/ Fault
    BY <1>4 DEF Step, Machine, Write, Ask, SendClaim, SendMint, SendWrite, Look, ClickClaim, ClickMint,
       ClickStamp, SettleClaim, SettleRead, SettleStamp, SettleClose, Resolve, Remind, SweepWrite, bounds
  <2>2. "unheard" \in slack' => "unheard" \in slack
    <3>1. CASE Write(w)
      BY <3>1 DEF Write
    <3>2. CASE Look(w) \/ ClickStamp(w)
      BY <3>2 DEF Look, ClickStamp, Note
    <3>3. CASE SettleClose(w) \/ SweepWrite(w)
      <4>1. Note("pending", In(Deciding) # {}) \/ Note("swept", deal.status # "Open")
        BY <3>3 DEF SettleClose, SweepWrite
      <4> QED
        BY <4>1 DEF Note
    <3> QED
      BY <1>4, <3>1, <3>2, <3>3 DEF Step, Machine, Ask, SendClaim, SendMint, SendWrite, ClickClaim, ClickMint,
         SettleClaim, SettleRead, SettleStamp, Resolve, Remind
  <2> QED
    BY <1>1, <2>1, <2>2
<1>5. CASE \/ Charge \/ Restamp \/ Refund \/ Forget \/ LapseMint \/ UNCHANGED vars
           \/ \E s \in Sessions : Pay(s) \/ Expire(s) \/ LapseSettle(s)
  BY <1>1, <1>5 DEF Charge, Restamp, Refund, Forget, LapseMint, Pay, Expire, LapseSettle, Note, vars, bounds
<1>6. CASE Stamp
  BY <1>0, <1>6 DEF Stamp, Note, Heard
<1> QED
  BY <1>2, <1>3, <1>4, <1>5, <1>6 DEF Next

\* Every signal that is not lost is heard.
THEOREM HeardHolds == Spec => []Heard
<1>1. Init => Heard
  BY DEF Init, Heard
<1> QED
  BY <1>1, NextHeard, ShapeHolds, PTL DEF Spec

\* What leaves Closed Won.
Leaves == deal.final = "yes" /\ deal.status = "Closed Won" /\ deal'.status # "Closed Won"
Signals == \E w \in Workers : worker'[w].pc = "signal"

LEMMA LeavesLoudly ==
  ASSUME Shape, Stands, Held, Firmly, Next, Leaves
  PROVE  slack' \cap Loudly # {} \/ Signals
<1>0. deal \in Row /\ deal.sent = "yes" /\ deposit \in Paying
  BY DEF Shape, RowOK, Held, Stands, RowStands, Leaves
<1>1. ASSUME NEW w \in Workers, Write(w) PROVE slack' \cap Loudly # {} \/ Signals
  <2>1. worker[w].to # "Closed Won" /\ slack \subseteq slack'
    BY <1>0, <1>1 DEF Write, Row, Leaves
  <2>2. CASE At(w, "write")
    BY <2>1, <2>2 DEF At, Firmly, Firm, Quietly, Leaves
  <2>3. CASE Go(w, "signal")
    BY <2>3 DEF Go, Signals, Shape, JobsOK, Job
  <2> QED
    BY <1>1, <2>2, <2>3 DEF Write
<1>2. ASSUME NEW w \in Workers, Ask(w) \/ SweepWrite(w) PROVE slack' \cap Loudly # {}
  <2>1. slack \subseteq slack'
    BY <1>2 DEF Ask, SweepWrite, Note
  <2>2. slack \cap Loudly # {}
    BY <1>2 DEF Ask, SweepWrite, At, Firmly, Firm, Quietly, Leaves
  <2> QED
    BY <2>1, <2>2
<1>3. ASSUME NEW w \in Workers, SendWrite(w) PROVE slack' \cap Loudly # {}
  BY <1>0, <1>3 DEF SendWrite, At, Held, Holds, Loudly, Leaves
<1>4. ~Stamp
  BY <1>0 DEF Stamp, Paying
<1>5. ASSUME NEW w \in Workers, Step(w) PROVE slack' \cap Loudly # {} \/ Signals
  <2>1. ~Machine(w) /\ ~Signal(w) /\ ~SendClaim(w) /\ ~SendMint(w) /\ ~Look(w) /\ ~ClickClaim(w)
        /\ ~ClickMint(w)
    BY DEF Machine, Signal, SendClaim, SendMint, Look, ClickClaim, ClickMint, Leaves
  <2>2. ~ClickStamp(w) /\ ~SettleClaim(w) /\ ~SettleRead(w) /\ ~SettleStamp(w) /\ ~SettleClose(w)
        /\ ~Resolve(w) /\ ~Remind(w)
    BY <1>0 DEF ClickStamp, SettleClaim, SettleRead, SettleStamp, SettleClose, Resolve, Remind, Row, Leaves
  <2> QED
    BY <1>1, <1>2, <1>3, <1>5, <2>1, <2>2 DEF Step
<1>6. ASSUME NEW w \in Workers
      PROVE ~(\/ Rancher(w) \/ Visit(w) \/ Click(w) \/ Dun(w) \/ Sweep(w) \/ Crash(w)
              \/ \E s \in Sessions : Deliver(w, s))
  BY DEF Rancher, Patch, Quick, Confirm, Accept, Request, Send, Visit, Click, Dun, Sweep, Crash, Deliver,
     Leaves
<1>7. ~(\/ Charge \/ Restamp \/ Refund \/ Forget \/ LapseMint
        \/ \E s \in Sessions : Pay(s) \/ Expire(s) \/ LapseSettle(s))
  BY <1>0 DEF Charge, Restamp, Refund, Forget, LapseMint, Pay, Expire, LapseSettle, Row, Leaves
<1> QED
  BY <1>4, <1>5, <1>6, <1>7 DEF Next

\* Nobody but the invocation itself ends its signal.
LEMMA SignalHeard ==
  ASSUME Shape, Heard, [Next]_vars, NEW w \in Workers, At(w, "signal"), worker'[w].pc # "signal"
  PROVE  "loud" \in slack' \/ faults' > 0
<1>0. faults \in Nat /\ worker \in [Workers -> Job] /\ (Fault => faults' > 0)
  BY DEF Shape, BoundsOK, JobsOK, Fault
<1>1. CASE Signal(w) \/ Crash(w)
  BY <1>0, <1>1 DEF Signal, Crash, Note, Heard
<1>2. ASSUME NEW v \in Workers, \E x : Put(v, x), v # w PROVE FALSE
  BY <1>0, <1>2 DEF Put, At
<1>3. ASSUME NEW v \in Workers,
             \/ Rancher(v) \/ Visit(v) \/ Click(v) \/ Dun(v) \/ Sweep(v)
             \/ \E s \in Sessions : Deliver(v, s)
      PROVE  FALSE
  <2>1. \E x : Begin(v, x)
    BY <1>3 DEF Rancher, Patch, Quick, Confirm, Accept, Request, Send, Visit, Click, Dun, Sweep, Deliver
  <2> QED
    BY <1>2, <2>1 DEF Begin, At
<1>4. ASSUME NEW v \in Workers, Step(v), v # w PROVE FALSE
  <2>1. \E x : Put(v, x)
    BY <1>4, GoPut DEF Step, Machine, Write, Signal, Ask, SendClaim, SendMint, SendWrite, Look, ClickClaim,
       ClickMint, ClickStamp, SettleClaim, SettleRead, SettleStamp, SettleClose, Resolve, Remind,
       SweepWrite, Done, Return
  <2> QED
    BY <1>2, <1>4, <2>1
<1>5. ASSUME NEW v \in Workers, Crash(v), v # w PROVE FALSE
  BY <1>2, <1>5 DEF Crash, Return
<1>6. Step(w) => Signal(w)
  BY DEF Step, Machine, Write, Ask, SendClaim, SendMint, SendWrite, Look, ClickClaim, ClickMint, ClickStamp,
     SettleClaim, SettleRead, SettleStamp, SettleClose, Resolve, Remind, SweepWrite, At
<1>7. CASE \/ Charge \/ Stamp \/ Restamp \/ Refund \/ Forget \/ LapseMint \/ UNCHANGED vars
           \/ \E s \in Sessions : Pay(s) \/ Expire(s) \/ LapseSettle(s)
  BY <1>7 DEF Charge, Stamp, Restamp, Refund, Forget, LapseMint, Pay, Expire, LapseSettle, vars, At
<1> QED
  BY <1>1, <1>3, <1>4, <1>5, <1>6, <1>7 DEF Next

\* A deal whose balance was paid leaves Closed Won by a move the machine is not asked
\* about, by a resent invoice, by what was decided when it was won, or with a signal to
\* follow, which the operator hears unless something failed.
THEOREM ReopenedLoudly == Spec => ClosedIsLoud
<1>1. Shape /\ Stands /\ Held /\ Firmly /\ Heard /\ [Next]_vars =>
        [/\ Leaves => slack' \cap Loudly # {} \/ Signals
         /\ \A w \in Workers : At(w, "signal") /\ worker'[w].pc # "signal" =>
              "loud" \in slack' \/ faults' > 0]_vars
  BY LeavesLoudly, SignalHeard
<1> QED
  BY <1>1, ShapeHolds, StandsHolds, HeldHolds, FirmlyHolds, HeardHolds, PTL
  DEF Spec, ClosedIsLoud, Loudly, Leaves, Signals
=============================================================================
