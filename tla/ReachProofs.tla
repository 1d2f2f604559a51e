------------------------------ MODULE ReachProofs ------------------------------
(* Proofs about DealLifecycle: a balance that was paid closes the deal, or    *)
(* stays where the next run of the dunning cron finds it.                     *)
EXTENDS DealProofs

(* The pointer tracks the session: until a click opens one beside another or  *)
(* the invoice is sent again, the only session the buyer was ever shown and   *)
(* may have paid is the one the row points to, whatever else fails.           *)

Shown == {s \in Sessions : session[s] \in {"shown", "paid"}}
Straight == slack \cap {"resent", "strayed"} = {}

\* What an invocation of the durable link may rely on.
Track(x) ==
  /\ x.pc \in {"clickMint", "clickStamp"} => Shown = {}
  /\ x.pc = "clickStamp" => session[x.s] \in {"open", "expired"}
  /\ x.pc = "clickLook" /\ mint = "free" => x.s = deal.ptr
  /\ x.pc = "clickClaim" /\ mint = "free" => deal.ptr \notin Shown

Follows == (\A w \in Workers : Track(worker[w])) /\ Shown \subseteq {deal.ptr}
Tracked == Straight => Follows

LEMMA InitTracked == Init => Tracked
<1> SUFFICES ASSUME Init PROVE Tracked
  OBVIOUS
<1>1. Shown = {} /\ \A w \in Workers : worker[w].pc = "idle"
  BY DEF Init, Shown, Idle
<1> QED
  BY <1>1 DEF Tracked, Follows, Track

\* Nothing shows a session, moves the pointer or frees the key.
Unshown ==
  /\ Shown' \subseteq Shown /\ deal'.ptr = deal.ptr /\ (mint' = "free" => mint = "free")
  /\ \A s \in Sessions : session[s] \in {"open", "expired"} => session'[s] \in {"open", "expired"}

\* An invocation that stays where it is loses nothing it relies on.
LEMMA TrackStays ==
  ASSUME Shape, NEW v \in Workers, worker'[v] = worker[v], Track(worker[v]), Unshown
  PROVE  Track(worker[v])'
<1>1. worker[v].pc = "clickStamp" => worker[v].s \in Sessions
  BY DEF Shape, JobsOK, Fit
<1> QED
  BY <1>1 DEF Track, Unshown

\* A step of one invocation that shows nothing.
LEMMA MovedTracked ==
  ASSUME Shape, Tracked, NEW w \in Workers, \A v \in Workers \ {w} : worker'[v] = worker[v],
         Unshown, slack \subseteq slack', Straight' => Track(worker[w])'
  PROVE  Tracked'
<1> SUFFICES ASSUME Straight' PROVE Follows'
  BY DEF Tracked
<1>1. Follows
  BY DEF Tracked, Straight
<1>2. ASSUME NEW v \in Workers PROVE Track(worker[v])'
  <2>1. CASE v # w
    <3>1. worker'[v] = worker[v] /\ Track(worker[v])
      BY <1>1, <2>1 DEF Follows
    <3> QED
      BY <3>1, TrackStays
  <2> QED
    BY <2>1
<1> QED
  BY <1>1, <1>2 DEF Follows, Unshown

LEMMA CalmTracked ==
  ASSUME Shape, Tracked, Still \/ \E w \in Workers : Plain(w)
  PROVE  Tracked'
<1>1. Calm
  BY DEF Still, Plain
<1>2. Unshown /\ slack \subseteq slack'
  BY <1>1 DEF Calm, Unshown, Shown
<1>3. CASE Still
  BY <1>2, <1>3 DEF Still, Calm, Tracked, Straight, Follows, Track, Shown
<1>4. ASSUME NEW w \in Workers, Plain(w) PROVE Tracked'
  <2>1. Track(worker[w])'
    BY <1>4 DEF Plain, Track, Special, Invoicing
  <2> QED
    BY <1>2, <1>4, <2>1, MovedTracked DEF Plain
<1> QED
  BY <1>3, <1>4

\* Whoever reads the row or takes the key.
LEMMA StepTracked ==
  ASSUME Shape, Tracked, NEW w \in Workers,
         Send(w) \/ Click(w) \/ Dun(w) \/ Look(w) \/ Resolve(w) \/ SendClaim(w) \/ ClickClaim(w)
  PROVE  Tracked'
<1>0. worker \in [Workers -> Job] /\ mint \in {"free", "held"}
  BY DEF Shape, JobsOK, RedisOK
<1>1. UNCHANGED <<deal, session>> /\ slack \subseteq slack' /\ (mint' = "free" => mint = "free")
  BY <1>0 DEF Send, Click, Dun, Look, Resolve, SendClaim, ClickClaim, Note, stripe, redis
<1>2. Unshown
  BY <1>1 DEF Unshown, Shown
<1>3. \A v \in Workers \ {w} : worker'[v] = worker[v]
  <2>1. (\E x : Put(w, x)) => \A v \in Workers \ {w} : worker'[v] = worker[v]
    BY <1>0 DEF Put
  <2>2. ASSUME NEW p, Go(w, p) PROVE \E x : Put(w, x)
    BY <2>2, GoPut
  <2>3. \E x : Put(w, x)
    <3>1. CASE Send(w) \/ Click(w) \/ Dun(w)
      BY <3>1 DEF Send, Click, Dun, Begin
    <3>2. CASE Look(w) \/ Resolve(w) \/ SendClaim(w) \/ ClickClaim(w)
      BY <2>2, <3>2 DEF Look, Resolve, SendClaim, ClickClaim, Return
    <3> QED
      BY <3>1, <3>2
  <2> QED
    BY <2>1, <2>3
<1>4. Straight' => Straight
  BY <1>1 DEF Straight
<1>5. ASSUME worker'[w].pc \notin {"clickLook", "clickClaim", "clickMint", "clickStamp"} PROVE Tracked'
  <2>1. Track(worker[w])'
    BY <1>5 DEF Track
  <2> QED
    BY <1>1, <1>2, <1>3, <2>1, MovedTracked
<1>a. ASSUME Return(w) PROVE worker'[w].pc = "idle"
  BY <1>0, <1>a DEF Return, Put, Idle
<1>b. \A p : Go(w, p) => worker'[w].pc = p
  BY <1>0 DEF Go, Job
<1>6. CASE Send(w) \/ Dun(w) \/ SendClaim(w)
  <2>1. Send(w) => worker'[w].pc = "sendClaim"
    BY <1>0 DEF Send, Begin, Put, Idle
  <2>2. Dun(w) => worker'[w].pc = "resolve"
    BY <1>0 DEF Dun, Begin, Put, Idle
  <2>3. SendClaim(w) => worker'[w].pc \in {"idle", "sendMint"}
    BY <1>a, <1>b DEF SendClaim
  <2> QED
    BY <1>5, <1>6, <2>1, <2>2, <2>3
<1>7. CASE Resolve(w)
  <2>1. Put(w, [Idle EXCEPT !.pc = "settleClaim", !.s = worker[w].s]) => worker'[w].pc = "settleClaim"
    BY <1>0 DEF Put, Idle
  <2>2. worker'[w].pc \in {"settleClaim", "remind", "idle"}
    BY <1>7, <1>a, <1>b, <2>1 DEF Resolve
  <2> QED
    BY <1>5, <2>2
<1>8. CASE Click(w)
  <2>1. worker'[w].pc = "clickLook" /\ worker'[w].s = deal.ptr
    BY <1>0, <1>8 DEF Click, Begin, Put, Idle
  <2>2. Track(worker[w])'
    BY <1>1, <2>1 DEF Track
  <2> QED
    BY <1>1, <1>2, <1>3, <2>2, MovedTracked
<1>9. CASE Look(w)
  <2>1. CASE Return(w)
    <3>1. worker'[w].pc = "idle"
      BY <1>0, <2>1 DEF Return, Put, Idle
    <3> QED
      BY <1>5, <3>1
  <2>2. CASE Put(w, [Idle EXCEPT !.pc = "clickClaim"]) /\ ~Return(w)
    <3>1. worker'[w].pc = "clickClaim"
      BY <1>0, <2>2 DEF Put, Idle
    <3>2. Straight' => session[worker[w].s] = "expired"
      BY <1>9, <2>2 DEF Look, Note, Straight
    <3>3. Straight' /\ mint = "free" => worker[w].s = deal.ptr
      BY <1>4, <1>9 DEF Look, At, Tracked, Follows, Track
    <3>4. Straight' => Track(worker[w])'
      BY <1>1, <3>1, <3>2, <3>3 DEF Track, Shown
    <3> QED
      BY <1>1, <1>2, <1>3, <3>4, MovedTracked
  <2> QED
    BY <1>9, <2>1, <2>2 DEF Look
<1>10. CASE ClickClaim(w)
  <2>1. CASE Return(w)
    <3>1. worker'[w].pc = "idle"
      BY <1>0, <2>1 DEF Return, Put, Idle
    <3> QED
      BY <1>5, <3>1
  <2>2. CASE Go(w, "clickMint") /\ mint # "held"
    <3>1. worker'[w].pc = "clickMint"
      BY <1>0, <2>2 DEF Go, Job
    <3>2. Straight' => Shown = {}
      BY <1>0, <1>4, <1>10, <2>2 DEF ClickClaim, At, Tracked, Follows, Track
    <3>3. Straight' => Track(worker[w])'
      BY <1>1, <3>1, <3>2 DEF Track, Shown
    <3> QED
      BY <1>1, <1>2, <1>3, <3>3, MovedTracked
  <2> QED
    BY <1>10, <2>1, <2>2 DEF ClickClaim
<1> QED
  BY <1>6, <1>7, <1>8, <1>9, <1>10

\* Whoever mints: no session was shown, and the one shown last is the row's.
LEMMA MintTracked ==
  ASSUME Shape, Held, Tracked, NEW w \in Workers,
         SendMint(w) \/ ClickMint(w) \/ SendWrite(w) \/ ClickStamp(w)
  PROVE  Tracked'
<1>0. /\ worker \in [Workers -> Job] /\ deal \in Row /\ worker[w] \in Job
      /\ session \in [Sessions -> {"none", "open", "shown", "expired", "paid"}]
  BY DEF Shape, JobsOK, RowOK, StripeOK
<1>1. slack \subseteq slack' /\ (Straight' => Straight)
  BY DEF SendMint, ClickMint, SendWrite, ClickStamp, Note, Straight
<1>2. worker[w].pc \in Minting /\ mint = "held" /\ mint' = "held"
      /\ \A v \in Workers \ {w} : worker[v].pc \notin Minting /\ worker'[v] = worker[v]
  BY <1>0 DEF SendMint, ClickMint, SendWrite, ClickStamp, At, Held, Holds, Minting, Return, Put, redis
<1>3. CASE SendMint(w) \/ ClickMint(w)
  <2>1. Shown' = Shown /\ deal' = deal
    BY <1>0, <1>3 DEF SendMint, ClickMint, Shown, Fresh
  <2>2. Unshown
    BY <1>0, <1>2, <1>3, <2>1 DEF SendMint, ClickMint, Unshown, Fresh
  <2>3. Straight' => Track(worker[w])'
    <3>1. CASE SendMint(w)
      <4>1. worker'[w].pc = "sendWrite"
        <5>1. PICK s : Put(w, [worker[w] EXCEPT !.pc = "sendWrite", !.s = s])
          BY <3>1 DEF SendMint
        <5> QED
          BY <1>0, <5>1 DEF Put, Job
      <4> QED
        BY <4>1 DEF Track
    <3>2. CASE ClickMint(w)
      <4>1. PICK s \in Sessions : /\ Fresh(s) /\ session' = [session EXCEPT ![s] = "open"]
                                  /\ Put(w, [worker[w] EXCEPT !.pc = "clickStamp", !.s = s])
        BY <3>2 DEF ClickMint
      <4>2. worker'[w].pc = "clickStamp" /\ worker'[w].s = s /\ session'[s] = "open"
        BY <1>0, <4>1 DEF Put, Job
      <4>3. Straight' => Shown = {}
        BY <1>1, <3>2 DEF ClickMint, At, Tracked, Follows, Track
      <4> QED
        BY <2>1, <4>2, <4>3 DEF Track
    <3> QED
      BY <1>3, <3>1, <3>2
  <2> QED
    BY <1>1, <1>2, <2>2, <2>3, MovedTracked
<1>4. CASE SendWrite(w) \/ ClickStamp(w)
  <2>1. worker'[w].pc = "idle" /\ worker[w].s \in Sessions
    <3>1. Return(w)
      BY <1>4 DEF SendWrite, ClickStamp
    <3> QED
      BY <1>0, <1>4, <3>1 DEF Return, Put, Idle, SendWrite, ClickStamp, At, Shape, JobsOK, Fit
  <2>2. Track(worker[w])'
    BY <2>1 DEF Track
  <2>3. CASE UNCHANGED <<deal, session>>
    <3>1. Unshown
      BY <1>2, <2>3 DEF Unshown, Shown
    <3> QED
      BY <1>1, <1>2, <2>2, <3>1, MovedTracked
  <2>4. CASE Show(worker[w].s) /\ deal'.ptr = worker[w].s
    <3> SUFFICES ASSUME Straight' PROVE Follows'
      BY DEF Tracked
    <3>1. Shown = {}
      <4>1. CASE SendWrite(w)
        BY <1>1, <4>1 DEF Straight, SendWrite, At, Held, Holds, Shown
      <4>2. CASE ClickStamp(w)
        BY <1>1, <4>2 DEF ClickStamp, At, Tracked, Follows, Track
      <4> QED
        BY <1>4, <4>1, <4>2
    <3>2. Shown' \subseteq {worker[w].s}
      BY <1>0, <2>4, <3>1 DEF Show, Shown
    <3>3. ASSUME NEW v \in Workers PROVE Track(worker[v])'
      BY <1>2, <2>2 DEF Track, Minting
    <3> QED
      BY <2>4, <3>2, <3>3 DEF Follows
  <2>5. CASE ClickStamp(w) /\ deal' = deal /\ "strayed" \in slack'
    BY <2>5 DEF Tracked, Straight
  <2>6. \/ UNCHANGED <<deal, session>>
        \/ Show(worker[w].s) /\ deal'.ptr = worker[w].s
        \/ ClickStamp(w) /\ deal' = deal /\ "strayed" \in slack'
    <3>1. SendWrite(w) => \/ UNCHANGED <<deal, session>>
                          \/ Show(worker[w].s) /\ deal'.ptr = worker[w].s
      BY <1>0 DEF SendWrite, Row
    <3>2. ClickStamp(w) => \/ Show(worker[w].s) /\ deal'.ptr = worker[w].s
                           \/ deal' = deal /\ "strayed" \in slack'
      BY <1>0 DEF ClickStamp, Row, Note
    <3> QED
      BY <1>4, <3>1, <3>2
  <2> QED
    BY <2>3, <2>4, <2>5, <2>6
<1> QED
  BY <1>3, <1>4

LEMMA OutsideTracked ==
  ASSUME Shape, Tracked, (\E s \in Sessions : Pay(s) \/ Expire(s)) \/ Forget \/ LapseMint
  PROVE  Tracked'
<1> SUFFICES ASSUME Straight PROVE Follows'
  BY DEF Tracked, Straight, Pay, Expire, Forget, LapseMint
<1>0. session \in [Sessions -> {"none", "open", "shown", "expired", "paid"}]
      /\ deal' = deal /\ worker' = worker /\ Follows
  BY DEF Shape, StripeOK, Tracked, Pay, Expire, Forget, LapseMint
<1>1. CASE (\E s \in Sessions : Pay(s) \/ Expire(s)) \/ Forget
  <2>1. Unshown
    BY <1>0, <1>1 DEF Pay, Expire, Forget, Unshown, Shown, redis
  <2>2. \A v \in Workers : Track(worker[v])'
    BY <1>0, <2>1, TrackStays DEF Follows
  <2> QED
    BY <1>0, <2>1, <2>2 DEF Follows, Unshown
<1>2. CASE LapseMint
  <2>1. session' = session /\ \A v \in Workers : worker[v].pc \notin Invoicing \cup {"clickStamp"}
    BY <1>2 DEF LapseMint, stripe, In
  <2>2. \A v \in Workers : Track(worker[v])'
    BY <1>0, <2>1 DEF Track, Invoicing
  <2> QED
    BY <1>0, <2>1, <2>2 DEF Follows, Shown
<1> QED
  BY <1>1, <1>2

LEMMA NextTracked == Shape /\ Held /\ Tracked /\ [Next]_vars => Tracked'
  BY Steps, CalmTracked, StepTracked, MintTracked, OutsideTracked

\* Until the invoice is sent again or a click strays, the row points to every session
\* a buyer was shown or paid, however many requests fail.
THEOREM TrackedHolds == Spec => []Tracked
<1>1. Shape /\ Held /\ Tracked /\ [Next]_vars => Tracked'
  BY NextTracked
<1> QED
  BY <1>1, InitTracked, ShapeHolds, HeldHolds, PTL DEF Spec

\* The buyer pays the balance at most once, whatever fails, unless a session strayed or
\* the rancher sent the invoice again.
THEOREM BalancePaidOnce == Spec => []PaidOnce
<1>1. Tracked => PaidOnce
  <2> SUFFICES ASSUME Tracked, Straight PROVE Cardinality(Paid) <= 1
    BY DEF PaidOnce, Straight
  <2>1. Paid \subseteq {deal.ptr}
    BY DEF Tracked, Follows, Shown, Paid
  <2> QED
    BY <2>1, AtMostOne
<1> QED
  BY <1>1, TrackedHolds, PTL

-----------------------------------------------------------------------------
(* No decision in flight takes a paid, invoiced deal out of Closed Won, and   *)
(* no payment of the balance gets lost between Stripe and the row.            *)

Excused == {"raced", "late", "resent", "reopened", "pending", "swept"}
Clean == deal.paid = "yes" /\ slack \cap Excused = {}
Won == deal.status = "Closed Won"

\* What was decided against a won deal: nothing, or what it already is.
Bound(x) ==
  /\ x.pc \notin {"ask", "sweep"}
  /\ x.pc \in {"machine", "write", "fallback"} => x.to \in {"Closed Won", "Slot Locked"}
Bounded == Clean /\ deal.sent = "yes" /\ Won => \A v \in Workers : Bound(worker[v])

Handling(s) == \E v \in Workers :
  worker[v].pc \in {"settleRead", "settleStamp", "settleClose"} /\ worker[v].s = s

\* Nothing failed, but for the one request that made a session stray.
Lossless == faults = 0 \/ (faults = 1 /\ "strayed" \in slack)
Kept ==
  /\ \A s \in Paid : s \in inbox \/ Won \/ Handling(s)
  /\ \A s \in settling : Won \/ Handling(s)
Reach ==
  /\ "strayed" \in slack => faults # 0
  /\ Bounded
  /\ Clean /\ Lossless => Kept

LEMMA InitReach == Init => Reach
  BY DEF Init, Reach, Bounded, Clean, Kept, Paid

\* The history only grows, and a deal with an invoice was paid before it.
LEMMA SlackGrows == ASSUME [Next]_vars PROVE slack \subseteq slack'
<1>1. ASSUME NEW w \in Workers, Rancher(w) \/ Visit(w) \/ Click(w) \/ Dun(w) \/ Sweep(w) \/ Crash(w)
      PROVE  slack \subseteq slack'
  BY <1>1 DEF Rancher, Patch, Quick, Confirm, Accept, Request, Send, Visit, Click, Dun, Sweep, Crash, Note
<1>2. ASSUME NEW w \in Workers, Step(w) PROVE slack \subseteq slack'
  BY <1>2 DEF Step, Machine, Write, Signal, Ask, SendClaim, SendMint, SendWrite, Look, ClickClaim, ClickMint,
     ClickStamp, SettleClaim, SettleRead, SettleStamp, SettleClose, Resolve, Remind, SweepWrite, Note
<1> QED
  BY <1>1, <1>2 DEF Next, Deliver, Charge, Stamp, Restamp, Refund, Pay, Expire, LapseSettle, Forget,
     LapseMint, Note, vars

LEMMA CleanStays ==
  ASSUME Shape, Stands, [Next]_vars, deal.sent = "yes", Clean' PROVE Clean
<1>0. deal \in Row /\ deposit \in Paying
  BY DEF Shape, RowOK, Stands, RowStands
<1>1. ~Stamp /\ ~Restamp
  BY <1>0 DEF Stamp, Restamp, Paying
<1>2. ASSUME NEW w \in Workers, Step(w) PROVE deal'.paid = deal.paid
  BY <1>0, <1>2 DEF Step, Machine, Write, Signal, Ask, SendClaim, SendMint, SendWrite, Look, ClickClaim, ClickMint,
     ClickStamp, SettleClaim, SettleRead, SettleStamp, SettleClose, Resolve, Remind, SweepWrite, Row
<1>3. ASSUME NEW w \in Workers, Rancher(w) \/ Visit(w) \/ Click(w) \/ Dun(w) \/ Sweep(w) \/ Crash(w)
             \/ \E s \in Sessions : Deliver(w, s)
      PROVE  deal' = deal
  BY <1>3 DEF Rancher, Patch, Quick, Confirm, Accept, Request, Send, Visit, Click, Dun, Sweep, Crash, Deliver
<1>4. deal'.paid = "yes" => deal.paid = "yes"
  BY <1>0, <1>1, <1>2, <1>3 DEF Next, Charge, Refund, Pay, Expire, LapseSettle, Forget, LapseMint, Row, vars
<1> QED
  BY <1>4, SlackGrows DEF Clean

\* A step that neither wins the deal nor pays for one with an invoice.
LEMMA PutBounded ==
  ASSUME Shape, Bounded, NEW w \in Workers, NEW x, Put(w, x),
         Clean' /\ deal'.sent = "yes" /\ Won' => Clean /\ deal.sent = "yes" /\ Won /\ Bound(x)
  PROVE  Bounded'
<1>1. worker'[w] = x /\ \A v \in Workers \ {w} : worker'[v] = worker[v]
  BY DEF Shape, JobsOK, Put
<1> QED
  BY <1>1 DEF Bounded, Bound

LEMMA ReturnBounded ==
  ASSUME Shape, Bounded, NEW w \in Workers, Return(w),
         Clean' /\ deal'.sent = "yes" /\ Won' => Clean /\ deal.sent = "yes" /\ Won
  PROVE  Bounded'
<1>1. Bound(Idle)
  BY DEF Bound, Idle
<1> QED
  BY <1>1, PutBounded DEF Return

LEMMA WinBounded ==
  ASSUME Shape, Bounded, NEW w \in Workers, NEW x, Put(w, x), x.pc \in {"idle", "signal"},
         "pending" \in slack' \/ In(Deciding) \subseteq {w}
  PROVE  Bounded'
<1>1. worker'[w].pc \in {"idle", "signal"} /\ \A v \in Workers \ {w} : worker'[v] = worker[v]
  BY DEF Shape, JobsOK, Put
<1>2. CASE "pending" \in slack'
  BY <1>2 DEF Bounded, Clean, Excused
<1>3. CASE In(Deciding) \subseteq {w}
  BY <1>1, <1>3 DEF Bounded, Bound, In, Deciding
<1> QED
  BY <1>2, <1>3

LEMMA RancherBounded ==
  ASSUME Shape, Bounded, NEW w \in Workers,
         Rancher(w) \/ Visit(w) \/ Click(w) \/ Dun(w) \/ Sweep(w) \/ \E s \in Sessions : Deliver(w, s)
  PROVE  Bounded'
<1>1. deal' = deal /\ slack \subseteq slack'
  BY DEF Rancher, Patch, Quick, Confirm, Accept, Request, Send, Visit, Click, Dun, Sweep, Deliver, Note
<1>2. Clean' => Clean
  BY <1>1 DEF Clean
<1>3. ASSUME NEW x, Begin(w, x), x.pc \notin {"ask", "sweep", "machine", "write", "fallback"}
      PROVE Bounded'
  <2>1. Bound(x) /\ Put(w, x)
    BY <1>3 DEF Bound, Begin
  <2> QED
    BY <1>1, <1>2, <2>1, PutBounded DEF Won
<1>4. ASSUME NEW x, Begin(w, x), deal.status # "Closed Won" \/ deal.paid # "yes" \/ "reopened" \in slack'
      PROVE  Bounded'
  <2>1. ~(Clean' /\ Won')
    BY <1>1, <1>4 DEF Clean, Won, Excused
  <2> QED
    BY <1>4, <2>1, PutBounded DEF Begin
<1>5. ASSUME NEW to, Patch(w, to) PROVE Bounded'
  <2>1. PICK p : /\ Begin(w, [Idle EXCEPT !.pc = p, !.to = to])
                 /\ p \in Rails(to) /\ Note("reopened", p = "write" /\ deal.status \in Closed)
    BY <1>5 DEF Patch
  <2>2. deal.status # "Closed Won" \/ deal.paid # "yes" \/ "reopened" \in slack'
    BY <1>5, <2>1 DEF Patch, Rails, Note, Closed
  <2> QED
    BY <1>4, <2>1, <2>2
<1>6. ASSUME NEW to, Quick(w, to) PROVE Bounded'
  BY <1>4, <1>6 DEF Quick, Closed
<1>7. CASE Confirm(w) \/ Request(w) \/ Visit(w) \/ Sweep(w)
  BY <1>4, <1>7 DEF Confirm, Request, Visit, Sweep, Closed
<1>8. CASE Send(w) \/ Click(w) \/ Dun(w) \/ \E s \in Sessions : Deliver(w, s)
  BY <1>3, <1>8 DEF Send, Click, Dun, Deliver, Idle
<1>9. CASE Accept(w)
  <2> DEFINE x == [Idle EXCEPT !.pc = "machine", !.to = "Slot Locked"]
  <2>1. Put(w, x) /\ x.pc = "machine" /\ x.to = "Slot Locked"
    BY <1>9 DEF Accept, Begin, Idle
  <2> HIDE DEF x
  <2>2. Bound(x)
    BY <2>1 DEF Bound
  <2> QED
    BY <1>1, <1>2, <2>1, <2>2, PutBounded DEF Won
<1> QED
  BY <1>5, <1>6, <1>7, <1>8, <1>9 DEF Rancher

LEMMA StepBounded ==
  ASSUME Shape, Stands, Bounded, NEW w \in Workers, Step(w) \/ Crash(w)
  PROVE  Bounded'
<1>0. worker \in [Workers -> Job] /\ worker[w] \in Job /\ deal \in Row /\ slack \subseteq slack'
  BY SlackGrows DEF Shape, JobsOK, RowOK, Next
<1>1. CASE Machine(w)
  <2>0. PICK p \in {"write", "fallback"} : Go(w, p)
    BY <1>1 DEF Machine
  <2>1. PICK x : Put(w, x) /\ x.pc = p /\ x.to = worker[w].to
    <3> DEFINE y == [worker[w] EXCEPT !.pc = p]
    <3>1. Put(w, y) /\ y.pc = p /\ y.to = worker[w].to
      BY <1>0, <2>0 DEF Go, Put, Job
    <3> HIDE DEF y
    <3> QED
      BY <3>1
  <2>2. deal' = deal /\ (Clean' => Clean)
    BY <1>0, <1>1 DEF Machine, Clean
  <2>3. Clean /\ deal.sent = "yes" /\ Won => Bound(x)
    BY <1>1, <2>1 DEF Machine, At, Bounded, Bound
  <2> QED
    BY <2>1, <2>2, <2>3, PutBounded DEF Won
<1>2. CASE Write(w)
  <2>0. PICK x : Put(w, x) /\ x.pc \in {"idle", "signal"}
    BY <1>2, WritePut
  <2>1. CASE worker[w].to = "Closed Won"
    BY <1>2, <2>0, <2>1, WinBounded DEF Write
  <2>2. CASE worker[w].to # "Closed Won"
    BY <1>0, <1>2, <2>0, <2>2, PutBounded DEF Write, Row, Won
  <2> QED
    BY <2>1, <2>2
<1>3. CASE SettleClose(w)
  <2>1. Return(w) /\ ("pending" \in slack' \/ In(Deciding) = {})
    BY <1>3 DEF SettleClose, Done, Note
  <2> QED
    BY <2>1, WinBounded DEF Return, Idle
<1>4. ASSUME \/ Return(w) \/ \E p \in PCs \ Deciding : Go(w, p)
             \/ \E x : Put(w, x) /\ x.pc \notin Deciding,
             Clean' /\ deal'.sent = "yes" /\ Won' => Clean /\ deal.sent = "yes" /\ Won
      PROVE  Bounded'
  <2>1. ASSUME NEW x, Put(w, x), x.pc \notin Deciding PROVE Bounded'
    <3>1. Bound(x)
      BY <2>1 DEF Bound, Deciding
    <3> QED
      BY <1>4, <2>1, <3>1, PutBounded
  <2>2. ASSUME NEW p \in PCs \ Deciding, Go(w, p) PROVE Bounded'
    BY <2>1, <2>2, GoPut
  <2> QED
    BY <1>4, <2>1, <2>2, ReturnBounded
<1>5. CASE Ask(w) \/ SweepWrite(w) \/ SendWrite(w) \/ ClickStamp(w) \/ Remind(w)
          \/ Signal(w) \/ Crash(w)
  <2>1. Return(w)
    BY <1>5 DEF Ask, SweepWrite, SendWrite, ClickStamp, Remind, Signal, Crash
  <2>2. deal'.paid = deal.paid /\ (Won' => Won /\ deal'.sent = deal.sent)
    BY <1>0, <1>5 DEF Ask, SweepWrite, SendWrite, ClickStamp, Remind, Signal, Crash, Row, Won
  <2>3. Clean' => Clean
    BY <1>0, <2>2 DEF Clean
  <2> QED
    BY <1>4, <2>1, <2>2, <2>3
<1>6. CASE SendClaim(w) \/ ClickClaim(w) \/ SettleClaim(w) \/ SettleRead(w) \/ SettleStamp(w)
  <2>1. deal'.status = deal.status /\ deal'.paid = deal.paid /\ deal'.sent = deal.sent
    BY <1>0, <1>6 DEF SendClaim, ClickClaim, SettleClaim, SettleRead, SettleStamp, Row
  <2>2. Return(w) \/ \E p \in PCs \ Deciding : Go(w, p)
    BY <1>6 DEF SendClaim, ClickClaim, SettleClaim, SettleRead, SettleStamp, Done, PCs, Invoicing, Deciding
  <2> QED
    BY <1>0, <1>4, <2>1, <2>2 DEF Clean, Won
<1>7. CASE SendMint(w) \/ ClickMint(w)
  <2>1. ASSUME NEW s, NEW p \in {"sendWrite", "clickStamp"}, Put(w, [worker[w] EXCEPT !.pc = p, !.s = s])
        PROVE  Bounded'
    <3> DEFINE y == [worker[w] EXCEPT !.pc = p, !.s = s]
    <3>0. Put(w, y)
      BY <2>1
    <3>1. y.pc \notin Deciding
      BY <1>0 DEF Job, Deciding
    <3> HIDE DEF y
    <3>2. deal' = deal
      BY <1>7 DEF SendMint, ClickMint
    <3> QED
      BY <1>0, <1>4, <3>0, <3>1, <3>2 DEF Clean, Won
  <2> QED
    BY <1>7, <2>1 DEF SendMint, ClickMint
<1>8. CASE Look(w) \/ Resolve(w)
  <2>1. deal' = deal
    BY <1>8 DEF Look, Resolve
  <2>2. ASSUME NEW x, Put(w, x), x.pc \in {"clickClaim", "settleClaim"} PROVE Bounded'
    BY <1>0, <1>4, <2>1, <2>2 DEF Clean, Won, Deciding
  <2>3. CASE Return(w) \/ Go(w, "remind")
    BY <1>0, <1>4, <2>1, <2>3 DEF Clean, Won, PCs, Deciding
  <2>4. CASE Put(w, [Idle EXCEPT !.pc = "clickClaim"])
    BY <2>2, <2>4 DEF Idle
  <2>5. CASE Put(w, [Idle EXCEPT !.pc = "settleClaim", !.s = worker[w].s])
    BY <2>2, <2>5 DEF Idle
  <2> QED
    BY <1>8, <2>3, <2>4, <2>5 DEF Look, Resolve
<1> QED
  BY <1>1, <1>2, <1>3, <1>5, <1>6, <1>7, <1>8 DEF Step

LEMMA NextBounded == Shape /\ Stands /\ Bounded /\ [Next]_vars => Bounded'
<1> SUFFICES ASSUME Shape, Stands, Bounded, [Next]_vars PROVE Bounded'
  OBVIOUS
<1>1. ASSUME NEW w \in Workers,
             \/ Rancher(w) \/ Visit(w) \/ Click(w) \/ Dun(w) \/ Sweep(w) \/ Step(w) \/ Crash(w)
             \/ \E s \in Sessions : Deliver(w, s)
      PROVE  Bounded'
  BY <1>1, RancherBounded, StepBounded
<1>2. CASE \/ Charge \/ Stamp \/ Restamp \/ Refund \/ Forget \/ LapseMint \/ UNCHANGED vars
           \/ \E s \in Sessions : Pay(s) \/ Expire(s) \/ LapseSettle(s)
  <2>0. deal \in Row
    BY DEF Shape, RowOK
  <2>1. worker' = worker
    BY <1>2 DEF Charge, Stamp, Restamp, Refund, Forget, LapseMint, Pay, Expire, LapseSettle, vars
  <2>2. deal'.sent = deal.sent /\ (Won' => Won)
    BY <1>2, <2>0 DEF Won, Row, Charge, Stamp, Restamp, Refund, Forget, LapseMint, Pay, Expire,
       LapseSettle, vars
  <2>3. Clean' /\ deal'.sent = "yes" => Clean
    BY <2>2, CleanStays
  <2> QED
    BY <2>1, <2>2, <2>3 DEF Bounded, Bound
<1> QED
  BY <1>1, <1>2 DEF Next

\* A won deal whose balance was paid stays won.
LEMMA StaysWon ==
  ASSUME Shape, Stands, Held, Bounded, [Next]_vars, Clean', deal.sent = "yes", Won
  PROVE  Won'
<1>0. deal \in Row /\ deposit \in Paying /\ slack' \cap Excused = {} /\ slack \cap Excused = {}
  BY CleanStays DEF Shape, RowOK, Stands, RowStands, Clean
<1>1. \A v \in Workers : Bound(worker[v])
  BY CleanStays DEF Bounded
<1>2. ASSUME NEW w \in Workers, Write(w) PROVE Won'
  <2>1. worker[w].to \in {"Closed Won", "Slot Locked"}
    BY <1>1, <1>2 DEF Bound, Write, At
  <2>2. worker[w].to # "Slot Locked"
    BY <1>0, <1>2 DEF Write, Excused
  <2> QED
    BY <1>0, <1>2, <2>1, <2>2 DEF Write, Won, Row
<1>3. ASSUME NEW w \in Workers PROVE ~Ask(w) /\ ~SweepWrite(w) /\ ~SendWrite(w)
  BY <1>0, <1>1 DEF Bound, Ask, SweepWrite, SendWrite, At, Held, Holds, Excused
<1>4. ~Stamp
  BY <1>0 DEF Stamp, Paying
<1>5. ASSUME NEW w \in Workers, Step(w) PROVE Won'
  <2>1. Machine(w) \/ Signal(w) \/ SendClaim(w) \/ SendMint(w) \/ Look(w) \/ ClickClaim(w) \/ ClickMint(w)
          => deal' = deal
    BY DEF Machine, Signal, SendClaim, SendMint, Look, ClickClaim, ClickMint
  <2>2. ClickStamp(w) \/ SettleClaim(w) \/ SettleRead(w) \/ SettleStamp(w) \/ SettleClose(w)
          \/ Resolve(w) \/ Remind(w) => Won'
    BY <1>0 DEF ClickStamp, SettleClaim, SettleRead, SettleStamp, SettleClose, Resolve, Remind, Row, Won
  <2> QED
    BY <1>2, <1>3, <1>5, <2>1, <2>2 DEF Step, Won
<1>6. ASSUME NEW w \in Workers,
             \/ Rancher(w) \/ Visit(w) \/ Click(w) \/ Dun(w) \/ Sweep(w) \/ Crash(w)
             \/ \E s \in Sessions : Deliver(w, s)
      PROVE  Won'
  BY <1>6 DEF Rancher, Patch, Quick, Confirm, Accept, Request, Send, Visit, Click, Dun, Sweep, Crash,
     Deliver, Won
<1> QED
  BY <1>0, <1>4, <1>5, <1>6 DEF Next, Charge, Restamp, Refund, Forget, LapseMint, Pay, Expire,
     LapseSettle, vars, Won, Row

\* A session strays by a failed request, and a failed request either makes one stray
\* or is counted against Lossless.
LEMMA Faulted ==
  ASSUME Shape, [Next]_vars
  PROVE  \/ faults' = faults /\ ("strayed" \in slack' => "strayed" \in slack)
         \/ faults' = faults + 1 /\ ("strayed" \in slack' => "strayed" \in slack)
         \/ faults' = faults + 1 /\ \E w \in Workers : Look(w) \/ ClickStamp(w)
<1>1. ASSUME NEW w \in Workers, Rancher(w) \/ Visit(w) \/ Click(w) \/ Dun(w) \/ Sweep(w)
      PROVE  faults' = faults /\ ("strayed" \in slack' => "strayed" \in slack)
  BY <1>1 DEF Rancher, Patch, Quick, Confirm, Accept, Request, Send, Visit, Click, Dun, Sweep, Note, bounds
<1>2. ASSUME NEW w \in Workers, Look(w) \/ ClickStamp(w)
      PROVE  \/ faults' = faults /\ slack' = slack
             \/ faults' = faults + 1
  BY <1>2 DEF Look, ClickStamp, Fault
<1>3. ASSUME NEW w \in Workers, Step(w) \/ Crash(w), ~Look(w), ~ClickStamp(w)
      PROVE  /\ faults' = faults \/ faults' = faults + 1
             /\ "strayed" \in slack' => "strayed" \in slack
  <2>1. CASE Machine(w) \/ Write(w) \/ Signal(w) \/ Ask(w) \/ SweepWrite(w) \/ Crash(w)
    <3>1. faults' = faults \/ faults' = faults + 1
      BY <2>1 DEF Machine, Write, Signal, Ask, SweepWrite, Crash, Fault, bounds
    <3>2. ASSUME "strayed" \in slack' PROVE "strayed" \in slack
      <4>1. CASE Write(w)
        BY <3>2, <4>1 DEF Write
      <4>2. CASE Signal(w) \/ SweepWrite(w) \/ Crash(w)
        BY <3>2, <4>2 DEF Signal, SweepWrite, Crash, Note
      <4>3. CASE Machine(w) \/ Ask(w)
        BY <3>2, <4>3 DEF Machine, Ask
      <4> QED
        BY <2>1, <4>1, <4>2, <4>3
    <3> QED
      BY <3>1, <3>2
  <2>2. CASE SendClaim(w) \/ SendMint(w) \/ SendWrite(w) \/ ClickClaim(w) \/ ClickMint(w)
    BY <2>2 DEF SendClaim, SendMint, SendWrite, ClickClaim, ClickMint, Fault, bounds
  <2>3. CASE SettleClaim(w) \/ SettleRead(w) \/ SettleStamp(w) \/ SettleClose(w) \/ Resolve(w) \/ Remind(w)
    BY <2>3 DEF SettleClaim, SettleRead, SettleStamp, SettleClose, Resolve, Remind, Note, Fault, bounds
  <2> QED
    BY <1>3, <2>1, <2>2, <2>3 DEF Step
<1>4. CASE Stamp
  BY <1>4 DEF Stamp, Note
<1>5. CASE \/ \E w \in Workers, s \in Sessions : Deliver(w, s)
           \/ Charge \/ Restamp \/ Refund \/ Forget \/ LapseMint \/ UNCHANGED vars
           \/ \E s \in Sessions : Pay(s) \/ Expire(s) \/ LapseSettle(s)
  <2>1. faults' = faults
    BY <1>5 DEF Deliver, Charge, Restamp, Refund, Forget, LapseMint, Pay, Expire, LapseSettle, vars, bounds
  <2>2. ASSUME "strayed" \in slack' PROVE "strayed" \in slack
    <3>1. CASE Restamp
      BY <2>2, <3>1 DEF Restamp, Note
    <3>2. CASE Refund
      BY <2>2, <3>2 DEF Refund, Note
    <3>3. (~Restamp /\ ~Refund) => slack' = slack
      BY <1>5 DEF Deliver, Charge, Forget, LapseMint, Pay, Expire, LapseSettle, vars
    <3> QED
      BY <2>2, <3>1, <3>2, <3>3
  <2> QED
    BY <2>1, <2>2
<1> QED
  BY <1>1, <1>2, <1>3, <1>4, <1>5 DEF Next

\* A step of an invocation that does not handle a payment, and takes none.
LEMMA PutKept ==
  ASSUME Shape, Kept, NEW w \in Workers, \A v \in Workers \ {w} : worker'[v] = worker[v],
         worker[w].pc \notin {"settleRead", "settleStamp", "settleClose"},
         Paid' \subseteq Paid, inbox \subseteq inbox', settling' \subseteq settling,
         Paid # {} /\ Won => Won'
  PROVE  Kept'
<1>1. \A s : Handling(s) => Handling(s)'
  BY DEF Handling
<1>2. settling' \subseteq Paid
  BY DEF Shape, RedisOK
<1> QED
  BY <1>1, <1>2 DEF Kept

\* The steps of a settlement: what it takes from the inbox is won or in other hands,
\* what it claims is in its own.
LEMMA SettleKept ==
  ASSUME Shape, Kept, NEW w \in Workers,
         SettleClaim(w) \/ SettleRead(w) \/ SettleStamp(w) \/ SettleClose(w)
  PROVE  Kept'
<1>0. worker \in [Workers -> Job] /\ deal \in Row /\ worker[w] \in Job
  BY DEF Shape, JobsOK, RowOK
<1>1. Paid' = Paid
  BY DEF SettleClaim, SettleRead, SettleStamp, SettleClose, stripe, Paid
<1>2. \A v \in Workers \ {w} : worker'[v] = worker[v]
  BY <1>0 DEF SettleClaim, SettleRead, SettleStamp, SettleClose, Go, Done, Return, Put
<1>3. \A s : s # worker[w].s /\ Handling(s) => Handling(s)'
  BY <1>2 DEF Handling
<1>4. Won => Won'
  BY <1>0 DEF SettleClaim, SettleRead, SettleStamp, SettleClose, Won, Row
<1>5. inbox' = inbox \/ inbox' = inbox \ {worker[w].s}
  BY DEF SettleClaim, SettleRead, SettleStamp, SettleClose, Done, stripe
<1>6. CASE SettleClaim(w)
  <2>1. CASE worker[w].s \in settling /\ settling' = settling
    <3>1. Won \/ Handling(worker[w].s)
      BY <2>1 DEF Kept
    <3>2. \A s : Handling(s) => Handling(s)'
      BY <1>2, <1>6 DEF Handling, SettleClaim, At
    <3> QED
      BY <1>1, <1>4, <1>5, <2>1, <3>1, <3>2 DEF Kept
  <2>2. CASE Go(w, "settleRead") /\ settling' = settling \cup {worker[w].s} /\ inbox' = inbox
    <3>1. worker'[w].pc = "settleRead" /\ worker'[w].s = worker[w].s
      BY <1>0, <2>2 DEF Go, Job
    <3>2. \A s : s = worker[w].s => Handling(s)'
      BY <3>1 DEF Handling
    <3>3. \A s : Handling(s) => Handling(s)'
      BY <1>2, <1>6 DEF Handling, SettleClaim, At
    <3> QED
      BY <1>1, <1>4, <2>2, <3>2, <3>3 DEF Kept
  <2> QED
    BY <1>6, <2>1, <2>2 DEF SettleClaim
<1>7. CASE SettleRead(w) \/ SettleStamp(w) \/ SettleClose(w)
  <2>1. settling' = settling
    BY <1>7 DEF SettleRead, SettleStamp, SettleClose, redis
  <2>2. CASE Won'
    BY <1>1, <2>1, <2>2 DEF Kept
  <2>3. CASE inbox' = inbox /\ \E p \in {"settleStamp", "settleClose"} : Go(w, p)
    <3>1. worker'[w].pc \in {"settleStamp", "settleClose"} /\ worker'[w].s = worker[w].s
      BY <1>0, <2>3 DEF Go, Job
    <3>2. \A s : s = worker[w].s => Handling(s)'
      BY <3>1 DEF Handling
    <3> QED
      BY <1>1, <1>3, <1>4, <2>1, <2>3, <3>2 DEF Kept
  <2> QED
    BY <1>0, <1>7, <2>2, <2>3 DEF SettleRead, SettleStamp, SettleClose, Won, Row, stripe
<1> QED
  BY <1>6, <1>7

LEMMA NextReach == Shape /\ Shape' /\ Stands /\ Held /\ Reach /\ [Next]_vars => Reach'
<1> SUFFICES ASSUME Shape, Shape', Stands, Held, Reach, [Next]_vars PROVE Reach'
  OBVIOUS
<1>0. faults \in Nat /\ worker \in [Workers -> Job] /\ deal \in Row
      /\ session \in [Sessions -> {"none", "open", "shown", "expired", "paid"}]
      /\ inbox \subseteq Paid /\ settling \subseteq Paid
  BY DEF Shape, BoundsOK, JobsOK, RowOK, StripeOK, RedisOK
<1>1. "strayed" \in slack' => faults' # 0
  BY <1>0, Faulted DEF Reach
<1>2. Bounded'
  BY NextBounded DEF Reach
<1>3. ASSUME Clean', Lossless' PROVE Kept'
  <2>1. /\ Lossless
        /\ faults' = faults \/ \E w \in Workers : Look(w) \/ ClickStamp(w)
    BY <1>0, <1>3, Faulted, SlackGrows DEF Lossless, Reach
  <2>2. Paid # {} => deal.sent = "yes"
    BY DEF Paid, Held
  <2>3. Paid # {} /\ Won => Won'
    BY <1>3, <2>2, StaysWon DEF Reach
  <2>4. Kept
    <3>1. CASE Paid = {}
      BY <1>0, <3>1 DEF Kept
    <3>2. CASE Paid # {}
      BY <1>3, <2>1, <2>2, <3>2, CleanStays DEF Reach
    <3> QED
      BY <3>1, <3>2
  <2>5. ASSUME NEW w \in Workers, NEW x, Put(w, x), UNCHANGED <<stripe, redis>>,
               worker[w].pc \notin {"settleRead", "settleStamp", "settleClose"}
        PROVE  Kept'
    <3>1. \A v \in Workers \ {w} : worker'[v] = worker[v]
      BY <1>0, <2>5 DEF Put
    <3> QED
      BY <2>3, <2>4, <2>5, <3>1, PutKept DEF stripe, redis, Paid
  <2>6. ASSUME NEW w \in Workers,
               Rancher(w) \/ Visit(w) \/ Click(w) \/ Dun(w) \/ Sweep(w)
               \/ \E s \in Sessions : Deliver(w, s)
        PROVE  Kept'
    <3>1. UNCHANGED <<stripe, redis>>
      BY <2>6 DEF Rancher, Patch, Quick, Confirm, Accept, Request, Send, Visit, Click, Dun, Sweep, Deliver
    <3>2. \E x : Begin(w, x)
      BY <2>6 DEF Rancher, Patch, Quick, Confirm, Accept, Request, Send, Visit, Click, Dun, Sweep, Deliver
    <3> QED
      BY <2>5, <3>1, <3>2 DEF Begin, At
  <2>7. ASSUME NEW w \in Workers, Step(w) PROVE Kept'
    <3>1. CASE Machine(w) \/ Write(w) \/ Signal(w) \/ Ask(w) \/ SweepWrite(w) \/ Look(w) \/ Resolve(w) \/ Remind(w)
      <4>1. UNCHANGED <<stripe, redis>>
        BY <3>1 DEF Machine, Write, Signal, Ask, SweepWrite, Look, Resolve, Remind
      <4>2. worker[w].pc \notin {"settleRead", "settleStamp", "settleClose"}
        BY <3>1 DEF Machine, Write, Signal, Ask, SweepWrite, Look, Resolve, Remind, At
      <4>3. ASSUME NEW p, Go(w, p) PROVE \E x : Put(w, x)
        BY <4>3, GoPut
      <4>4. \E x : Put(w, x)
        BY <3>1, <4>3 DEF Machine, Write, Signal, Ask, SweepWrite, Look, Resolve, Remind, Return
      <4> QED
        BY <2>5, <4>1, <4>2, <4>4
    <3>2. CASE SendClaim(w) \/ ClickClaim(w) \/ SendMint(w) \/ ClickMint(w) \/ SendWrite(w) \/ ClickStamp(w)
      <4>1. Paid' \subseteq Paid
        BY <1>0, <3>2 DEF SendClaim, ClickClaim, SendMint, ClickMint, SendWrite, ClickStamp, Show, stripe, Paid
      <4>2. inbox' = inbox /\ settling' = settling
        BY <3>2 DEF SendClaim, ClickClaim, SendMint, ClickMint, SendWrite, ClickStamp, stripe, redis
      <4>3. worker[w].pc \notin {"settleRead", "settleStamp", "settleClose"}
        BY <3>2 DEF SendClaim, ClickClaim, SendMint, ClickMint, SendWrite, ClickStamp, At
      <4>4. \A v \in Workers \ {w} : worker'[v] = worker[v]
        BY <1>0, <3>2 DEF SendClaim, ClickClaim, SendMint, ClickMint, SendWrite, ClickStamp, Go, Return, Put
      <4> QED
        BY <2>3, <2>4, <4>1, <4>2, <4>3, <4>4, PutKept
    <3>3. CASE SettleClaim(w) \/ SettleRead(w) \/ SettleStamp(w) \/ SettleClose(w)
      BY <2>4, <3>3, SettleKept
    <3> QED
      BY <2>7, <3>1, <3>2, <3>3 DEF Step
  <2>8. ASSUME NEW w \in Workers, Crash(w) PROVE Kept'
    <3>1. faults' # faults
      BY <1>0, <2>8 DEF Crash, Fault
    <3>2. ASSUME NEW v \in Workers, Look(v) \/ ClickStamp(v) PROVE Kept'
      BY <2>7, <3>2 DEF Step
    <3> QED
      BY <2>1, <3>1, <3>2
  <2>9. ASSUME NEW s \in Sessions, Pay(s) PROVE Kept'
    <3>1. Paid' \subseteq Paid \cup {s} /\ inbox' = inbox \cup {s} /\ settling' = settling
      BY <1>0, <2>9 DEF Pay, Paid, redis
    <3>2. (Won => Won') /\ \A t : Handling(t) => Handling(t)'
      BY <2>9 DEF Pay, Won, Handling
    <3> QED
      BY <2>4, <3>1, <3>2 DEF Kept
  <2>10. CASE \/ Charge \/ Stamp \/ Restamp \/ Refund \/ Forget \/ LapseMint \/ UNCHANGED vars
              \/ \E s \in Sessions : Expire(s) \/ LapseSettle(s)
    <3>1. inbox' = inbox /\ settling' \subseteq settling /\ worker' = worker
      BY <2>10 DEF Charge, Stamp, Restamp, Refund, Forget, LapseMint, Expire, LapseSettle, stripe, redis, vars
    <3>2. Paid' \subseteq Paid
      BY <1>0, <2>10 DEF Charge, Stamp, Restamp, Refund, Forget, LapseMint, Expire, LapseSettle, stripe, vars, Paid
    <3>3. \A t : Handling(t) => Handling(t)'
      BY <3>1 DEF Handling
    <3> QED
      BY <1>0, <2>3, <2>4, <3>1, <3>2, <3>3 DEF Kept
  <2> QED
    BY <2>6, <2>7, <2>8, <2>9, <2>10 DEF Next
<1> QED
  BY <1>1, <1>2, <1>3 DEF Reach

\* No payment of the balance gets lost between Stripe and the row, and no decision in
\* flight takes a won deal back.
THEOREM ReachHolds == Spec => []Reach
<1>1. Shape /\ Shape' /\ Stands /\ Held /\ Reach /\ [Next]_vars => Reach'
  BY NextReach
<1> QED
  BY <1>1, InitReach, ShapeHolds, StandsHolds, HeldHolds, PTL DEF Spec

\* A balance that was paid closed the deal, or is where the next run of the dunning
\* cron heals it, whatever was lost on the way; a session that strayed is won by its
\* own webhook, unless something else failed.
THEOREM PaidIsReached == Spec => []PaidInReach
<1>1. Shape /\ Stands /\ Held /\ Tracked /\ Reach => PaidInReach
  <2> SUFFICES ASSUME Shape, Stands, Held, Tracked, Reach, Quiet, NEW s \in Paid, deal.paid = "yes",
                      "strayed" \in slack => faults < 2, slack \cap Excused = {}
               PROVE  \/ Won
                      \/ deal.sent = "yes" /\ deal.status = "Awaiting Payment" /\ session[deal.ptr] = "paid"
    BY DEF PaidInReach, Excused, Won
  <2>1. s \in Sessions /\ session[s] = "paid" /\ deal.sent = "yes"
    BY DEF Paid, Held
  <2>2. CASE "strayed" \in slack
    <3>1. faults \in Nat
      BY DEF Shape, BoundsOK
    <3>2. Clean /\ Lossless
      BY <2>2, <3>1 DEF Reach, Clean, Lossless
    <3>3. ~Handling(s) /\ s \notin inbox
      BY DEF Quiet, In, Handling
    <3> QED
      BY <3>2, <3>3 DEF Reach, Kept
  <2>3. CASE "strayed" \notin slack
    <3>1. s = deal.ptr
      BY <2>1, <2>3 DEF Excused, Tracked, Straight, Follows, Shown
    <3>2. deal.status \in {"Awaiting Payment", "Closed Won"}
      BY <2>1 DEF Excused, Stands, RowStands
    <3> QED
      BY <2>1, <3>1, <3>2 DEF Won
  <2> QED
    BY <2>2, <2>3
<1> QED
  BY <1>1, ShapeHolds, StandsHolds, HeldHolds, TrackedHolds, ReachHolds, PTL
=============================================================================
