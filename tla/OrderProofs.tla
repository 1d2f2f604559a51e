---------------------------- MODULE OrderProofs ----------------------------
(* Proofs about ProductOrder, for every number of invocations, of clicks,   *)
(* of faults and of units in stock.                                         *)
EXTENDS ProductOrder, TLAPS

Job == [pc : PCs, ev : Events \cup {None}, saw : Row, left : Nat, force : {"yes", "no"}]

-----------------------------------------------------------------------------
(* Types. *)

LEMMA IdleJob == Idle \in Job
  BY DEF Idle, Job, PCs, Row, Absent, Statuses, PushStatuses

LEMMA InitTypes == Init => TypeOK
<1> SUFFICES ASSUME Init PROVE TypeOK
  OBVIOUS
<1>1. order \in Row
  BY DEF Init, Row, Absent, Statuses, PushStatuses
<1>2. worker \in [Workers -> Job]
  BY IdleJob DEF Init
<1> QED
  BY <1>1, <1>2, ProductOrderAssumption DEF Init, TypeOK, Job

\* An invocation that takes a step has a job again, and marks an overlap or not.
LEMMA PutTypes ==
  ASSUME TypeOK, NEW w \in Workers, NEW x \in Job, Put(w, x)
  PROVE  worker' \in [Workers -> Job] /\ crossed' \in {"yes", "no"}
  BY DEF TypeOK, Job, Put

LEMMA GoTypes ==
  ASSUME TypeOK, NEW w \in Workers, NEW p \in PCs, Go(w, p)
  PROVE  worker' \in [Workers -> Job] /\ crossed' \in {"yes", "no"}
<1> DEFINE x == [worker[w] EXCEPT !.pc = p]
<1>1. x \in Job
  BY DEF TypeOK, Job
<1>2. Put(w, x)
  BY DEF Go
<1> HIDE DEF x
<1> QED
  BY <1>1, <1>2, PutTypes

LEMMA ReturnTypes ==
  ASSUME TypeOK, NEW w \in Workers, Return(w)
  PROVE  worker' \in [Workers -> Job] /\ crossed' \in {"yes", "no"} /\ inbox' \subseteq Events
  BY IdleJob, PutTypes DEF Return, TypeOK

LEMMA BeginTypes ==
  ASSUME TypeOK, NEW w \in Workers, NEW p \in PCs, NEW e \in Events \cup {None}, Begin(w, p, e)
  PROVE  worker' \in [Workers -> Job] /\ crossed' \in {"yes", "no"}
<1> DEFINE x == [Idle EXCEPT !.pc = p, !.ev = e]
<1>1. x \in Job
  BY IdleJob DEF Job, Idle
<1>2. Put(w, x)
  BY DEF Begin
<1> HIDE DEF x
<1> QED
  BY <1>1, <1>2, PutTypes

LEMMA FaultTypes == ASSUME TypeOK, Fault PROVE faults' \in 0..MaxFaults
  BY ProductOrderAssumption DEF TypeOK, Fault

LEMMA RequestTypes == ASSUME TypeOK, Request PROVE requests' \in 0..MaxRequests
  BY ProductOrderAssumption DEF TypeOK, Request

\* What an invocation has still to do is one of the places of the model.
LEMMA ClaimTypes ==
  ASSUME TypeOK, NEW w \in Workers, NEW p, NEW c \in Keys, NEW q \in PCs, Claim(w, p, c, q)
  PROVE  TypeOK'
<1>1. worker' \in [Workers -> Job] /\ crossed' \in {"yes", "no"} /\ inbox' \subseteq Events
  BY ReturnTypes, GoTypes DEF Claim, TypeOK
<1> QED
  BY <1>1 DEF Claim, TypeOK, Job

LEMMA SettleTypes == ASSUME TypeOK, NEW w \in Workers, Settle(w) PROVE TypeOK'
<1>0. {"find", "create", "burnRead", "burnWrite", "pushRead"} \subseteq PCs /\ "settle" \in Keys
  BY DEF PCs, Settling, Pushing, Keys
<1>1. CASE ClaimSettle(w)
  BY <1>0, <1>1, ClaimTypes DEF ClaimSettle
<1>2. CASE Find(w)
  <2>1. worker' \in [Workers -> Job] /\ crossed' \in {"yes", "no"} /\ inbox' \subseteq Events
    BY <1>0, <1>2, ReturnTypes, GoTypes DEF Find, TypeOK
  <2> QED
    BY <1>2, <2>1 DEF Find, TypeOK, Job
<1>3. CASE Create(w)
  <2>1. worker' \in [Workers -> Job] /\ crossed' \in {"yes", "no"}
    BY <1>0, <1>3, GoTypes DEF Create
  <2>2. order' \in Row
    BY <1>3 DEF Create, Row, Absent, Statuses, PushStatuses
  <2> QED
    BY <1>3, <2>1, <2>2 DEF Create, stripe, TypeOK, Job
<1>4. CASE BurnRead(w)
  <2>1. [worker[w] EXCEPT !.pc = "burnWrite", !.left = left] \in Job
    BY <1>0 DEF TypeOK, Job
  <2>2. worker' \in [Workers -> Job] /\ crossed' \in {"yes", "no"}
    BY <1>0, <1>4, <2>1, PutTypes, GoTypes DEF BurnRead
  <2> QED
    BY <1>4, <2>2, FaultTypes DEF BurnRead, stripe, TypeOK, Job
<1>5. CASE BurnWrite(w)
  <2>1. worker' \in [Workers -> Job] /\ crossed' \in {"yes", "no"}
    BY <1>0, <1>5, GoTypes DEF BurnWrite
  <2>2. left' \in Nat
    BY <1>5 DEF BurnWrite, TypeOK
  <2> QED
    BY <1>5, <2>1, <2>2, FaultTypes DEF BurnWrite, stripe, TypeOK, Job
<1> QED
  BY <1>1, <1>2, <1>3, <1>4, <1>5 DEF Settle

\* A write of one field of the row leaves a row.
LEMMA RowTypes ==
  ASSUME TypeOK
  PROVE  /\ \A s \in Statuses : [order EXCEPT !.status = s] \in Row
         /\ \A p \in PushStatuses : [order EXCEPT !.push = p] \in Row
         /\ \A p \in PushStatuses, e \in {"yes", "no"} : [order EXCEPT !.ext = e, !.push = p] \in Row
         /\ [order EXCEPT !.restored = "yes"] \in Row
  BY DEF TypeOK, Row

LEMMA CancelTypes ==
  ASSUME TypeOK, NEW e \in {"yes", "no"}, CancelOrder(e)
  PROVE  /\ order' \in Row /\ store' \in {"none", "live", "cancelled", "sent"}
         /\ faults' \in 0..MaxFaults
<1>1. PICK ok \in {store = "live", FALSE} :
        /\ store' = IF ok THEN "cancelled" ELSE store
        /\ order' = [order EXCEPT !.ext = e, !.push = IF ok THEN "cancelled" ELSE "cancel-failed"]
        /\ IF ok \/ store # "live" THEN UNCHANGED faults ELSE Fault
  BY DEF CancelOrder
<1>2. order' \in Row
  BY <1>1, RowTypes DEF PushStatuses
<1>3. faults' \in 0..MaxFaults
  BY <1>1, FaultTypes DEF TypeOK
<1> QED
  BY <1>1, <1>2, <1>3 DEF TypeOK

\* What is stamped or not leaves a row.
LEMMA StampTypes ==
  ASSUME TypeOK, NEW p \in PushStatuses, Stamp(p)
  PROVE  order' \in Row /\ faults' \in 0..MaxFaults
<1>1. [order EXCEPT !.push = p] \in Row /\ order \in Row /\ faults \in 0..MaxFaults
  BY RowTypes DEF TypeOK
<1>2. (order' = [order EXCEPT !.push = p] /\ faults' = faults) \/ (Fault /\ order' = order)
  BY DEF Stamp
<1> QED
  BY <1>1, <1>2, FaultTypes

LEMMA PushTypes == ASSUME TypeOK, NEW w \in Workers, Push(w) PROVE TypeOK'
<1> DEFINE Fine == worker' \in [Workers -> Job] /\ crossed' \in {"yes", "no"}
<1>0. Pushing \subseteq PCs /\ {"", "skipped", "pushing", "pushed", "failed", "unstamped"} \subseteq PushStatuses
  BY DEF PCs, PushStatuses
<1>r. ASSUME Return(w) PROVE Fine /\ inbox' \subseteq Events
  BY <1>r, ReturnTypes
<1>g. ASSUME NEW p \in Pushing, Go(w, p) PROVE Fine
  BY <1>0, <1>g, GoTypes
<1>s. ASSUME NEW p \in {"", "skipped", "pushing", "pushed", "failed", "unstamped"}
      PROVE  [order EXCEPT !.push = p] \in Row /\ [order EXCEPT !.ext = "yes", !.push = p] \in Row
  BY <1>0, RowTypes
<1>t. ASSUME NEW p \in {"", "skipped", "failed"}, Stamp(p)
      PROVE  order' \in Row /\ faults' \in 0..MaxFaults
  BY <1>0, <1>t, StampTypes
<1> HIDE DEF Fine
<1>1. CASE PushRead(w)
  <2>1. Fine /\ inbox' \subseteq Events
    BY <1>r, <1>g, <1>1 DEF PushRead, Pushing, TypeOK
  <2>2. faults' \in 0..MaxFaults
    BY <1>1, FaultTypes DEF PushRead, TypeOK
  <2> QED
    BY <1>1, <2>1, <2>2 DEF Fine, PushRead, TypeOK, Job
<1>2. CASE PushSkip(w)
  BY <1>r, <1>t, <1>2 DEF Fine, PushSkip, TypeOK, Job
<1>3. CASE PushStamp(w)
  <2>1. Fine
    BY <1>g, <1>3 DEF PushStamp, Pushing
  <2>2. order' \in Row /\ faults' \in 0..MaxFaults
    BY <1>s, <1>3, FaultTypes DEF PushStamp, TypeOK
  <2> QED
    BY <1>3, <2>1, <2>2 DEF Fine, PushStamp, stripe, TypeOK, Job
<1>4. CASE PushCall(w)
  <2>1. Fine /\ inbox' \subseteq Events
    BY <1>r, <1>g, <1>4 DEF PushCall, Pushing, TypeOK
  <2>2. store' \in {"none", "live", "cancelled", "sent"} /\ faults' \in 0..MaxFaults
    BY <1>4, FaultTypes DEF PushCall, TypeOK
  <2> QED
    BY <1>4, <2>1, <2>2 DEF Fine, PushCall, TypeOK, Job
<1>5. CASE PushVerify(w)
  <2>1. Fine /\ inbox' \subseteq Events
    BY <1>r, <1>g, <1>5 DEF PushVerify, Pushing, TypeOK
  <2>2. order' \in Row /\ faults' \in 0..MaxFaults
    BY <1>s, <1>5, FaultTypes DEF PushVerify, TypeOK
  <2> QED
    BY <1>5, <2>1, <2>2 DEF Fine, PushVerify, TypeOK, Job
<1>6. CASE PushKeep(w)
  <2>2. order' \in Row /\ faults' \in 0..MaxFaults
    BY <1>s, <1>6, FaultTypes DEF PushKeep, TypeOK
  <2> QED
    BY <1>r, <1>6, <2>2 DEF Fine, PushKeep, TypeOK, Job
<1>7. CASE PushUnship(w)
  <2>1. CASE CancelOrder("yes")
    BY <1>r, <1>7, <2>1, CancelTypes DEF Fine, PushUnship, TypeOK, Job
  <2>2. CASE ~CancelOrder("yes")
    BY <1>r, <1>7, <2>2, FaultTypes DEF Fine, PushUnship, TypeOK, Job
  <2> QED
    BY <2>1, <2>2
<1>8. CASE PushRevert(w)
  <2>1. Fine /\ inbox' \subseteq Events
    BY <1>r, <1>g, <1>8 DEF PushRevert, Pushing, TypeOK
  <2>2. faults' \in 0..MaxFaults
    BY <1>8, FaultTypes DEF PushRevert, TypeOK
  <2> QED
    BY <1>8, <2>1, <2>2 DEF Fine, PushRevert, TypeOK, Job
<1>9. CASE PushBlank(w)
  BY <1>r, <1>t, <1>9 DEF Fine, PushBlank, TypeOK, Job
<1>10. CASE PushGiveUp(w)
  <2>1. Fine
    BY <1>g, <1>10 DEF PushGiveUp, Pushing
  <2>2. CASE Stamp("skipped")
    BY <1>t, <1>10, <2>1, <2>2 DEF Fine, PushGiveUp, stripe, TypeOK, Job
  <2>3. CASE Stamp("failed")
    BY <1>t, <1>10, <2>1, <2>3 DEF Fine, PushGiveUp, stripe, TypeOK, Job
  <2> QED
    BY <1>10, <2>2, <2>3 DEF PushGiveUp
<1>11. CASE PushRing(w)
  <2>1. told' \in {"no", "yes", "lost"} /\ faults' \in 0..MaxFaults
    BY <1>11, FaultTypes DEF PushRing, Unheard, TypeOK
  <2> QED
    BY <1>r, <1>11, <2>1 DEF Fine, PushRing, TypeOK, Job
<1> QED
  BY <1>1, <1>2, <1>3, <1>4, <1>5, <1>6, <1>7, <1>8, <1>9, <1>10, <1>11 DEF Push

LEMMA ReconcileTypes == ASSUME TypeOK, NEW w \in Workers, Reconcile(w) PROVE TypeOK'
<1> DEFINE Fine == worker' \in [Workers -> Job] /\ crossed' \in {"yes", "no"}
<1>0. Reconciling \subseteq PCs /\ "reconcile" \in Keys
  BY DEF PCs, Keys
<1>r. ASSUME Return(w) PROVE Fine /\ inbox' \subseteq Events
  BY <1>r, ReturnTypes
<1>g. ASSUME NEW p \in Reconciling, Go(w, p) PROVE Fine
  BY <1>0, <1>g, GoTypes
<1> HIDE DEF Fine
<1>1. CASE Read(w)
  <2>1. [worker[w] EXCEPT !.pc = "rclaim", !.saw = order] \in Job
    BY <1>0 DEF Reconciling, TypeOK, Job
  <2>2. Fine /\ inbox' \subseteq Events
    BY <1>r, <1>1, <2>1, PutTypes DEF Fine, Read, TypeOK
  <2> QED
    BY <1>1, <2>2 DEF Fine, Read, TypeOK, Job
<1>2. CASE ClaimReconcile(w)
  BY <1>0, <1>2, ClaimTypes DEF ClaimReconcile, Reconciling
<1>3. CASE Flip(w)
  <2>1. Fine /\ inbox' \subseteq Events
    BY <1>r, <1>g, <1>3 DEF Flip, AfterFlip, Reconciling, TypeOK
  <2>2. order' \in {order, [order EXCEPT !.status = "Refunded"]} /\ faults' \in 0..MaxFaults
    BY <1>3, FaultTypes DEF Flip, TypeOK
  <2>3. order' \in Row
    BY <2>2, RowTypes DEF TypeOK, Statuses, Terminal
  <2> QED
    BY <1>3, <2>1, <2>2, <2>3 DEF Fine, Flip, TypeOK, Job
<1>4. CASE RestoreRead(w)
  <2>1. [worker[w] EXCEPT !.pc = "restoreWrite", !.left = left] \in Job
    BY <1>0 DEF Reconciling, TypeOK, Job
  <2>2. Fine
    BY <1>g, <1>4, <2>1, PutTypes DEF Fine, RestoreRead, Reconciling
  <2> QED
    BY <1>4, <2>2, FaultTypes DEF Fine, RestoreRead, stripe, TypeOK, Job
<1>5. CASE RestoreWrite(w)
  <2>1. Fine
    BY <1>g, <1>5 DEF RestoreWrite, Reconciling
  <2>2. left' \in Nat
    BY <1>5 DEF RestoreWrite, TypeOK
  <2> QED
    BY <1>5, <2>1, <2>2, FaultTypes DEF Fine, RestoreWrite, stripe, TypeOK, Job
<1>6. CASE StoreCancel(w)
  <2>1. Fine
    BY <1>g, <1>6 DEF StoreCancel, Reconciling
  <2>2. order.ext \in {"yes", "no"} /\ "cancelled" \in PushStatuses
    BY DEF TypeOK, Row, PushStatuses
  <2>3. /\ order' \in Row /\ store' \in {"none", "live", "cancelled", "sent"}
        /\ faults' \in 0..MaxFaults
    BY <1>6, <2>2, CancelTypes, RowTypes, FaultTypes DEF StoreCancel, TypeOK
  <2> QED
    BY <1>6, <2>1, <2>3 DEF Fine, StoreCancel, stripe, TypeOK, Job
<1>7. CASE Mark(w)
  BY <1>r, <1>7, RowTypes DEF Fine, Mark, TypeOK, Job
<1> QED
  BY <1>1, <1>2, <1>3, <1>4, <1>5, <1>6, <1>7 DEF Reconcile

LEMMA RancherTypes == ASSUME TypeOK, NEW w \in Workers, Rancher(w) PROVE TypeOK'
<1> DEFINE Fine == worker' \in [Workers -> Job] /\ crossed' \in {"yes", "no"}
<1>0. /\ {"termFlip", "termRefund", "termRevert", "shipWrite", "read"} \subseteq PCs
      /\ {"terminate", "ship"} \subseteq Keys /\ {"New", "Shipped", "Cancelled"} \subseteq Statuses
  BY DEF PCs, Terminating, Shipping, Keys, Statuses, Terminal
<1>r. ASSUME Return(w) PROVE Fine /\ inbox' \subseteq Events
  BY <1>r, ReturnTypes
<1>g. ASSUME NEW p \in {"termRefund", "termRevert"}, Go(w, p) PROVE Fine
  BY <1>0, <1>g, GoTypes
<1> HIDE DEF Fine
<1>1. CASE ClaimTerminate(w)
  BY <1>0, <1>1, ClaimTypes DEF ClaimTerminate
<1>2. CASE TermFlip(w)
  <2>1. Fine /\ inbox' \subseteq Events
    BY <1>r, <1>g, <1>2 DEF TermFlip, TypeOK
  <2>2. order' \in {order, [order EXCEPT !.status = "Cancelled"]}
    BY <1>2 DEF TermFlip
  <2>3. order' \in Row
    <3>1. [order EXCEPT !.status = "Cancelled"] \in Row /\ order \in Row
      BY <1>0, RowTypes DEF TypeOK
    <3> QED
      BY <2>2, <3>1
  <2>4. faults' \in 0..MaxFaults
    BY <1>2, FaultTypes DEF TermFlip, TypeOK
  <2> QED
    BY <1>2, <2>1, <2>3, <2>4 DEF Fine, TermFlip, TypeOK, Job
<1>3. CASE TermRefund(w)
  <2>1. [worker[w] EXCEPT !.pc = "read", !.force = "yes"] \in Job
    BY <1>0 DEF TypeOK, Job
  <2>2. Fine
    BY <1>g, <1>3, <2>1, PutTypes DEF Fine, TermRefund, Refunded
  <2>3. /\ charge' \in {"none", "paid", "returned"} /\ inbox' \subseteq Events
        /\ claims' \subseteq Keys /\ faults' \in 0..MaxFaults
    BY <1>3, FaultTypes DEF TermRefund, stripe, TypeOK, Events, Keys
  <2> QED
    BY <1>3, <2>2, <2>3 DEF Fine, TermRefund, TypeOK, Job
<1>4. CASE TermRevert(w)
  BY <1>0, <1>r, <1>4, RowTypes DEF Fine, TermRevert, TypeOK, Job
<1>5. CASE ClaimShip(w)
  BY <1>0, <1>5, ClaimTypes DEF ClaimShip
<1>6. CASE ShipWrite(w)
  BY <1>0, <1>r, <1>6, RowTypes DEF Fine, ShipWrite, TypeOK, Job
<1> QED
  BY <1>1, <1>2, <1>3, <1>4, <1>5, <1>6 DEF Rancher

LEMMA StartTypes ==
  ASSUME TypeOK, NEW w \in Workers,
         \/ Net(w) \/ PushNet(w) \/ PushRetry(w)
         \/ Terminate(w) \/ Ship(w) \/ Fulfil(w) \/ Crash(w)
  PROVE  TypeOK'
<1> DEFINE Fine == worker' \in [Workers -> Job] /\ crossed' \in {"yes", "no"}
<1>0. {"settle", "pushRead", "termClaim", "shipClaim", "shipWrite"} \subseteq PCs
  BY DEF PCs, Pushing, Terminating, Shipping
<1>b. ASSUME NEW p \in {"settle", "pushRead", "termClaim", "shipClaim", "shipWrite"},
             Begin(w, p, None)
      PROVE  Fine
  BY <1>0, <1>b, BeginTypes
<1> HIDE DEF Fine
<1>1. CASE Net(w)
  BY <1>b, <1>1 DEF Fine, Net, stripe, TypeOK, Job
<1>2. CASE PushNet(w)
  BY <1>b, <1>2 DEF Fine, PushNet, stripe, TypeOK, Job
<1>r. CASE PushRetry(w)
  BY <1>b, <1>r DEF Fine, PushRetry, stripe, TypeOK, Job
<1>3. CASE Terminate(w)
  BY <1>b, <1>3, RequestTypes DEF Fine, Terminate, stripe, TypeOK, Job
<1>4. CASE Ship(w)
  BY <1>b, <1>4, RequestTypes DEF Fine, Ship, stripe, TypeOK, Job
<1>5. CASE Fulfil(w)
  <2>1. Fine
    BY <1>b, <1>5 DEF Fine, Fulfil, TypeOK, Job
  <2> QED
    BY <1>5, <2>1 DEF Fine, Fulfil, stripe, TypeOK, Job
<1>6. CASE Crash(w)
  <2>1. told' \in {"no", "yes", "lost"}
    BY <1>6 DEF Crash, Unheard, TypeOK
  <2> QED
    BY <1>6, <2>1, IdleJob, PutTypes, FaultTypes DEF Fine, Crash, stripe, TypeOK, Job
<1> QED
  BY <1>1, <1>2, <1>r, <1>3, <1>4, <1>5, <1>6

LEMMA WorldTypes ==
  ASSUME TypeOK,
         \/ Pay \/ Dashboard \/ \E c \in Keys : Lapse(c)
         \/ \E w \in Workers, ev \in Events : Deliver(w, ev)
  PROVE  TypeOK'
<1>1. CASE Pay
  BY <1>1 DEF Pay, history, TypeOK, Events
<1>2. CASE Dashboard
  BY <1>2 DEF Dashboard, TypeOK, Events
<1>3. ASSUME NEW c \in Keys, Lapse(c) PROVE TypeOK'
  BY <1>3 DEF Lapse, stripe, history, TypeOK
<1>4. ASSUME NEW w \in Workers, NEW ev \in Events, Deliver(w, ev) PROVE TypeOK'
  <2>1. worker' \in [Workers -> Job] /\ crossed' \in {"yes", "no"}
    BY <1>4, BeginTypes DEF Deliver, PCs
  <2> QED
    BY <1>4, <2>1 DEF Deliver, stripe, TypeOK, Job
<1> QED
  BY <1>1, <1>2, <1>3, <1>4

LEMMA NextTypes == TypeOK /\ [Next]_vars => TypeOK'
<1> SUFFICES ASSUME TypeOK, [Next]_vars PROVE TypeOK'
  OBVIOUS
<1>1. CASE UNCHANGED vars
  BY <1>1 DEF vars, stripe, history, TypeOK
<1>2. CASE Next
  BY <1>2, WorldTypes, StartTypes, SettleTypes, PushTypes, ReconcileTypes, RancherTypes DEF Next, Step
<1> QED
  BY <1>1, <1>2

\* The row takes only a status its base offers, and each invocation only values it
\* read, in every behaviour.
THEOREM OrderTypes == Spec => []TypeOK
  BY InitTypes, NextTypes, PTL DEF Spec

-----------------------------------------------------------------------------
(* What holds as long as nothing fails, no refund comes before the row, and no *)
(* two invocations overlap outside the claims.                                 *)

Refunds   == {"refunded", "disputed", "withdrawn"}
Choosing  == {"rclaim", "flip", "restoreRead", "restoreWrite", "storeCancel"}
Restoring == {"restoreRead", "restoreWrite", "storeCancel", "mark"}
Held      == {"flip"} \cup Restoring
In(S)     == \E w \in Workers : worker[w].pc \in S

Calm == faults = 0 /\ early = "no" /\ crossed = "no"

\* Behind a claim there is one invocation.
One(S, c) ==
  /\ \A w \in Workers : worker[w].pc \in S => c \in claims
  /\ \A v, w \in Workers : worker[v].pc \in S /\ worker[w].pc \in S => v = w

\* What Overlap leaves out.
Apart ==
  \A v, w \in Workers :
    /\ worker[v].pc = "pushKeep" => worker[w].pc \notin Choosing
    /\ worker[v].pc = "burnWrite" => worker[w].pc # "restoreWrite"
    /\ worker[v].pc \in Shipping => worker[w].pc \notin Reconciling \cup Terminating

\* Where an invocation may be, by the status of the row; a refund that comes back
\* is in the hands of a reconcile, and nothing is reverted.
Fits(x, status) ==
  /\ x.pc = "create" => status = "none"
  /\ x.pc \in {"burnRead", "burnWrite"} \cup Pushing \cup Reconciling \cup Terminating
       => status # "none"
  /\ x.pc \in Shipping => status \notin Terminal \cup {"none"}
  /\ x.pc \in {"termRefund"} \cup Restoring => status \in Terminal
  /\ x.pc # "termRevert"
  /\ x.ev \in Refunds => x.pc \in {"read"} \cup Reconciling

Placed ==
  /\ order.status = "none" => order.restored = "no" /\ store = "none"
  /\ order.restored = "yes" => order.status \in Terminal
  /\ \A w \in Workers : Fits(worker[w], order.status)

\* What the holder of the reconcile claim read of the row still holds where it counts.
Knows(x, row, held) ==
  /\ x.pc \in {"rclaim", "flip"} /\ x.saw.status \in Terminal => row.status \in Terminal
  /\ (x.pc = "rclaim" /\ "reconcile" \notin held) \/ x.pc \in Held
       => x.saw.restored = row.restored
  /\ x.pc \in Restoring => x.saw.restored = "no"

Fresh == \A w \in Workers : Knows(worker[w], order, claims)

\* A closed order whose stock is not back, a held claim and a refund each have an
\* invocation or an event that will see to them.
Owed ==
  /\ "reconcile" \in claims => order.restored = "yes" \/ In(Held)
  /\ order.status \in Terminal /\ order.restored = "no" =>
       \/ In({"termRefund"} \cup Held)
       \/ \E w \in Workers : worker[w].pc \in {"read", "rclaim"} /\ worker[w].force = "yes"
  /\ charge = "returned" => \/ order.status \in Terminal \/ inbox \cap Refunds # {}
                            \/ In(Held)

\* Orders Left is one less once the unit is burned and one more once it is restored.
Stocked ==
  /\ left + (IF order.status # "none" /\ ~In({"burnRead", "burnWrite"}) THEN 1 ELSE 0)
       = Stock + (IF order.restored = "yes" \/ In({"storeCancel", "mark"}) THEN 1 ELSE 0)
  /\ \A w \in Workers : worker[w].pc \in {"burnWrite", "restoreWrite"} => worker[w].left = left

\* A live store order is in the hands of the push, or known to whoever may cancel it.
Stopped ==
  /\ order.push = "cancelled" =>
       order.restored = "yes" \/ In({"mark"}) \/ store \in {"cancelled", "sent"}
  /\ store = "live" /\ ~In({"pushVerify", "pushUnship"}) =>
       /\ order.restored = "no" /\ ~In({"mark"})
       /\ order.ext = "yes" \/ In({"pushKeep"})
       /\ \A w \in Workers : worker[w].pc \in Choosing =>
            worker[w].saw.ext = "yes" /\ worker[w].saw.push # "cancelled"

Claimed == One(Settling, "settle") /\ One(Held, "reconcile")
Kept    == Claimed /\ Apart /\ Placed /\ Fresh /\ Owed /\ Stocked /\ Stopped
Inv     == TypeOK /\ (Calm => Kept)

LEMMA InitKept == Init => Kept
<1> SUFFICES ASSUME Init PROVE Kept
  OBVIOUS
<1>1. /\ order.status = "none" /\ order.restored = "no" /\ order.push = "" /\ store = "none"
      /\ \A w \in Workers : worker[w].pc = "idle" /\ worker[w].ev = None
      /\ left = Stock /\ charge = "none" /\ claims = {}
  BY DEF Init, Absent, Idle
<1>2. Claimed /\ Apart /\ Fresh
  BY <1>1 DEF Claimed, One, Apart, Fresh, Knows, Settling, Restoring, Held, Choosing, Shipping
<1>3. Placed
  BY <1>1, ProductOrderAssumption
  DEF Placed, Fits, Restoring, Shipping, Pushing, Reconciling, Terminating, Refunds, Terminal
<1>4. Owed /\ Stopped
  BY <1>1 DEF Owed, Stopped, In, Held, Terminal
<1>5. Stocked
  BY <1>1, ProductOrderAssumption DEF Stocked, In
<1> QED
  BY <1>2, <1>3, <1>4, <1>5 DEF Kept

LEMMA NoFault == ASSUME TypeOK, Fault PROVE faults' # 0
  BY DEF TypeOK, Fault

\* An invocation that takes a step, and what it keeps of its job.
Moved(w, p) ==
  /\ worker'[w].pc = p /\ \A v \in Workers \ {w} : worker'[v] = worker[v]
  /\ crossed = "no" /\ Apart'
Same(w) ==
  /\ worker'[w].ev = worker[w].ev /\ worker'[w].saw = worker[w].saw
  /\ worker'[w].left = worker[w].left /\ worker'[w].force = worker[w].force

LEMMA PutMoves ==
  ASSUME TypeOK, NEW w \in Workers, NEW x, Put(w, x), crossed' = "no"
  PROVE  Moved(w, x.pc) /\ worker'[w] = x
  BY DEF Put, Overlap, Apart, Choosing, TypeOK, Moved

LEMMA GoMoves ==
  ASSUME TypeOK, NEW w \in Workers, NEW p, Go(w, p), crossed' = "no"
  PROVE  Moved(w, p) /\ Same(w)
<1> DEFINE x == [worker[w] EXCEPT !.pc = p]
<1>1. /\ x.pc = p /\ x.ev = worker[w].ev /\ x.saw = worker[w].saw
      /\ x.left = worker[w].left /\ x.force = worker[w].force
  BY DEF TypeOK
<1>2. Put(w, x)
  BY DEF Go
<1> HIDE DEF x
<1> QED
  BY <1>1, <1>2, PutMoves DEF Same

LEMMA ReturnMoves ==
  ASSUME TypeOK, NEW w \in Workers, Return(w), crossed' = "no"
  PROVE  Moved(w, "idle") /\ worker'[w].ev = None /\ inbox' = inbox \ {worker[w].ev}
  BY PutMoves DEF Return, Idle

LEMMA BeginMoves ==
  ASSUME TypeOK, NEW w \in Workers, NEW p, NEW e, Begin(w, p, e), crossed' = "no"
  PROVE  Moved(w, p) /\ worker'[w].ev = e /\ worker[w].pc = "idle"
<1> DEFINE x == [Idle EXCEPT !.pc = p, !.ev = e]
<1>1. x.pc = p /\ x.ev = e
  BY DEF Idle
<1>2. Put(w, x)
  BY DEF Begin
<1> HIDE DEF x
<1> QED
  BY <1>1, <1>2, PutMoves DEF Begin, At

LEMMA ClaimMoves ==
  ASSUME TypeOK, NEW w \in Workers, NEW p, NEW c, NEW q, Claim(w, p, c, q), crossed' = "no"
  PROVE  /\ worker[w].pc = p /\ UNCHANGED <<charge, order, left, store>>
         /\ \/ /\ c \in claims /\ claims' = claims /\ Moved(w, "idle") /\ worker'[w].ev = None
               /\ inbox' = inbox \ {worker[w].ev}
            \/ /\ c \notin claims /\ claims' = claims \cup {c} /\ Moved(w, q) /\ Same(w)
               /\ inbox' = inbox
  BY GoMoves, ReturnMoves DEF Claim, At

-----------------------------------------------------------------------------
(* What a step of one invocation leaves of each part, if it moves between      *)
(* places the part does not speak of.                                          *)

\* A claim is held by the one that took it, or by the one that had it.
LEMMA ClaimedKept ==
  ASSUME Claimed, NEW w \in Workers, NEW p, Moved(w, p), claims \subseteq claims',
         p \in Settling =>
           worker[w].pc \in Settling \/ ("settle" \notin claims /\ "settle" \in claims'),
         p \in Held =>
           worker[w].pc \in Held \/ ("reconcile" \notin claims /\ "reconcile" \in claims')
  PROVE  Claimed'
<1>1. One(Settling, "settle")'
  BY DEF Claimed, One, Moved
<1>2. One(Held, "reconcile")'
  BY DEF Claimed, One, Moved
<1> QED
  BY <1>1, <1>2 DEF Claimed

\* The row is as it was, or the others fit it still.
LEMMA PlacedKept ==
  ASSUME Placed, NEW w \in Workers, NEW p, Moved(w, p), Fits(worker'[w], order'.status),
         order'.status # order.status =>
           \A v \in Workers \ {w} : Fits(worker[v], order'.status),
         order'.status = "none" => order'.restored = "no" /\ store' = "none",
         order'.restored = "yes" => order'.status \in Terminal
  PROVE  Placed'
<1>1. \A v \in Workers : Fits(worker'[v], order'.status)
  BY DEF Placed, Moved
<1> QED
  BY <1>1 DEF Placed

LEMMA FreshKept ==
  ASSUME Fresh, NEW w \in Workers, NEW p, Moved(w, p), Knows(worker'[w], order', claims'),
         order.status \in Terminal => order'.status \in Terminal,
         order'.restored = order.restored, "reconcile" \in claims => "reconcile" \in claims'
  PROVE  Fresh'
<1>1. \A v \in Workers \ {w} : Knows(worker'[v], order', claims')
  BY DEF Fresh, Knows, Moved
<1> QED
  BY <1>1 DEF Fresh

LEMMA OwedKept ==
  ASSUME Owed, NEW w \in Workers, NEW p, Moved(w, p),
         worker[w].pc \notin {"termRefund", "read", "rclaim"} \cup Held, charge' = charge,
         order'.status \in Terminal <=> order.status \in Terminal,
         order'.restored = order.restored,
         "reconcile" \in claims' => "reconcile" \in claims,
         inbox \cap Refunds \subseteq inbox'
  PROVE  Owed'
<1>1. (In(Held) => In(Held)') /\ (In({"termRefund"} \cup Held) => In({"termRefund"} \cup Held)')
  BY DEF In, Moved
<1>2. (\E v \in Workers : worker[v].pc \in {"read", "rclaim"} /\ worker[v].force = "yes") =>
         \E v \in Workers : worker'[v].pc \in {"read", "rclaim"} /\ worker'[v].force = "yes"
  BY DEF Moved
<1> QED
  BY <1>1, <1>2 DEF Owed

LEMMA StockedKept ==
  ASSUME Stocked, NEW w \in Workers, NEW p, Moved(w, p),
         {p, worker[w].pc} \cap {"burnRead", "burnWrite", "restoreWrite", "storeCancel", "mark"} = {},
         left' = left, order'.status = "none" <=> order.status = "none",
         order'.restored = order.restored
  PROVE  Stocked'
<1>1. /\ In({"burnRead", "burnWrite"}) <=> In({"burnRead", "burnWrite"})'
      /\ In({"storeCancel", "mark"}) <=> In({"storeCancel", "mark"})'
  BY DEF In, Moved
<1>2. \A v \in Workers :
        worker'[v].pc \in {"burnWrite", "restoreWrite"} => worker'[v].left = left
  BY DEF Stocked, Moved
<1> QED
  BY <1>1, <1>2 DEF Stocked

LEMMA StoppedKept ==
  ASSUME Stopped, NEW w \in Workers, NEW p, Moved(w, p),
         {p, worker[w].pc} \cap ({"pushVerify", "pushUnship", "pushKeep", "mark"} \cup Choosing) = {},
         order'.push = "cancelled" => order.push = "cancelled",
         order'.restored = order.restored, order'.ext = order.ext,
         store' = store \/ store' = "sent"
  PROVE  Stopped'
<1>1. /\ In({"pushVerify", "pushUnship"}) <=> In({"pushVerify", "pushUnship"})'
      /\ In({"mark"}) <=> In({"mark"})'
      /\ In({"pushKeep"}) <=> In({"pushKeep"})'
  BY DEF In, Moved
<1>2. \A v \in Workers : worker'[v].pc \in Choosing => worker'[v] = worker[v]
  BY DEF Moved
<1> QED
  BY <1>1, <1>2 DEF Stopped

\* The places of which no part but those of the push and of the claims speaks.
Plain == {"idle", "settle", "termClaim", "termFlip"} \cup Shipping \cup Pushing

\* A step between such places that leaves the status, the stock and the charge alone.
LEMMA PlainKept ==
  ASSUME Kept, NEW w \in Workers, NEW p \in Plain \cup {"read"}, Moved(w, p),
         worker[w].pc \in Plain \cup {"find"}, Fits(worker'[w], order.status),
         order'.status = order.status, order'.restored = order.restored,
         UNCHANGED <<charge, left>>, order.status = "none" => store' = "none",
         claims \subseteq claims', "reconcile" \in claims' => "reconcile" \in claims,
         inbox \cap Refunds \subseteq inbox'
  PROVE  Apart' /\ Claimed' /\ Placed' /\ Fresh' /\ Owed' /\ Stocked'
<1>1. /\ worker'[w].pc = p /\ p \notin Settling \cup Held \cup {"rclaim"}
      /\ worker[w].pc \notin {"termRefund", "read", "rclaim"} \cup Held
      /\ {p, worker[w].pc} \cap
           {"burnRead", "burnWrite", "restoreWrite", "storeCancel", "mark"} = {}
  BY DEF Moved, Plain, Shipping, Pushing, Settling, Held, Restoring
<1>2. Knows(worker'[w], order', claims')
  BY <1>1 DEF Knows, Held
<1>3. Claimed' /\ Fresh'
  BY <1>1, <1>2, ClaimedKept, FreshKept DEF Kept
<1>4. Placed'
  BY PlacedKept DEF Kept, Placed
<1>5. Owed' /\ Stocked'
  BY <1>1, OwedKept, StockedKept DEF Kept
<1> QED
  BY <1>3, <1>4, <1>5 DEF Moved

\* An invocation on its way through such places, or back from them, fits.
LEMMA PlainFits ==
  ASSUME Placed, NEW w \in Workers, NEW p, Moved(w, p), p \in {"idle", "settle", "find"} \cup Pushing,
         worker[w].pc \in Plain \cup Settling,
         worker'[w].ev = IF p = "idle" THEN None ELSE worker[w].ev,
         p \in Pushing => order.status # "none"
  PROVE  /\ Fits(worker'[w], order.status)
         /\ worker[w].ev \notin Refunds
<1>1. worker'[w].pc = p
  BY DEF Moved
<1>2. worker[w].ev \notin Refunds
  BY DEF Placed, Fits, Plain, Shipping, Pushing, Settling, Reconciling
<1> QED
  BY <1>1, <1>2, ProductOrderAssumption
  DEF Fits, Pushing, Reconciling, Terminating, Shipping, Restoring, Refunds

-----------------------------------------------------------------------------
(* Step by step. *)

LEMMA SettleKept ==
  ASSUME TypeOK, Kept, NEW w \in Workers, Settle(w), Calm'
  PROVE  Kept'
<1>0. ~Fault /\ crossed' = "no"
  BY NoFault DEF Calm
<1>k. Claimed /\ Apart /\ Placed /\ Fresh /\ Owed /\ Stocked /\ Stopped
  BY DEF Kept
<1>m. \A p : Moved(w, p) => Apart' /\ worker'[w].pc = p
  BY DEF Moved
<1>1. CASE ClaimSettle(w)
  <2>0. /\ worker[w].pc = "settle" /\ UNCHANGED <<charge, order, left, store>>
        /\ \/ /\ claims' = claims /\ Moved(w, "idle") /\ worker'[w].ev = None
              /\ inbox' = inbox \ {worker[w].ev}
           \/ /\ "settle" \notin claims /\ claims' = claims \cup {"settle"}
              /\ Moved(w, "find") /\ Same(w) /\ inbox' = inbox
    BY <1>0, <1>1, ClaimMoves DEF ClaimSettle
  <2>1. PICK p \in {"idle", "find"} : Moved(w, p)
    BY <2>0
  <2>2. Fits(worker'[w], order.status) /\ worker[w].ev \notin Refunds
    <3>1. worker[w].pc \in Plain \cup Settling /\ "find" \notin Pushing /\ "idle" \notin Pushing
      BY <2>0 DEF Plain, Pushing
    <3>2. CASE Moved(w, "idle") /\ worker'[w].ev = None
      BY <1>k, <3>1, <3>2, PlainFits
    <3>3. CASE Moved(w, "find") /\ Same(w)
      BY <1>k, <3>1, <3>3, PlainFits DEF Same
    <3> QED
      BY <2>0, <3>2, <3>3
  <2>3. Claimed'
    BY <1>k, <2>0, ClaimedKept DEF Settling, Held, Restoring
  <2>4. Placed'
    BY <1>k, <2>0, <2>1, <2>2, PlacedKept DEF Placed
  <2>5. Fresh'
    BY <1>k, <1>m, <2>0, <2>1, FreshKept DEF Knows, Held, Restoring
  <2>6. Owed'
    BY <1>k, <2>0, <2>1, <2>2, OwedKept DEF Held, Restoring
  <2>7. Stocked' /\ Stopped'
    BY <1>k, <2>0, <2>1, StockedKept, StoppedKept DEF Choosing
  <2> QED
    BY <1>m, <2>1, <2>3, <2>4, <2>5, <2>6, <2>7 DEF Kept
<1>2. CASE Find(w)
  <2>0. /\ worker[w].pc = "find" /\ UNCHANGED <<charge, order, left, store, claims>>
        /\ \/ /\ order.status = "none" /\ Moved(w, "create") /\ Same(w) /\ inbox' = inbox
           \/ Moved(w, "idle") /\ worker'[w].ev = None /\ inbox' = inbox \ {worker[w].ev}
    BY <1>0, <1>2, GoMoves, ReturnMoves DEF Find, At
  <2>1. CASE Moved(w, "idle") /\ worker'[w].ev = None /\ inbox' = inbox \ {worker[w].ev}
    <3>1. Fits(worker'[w], order.status) /\ worker[w].ev \notin Refunds
      BY <1>k, <2>0, <2>1, PlainFits DEF Settling, Pushing, Plain
    <3>2. Apart' /\ Claimed' /\ Placed' /\ Fresh' /\ Owed' /\ Stocked'
      BY <2>0, <2>1, <3>1, PlainKept, <1>k DEF Plain, Placed
    <3>3. Stopped'
      BY <1>k, <2>0, <2>1, StoppedKept DEF Choosing
    <3> QED
      BY <3>2, <3>3 DEF Kept
  <2>2. CASE order.status = "none" /\ Moved(w, "create") /\ Same(w) /\ inbox' = inbox
    <3>1. Fits(worker'[w], order.status)
      BY <1>k, <1>m, <2>0, <2>2
      DEF Placed, Fits, Same, Refunds, Pushing, Reconciling, Terminating, Shipping, Restoring
    <3>2. Claimed'
      BY <1>k, <2>0, <2>2, ClaimedKept DEF Settling, Held, Restoring
    <3>3. Placed'
      BY <1>k, <2>0, <2>2, <3>1, PlacedKept DEF Placed
    <3>4. Fresh'
      BY <1>k, <1>m, <2>0, <2>2, FreshKept DEF Knows, Held, Restoring
    <3>5. Owed'
      BY <1>k, <2>0, <2>2, OwedKept DEF Held, Restoring
    <3>6. Stocked' /\ Stopped'
      BY <1>k, <2>0, <2>2, StockedKept, StoppedKept DEF Choosing
    <3> QED
      BY <1>m, <2>2, <3>2, <3>3, <3>4, <3>5, <3>6 DEF Kept
  <2> QED
    BY <2>0, <2>1, <2>2
<1>3. CASE Create(w)
  <2>0. /\ worker[w].pc = "create" /\ UNCHANGED <<charge, left, store, claims, inbox>>
        /\ Moved(w, "burnRead") /\ Same(w)
        /\ order'.status = "New" /\ order'.restored = "no" /\ order'.push = ""
    BY <1>0, <1>3, GoMoves DEF Create, At, stripe, Absent
  <2>1. order.status = "none" /\ order.restored = "no" /\ store = "none"
    BY <1>k, <2>0 DEF Placed, Fits
  <2>2. \A v \in Workers \ {w} :
          /\ worker[v].pc \notin {"create", "burnRead", "burnWrite"}
          /\ worker[v].pc \notin Reconciling \cup Terminating \cup Shipping \cup Pushing
    BY <1>k, <2>0, <2>1 DEF Claimed, One, Settling, Placed, Fits
  <2>3. Claimed'
    BY <1>k, <2>0, ClaimedKept DEF Settling, Held, Restoring
  <2>4. Fits(worker'[w], "New")
    <3>1. worker'[w].pc = "burnRead" /\ worker'[w].ev \notin Refunds
      BY <1>k, <1>m, <2>0 DEF Placed, Fits, Same, Reconciling
    <3> QED
      BY <3>1 DEF Fits, Shipping, Restoring
  <2>5. \A v \in Workers \ {w} : Fits(worker[v], "New")
    BY <1>k, <2>2 DEF Placed, Fits, Terminating, Restoring, Reconciling
  <2>6. Placed'
    BY <1>k, <2>0, <2>4, <2>5, PlacedKept
  <2>7. Fresh'
    <3>0. worker'[w].pc = "burnRead"
      BY <1>m, <2>0
    <3>1. Knows(worker'[w], order', claims')
      BY <3>0 DEF Knows, Held, Restoring
    <3>2. order.status \notin Terminal
      BY <2>1 DEF Terminal
    <3> QED
      BY <1>k, <2>0, <2>1, <3>1, <3>2, FreshKept
  <2>8. Owed'
    BY <1>k, <2>0, <2>1, OwedKept DEF Held, Restoring, Terminal
  <2>9. Stocked'
    <3>1. ~In({"burnRead", "burnWrite"}) /\ In({"burnRead", "burnWrite"})'
      BY <1>m, <2>0, <2>2 DEF In
    <3>2. ~In({"storeCancel", "mark"}) /\ ~In({"storeCancel", "mark"})'
      BY <2>0, <2>2 DEF In, Moved, Reconciling
    <3>3. \A v \in Workers : worker'[v].pc \notin {"burnWrite", "restoreWrite"}
      BY <2>0, <2>2 DEF Moved, Reconciling
    <3> QED
      BY <1>k, <2>0, <2>1, <3>1, <3>2, <3>3 DEF Stocked
  <2>10. Stopped'
    BY <2>0, <2>1 DEF Stopped
  <2> QED
    BY <1>m, <2>0, <2>3, <2>6, <2>7, <2>8, <2>9, <2>10 DEF Kept
<1>4. CASE BurnRead(w)
  <2> DEFINE x == [worker[w] EXCEPT !.pc = "burnWrite", !.left = left]
  <2>0. x.pc = "burnWrite" /\ x.left = left /\ x.ev = worker[w].ev
    BY DEF TypeOK
  <2>1. Put(w, x) /\ worker[w].pc = "burnRead" /\ UNCHANGED <<stripe, order, left, store, claims>>
    BY <1>0, <1>4 DEF BurnRead, At
  <2> HIDE DEF x
  <2>2. /\ Moved(w, "burnWrite") /\ worker'[w].left = left /\ worker'[w].ev = worker[w].ev
        /\ UNCHANGED <<charge, inbox>>
    BY <1>0, <2>0, <2>1, PutMoves DEF stripe
  <2>3. Fits(worker'[w], order.status)
    BY <1>k, <1>m, <2>1, <2>2
    DEF Placed, Fits, Pushing, Reconciling, Terminating, Shipping, Restoring
  <2>4. Claimed'
    BY <1>k, <2>1, <2>2, ClaimedKept DEF Settling, Held, Restoring
  <2>5. Placed'
    BY <1>k, <2>1, <2>2, <2>3, PlacedKept DEF Placed
  <2>6. Fresh'
    BY <1>k, <1>m, <2>1, <2>2, FreshKept DEF Knows, Held, Restoring
  <2>7. Owed'
    BY <1>k, <2>1, <2>2, OwedKept DEF Held, Restoring
  <2>8. Stocked'
    <3>1. In({"burnRead", "burnWrite"}) /\ In({"burnRead", "burnWrite"})'
      BY <1>m, <2>1, <2>2 DEF In
    <3>2. In({"storeCancel", "mark"}) <=> In({"storeCancel", "mark"})'
      BY <2>1, <2>2 DEF In, Moved
    <3>3. \A v \in Workers :
            worker'[v].pc \in {"burnWrite", "restoreWrite"} => worker'[v].left = left
      BY <1>k, <2>2 DEF Moved, Stocked
    <3> QED
      BY <1>k, <2>1, <3>1, <3>2, <3>3 DEF Stocked
  <2>9. Stopped'
    BY <1>k, <2>1, <2>2, StoppedKept DEF Choosing
  <2> QED
    BY <1>m, <2>2, <2>4, <2>5, <2>6, <2>7, <2>8, <2>9 DEF Kept
<1>5. CASE BurnWrite(w)
  <2>0. /\ worker[w].pc = "burnWrite" /\ UNCHANGED <<charge, inbox, order, store, claims>>
        /\ Moved(w, "pushRead") /\ Same(w)
        /\ left' = IF worker[w].left = 0 THEN 0 ELSE worker[w].left - 1
    BY <1>0, <1>5, GoMoves DEF BurnWrite, At, stripe
  <2>1. Fits(worker[w], order.status) /\ order.status # "none"
    BY <1>k, <2>0 DEF Placed, Fits
  <2>2. Fits(worker'[w], order.status)
    BY <1>m, <2>0, <2>1
    DEF Fits, Same, Pushing, Reconciling, Terminating, Shipping, Restoring
  <2>3. Claimed'
    BY <1>k, <2>0, ClaimedKept DEF Settling, Held, Restoring
  <2>4. Placed'
    BY <1>k, <2>0, <2>2, PlacedKept DEF Placed
  <2>5. Fresh'
    BY <1>k, <1>m, <2>0, FreshKept DEF Knows, Held, Restoring
  <2>6. Owed'
    BY <1>k, <2>0, OwedKept DEF Held, Restoring
  <2>7. Stocked'
    <3>1. \A v \in Workers \ {w} :
            worker[v].pc \notin {"burnRead", "burnWrite", "restoreWrite"}
      BY <1>k, <2>0 DEF Claimed, One, Settling, Apart
    <3>2. In({"burnRead", "burnWrite"}) /\ ~In({"burnRead", "burnWrite"})'
      BY <1>m, <2>0, <3>1 DEF In, Moved
    <3>3. In({"storeCancel", "mark"}) <=> In({"storeCancel", "mark"})'
      BY <2>0 DEF In, Moved
    <3>4. \A v \in Workers : worker'[v].pc \notin {"burnWrite", "restoreWrite"}
      BY <2>0, <3>1 DEF Moved
    <3>5. worker[w].left = left /\ left \in Nat /\ Stock \in Nat \ {0}
      BY <1>k, <2>0, ProductOrderAssumption DEF Stocked, TypeOK
    <3> QED
      BY <1>k, <2>0, <2>1, <3>2, <3>3, <3>4, <3>5 DEF Stocked
  <2>8. Stopped'
    BY <1>k, <2>0, StoppedKept DEF Choosing
  <2> QED
    BY <1>m, <2>0, <2>3, <2>4, <2>5, <2>6, <2>7, <2>8 DEF Kept
<1> QED
  BY <1>1, <1>2, <1>3, <1>4, <1>5 DEF Settle

LEMMA CancelStops ==
  ASSUME TypeOK, NEW e, CancelOrder(e), ~Fault
  PROVE  /\ store' # "live" /\ (store' = "none" <=> store = "none")
         /\ order'.status = order.status /\ order'.restored = order.restored
         /\ order'.push = "cancelled" => store' = "cancelled"
<1>1. PICK ok \in {store = "live", FALSE} :
        /\ store' = IF ok THEN "cancelled" ELSE store
        /\ order' = [order EXCEPT !.ext = e, !.push = IF ok THEN "cancelled" ELSE "cancel-failed"]
        /\ IF ok \/ store # "live" THEN UNCHANGED faults ELSE Fault
  BY DEF CancelOrder
<1>2. order'.status = order.status /\ order'.restored = order.restored
  BY <1>1 DEF TypeOK, Row
<1>3. order'.push = IF ok THEN "cancelled" ELSE "cancel-failed"
  BY <1>1 DEF TypeOK, Row
<1>4. CASE ok
  BY <1>1, <1>2, <1>3, <1>4
<1>5. CASE ~ok
  <2>1. store # "live"
    BY <1>1, <1>5
  <2>2. store' = store /\ order'.push = "cancel-failed"
    BY <1>1, <1>3, <1>5
  <2> QED
    BY <1>2, <2>1, <2>2
<1> QED
  BY <1>4, <1>5

\* A step of the push leaves all parts but Stopped as they are.
LEMMA PushPlain ==
  ASSUME Kept, NEW w \in Workers, NEW p, Moved(w, p), p \in {"idle"} \cup Pushing,
         worker[w].pc \in Pushing, UNCHANGED <<charge, left, claims>>,
         worker'[w].ev = IF p = "idle" THEN None ELSE worker[w].ev,
         order'.status = order.status, order'.restored = order.restored,
         inbox' = IF p = "idle" THEN inbox \ {worker[w].ev} ELSE inbox
  PROVE  Apart' /\ Claimed' /\ Placed' /\ Fresh' /\ Owed' /\ Stocked'
<1>1. Placed /\ order.status # "none"
  BY DEF Kept, Placed, Fits
<1>2. Fits(worker'[w], order.status) /\ worker[w].ev \notin Refunds
  BY <1>1, PlainFits DEF Plain
<1>3. inbox \cap Refunds \subseteq inbox'
  BY <1>2
<1>4. worker[w].pc \in Plain \cup {"find"} /\ p \in Plain \cup {"read"}
  BY DEF Plain
<1> QED
  BY <1>1, <1>2, <1>3, <1>4, PlainKept

LEMMA PushKept ==
  ASSUME TypeOK, Kept, NEW w \in Workers, Push(w), Calm'
  PROVE  Kept'
<1>0. ~Fault /\ crossed' = "no"
  BY NoFault DEF Calm
<1>k. Placed /\ Apart /\ Stopped
  BY DEF Kept
<1>r. ASSUME Return(w), claims' = claims
      PROVE  /\ Moved(w, "idle") /\ worker'[w].ev = None /\ inbox' = inbox \ {worker[w].ev}
  BY <1>0, <1>r, ReturnMoves
<1>g. ASSUME NEW p, Go(w, p) PROVE Moved(w, p) /\ worker'[w].ev = worker[w].ev
  BY <1>0, <1>g, GoMoves DEF Same
<1>1. CASE PushRead(w)
  <2>0. /\ worker[w].pc = "pushRead" /\ UNCHANGED <<charge, order, left, store, claims>>
        /\ \/ Return(w)
           \/ (Go(w, "pushSkip") \/ Go(w, "pushStamp")) /\ inbox' = inbox
    BY <1>0, <1>1 DEF PushRead, At
  <2>1. PICK p \in {"idle", "pushSkip", "pushStamp"} :
          /\ Moved(w, p) /\ worker'[w].ev = (IF p = "idle" THEN None ELSE worker[w].ev)
          /\ inbox' = IF p = "idle" THEN inbox \ {worker[w].ev} ELSE inbox
    BY <1>r, <1>g, <2>0
  <2>2. Apart' /\ Claimed' /\ Placed' /\ Fresh' /\ Owed' /\ Stocked'
    BY <2>0, <2>1, PushPlain DEF Pushing
  <2>3. Stopped'
    BY <1>k, <2>0, <2>1, StoppedKept DEF Choosing
  <2> QED
    BY <2>2, <2>3 DEF Kept
<1>2. CASE PushSkip(w)
  <2>0. /\ worker[w].pc = "pushSkip" /\ UNCHANGED <<charge, left, store, claims>>
        /\ order'.status = order.status /\ order'.restored = order.restored
        /\ order'.ext = order.ext /\ order'.push = "skipped"
    BY <1>0, <1>2 DEF PushSkip, Stamp, At, TypeOK, Row
  <2>1. Moved(w, "idle") /\ worker'[w].ev = None /\ inbox' = inbox \ {worker[w].ev}
    BY <1>r, <1>2 DEF PushSkip
  <2>2. Apart' /\ Claimed' /\ Placed' /\ Fresh' /\ Owed' /\ Stocked'
    BY <2>0, <2>1, PushPlain DEF Pushing
  <2>3. Stopped'
    BY <1>k, <2>0, <2>1, StoppedKept DEF Choosing
  <2> QED
    BY <2>2, <2>3 DEF Kept
<1>3. CASE PushStamp(w)
  <2>0. /\ worker[w].pc = "pushStamp" /\ UNCHANGED <<charge, inbox, left, store, claims>>
        /\ order'.status = order.status /\ order'.restored = order.restored
        /\ order'.ext = order.ext /\ order'.push = "pushing"
    BY <1>0, <1>3 DEF PushStamp, At, stripe, TypeOK, Row
  <2>1. Moved(w, "pushCall") /\ worker'[w].ev = worker[w].ev
    BY <1>0, <1>g, <1>3 DEF PushStamp
  <2>2. Apart' /\ Claimed' /\ Placed' /\ Fresh' /\ Owed' /\ Stocked'
    BY <2>0, <2>1, PushPlain DEF Pushing
  <2>3. Stopped'
    BY <1>k, <2>0, <2>1, StoppedKept DEF Choosing
  <2> QED
    BY <2>2, <2>3 DEF Kept
<1>4. CASE PushCall(w)
  <2>0. /\ worker[w].pc \in {"pushCall", "pushBare"}
        /\ UNCHANGED <<charge, inbox, left, order, claims>>
        /\ store' = (IF store = "none" THEN "live" ELSE store) /\ Go(w, "pushVerify")
    BY <1>0, <1>4 DEF PushCall, At
  <2>1. Moved(w, "pushVerify") /\ worker'[w].ev = worker[w].ev
    BY <1>g, <2>0
  <2>2. Apart' /\ Claimed' /\ Placed' /\ Fresh' /\ Owed' /\ Stocked'
    BY <2>0, <2>1, PushPlain DEF Pushing
  <2>3. Stopped'
    <3>1. In({"pushVerify", "pushUnship"})' /\ (In({"mark"}) => In({"mark"})')
      BY <2>0, <2>1 DEF In, Moved
    <3> QED
      BY <1>k, <2>0, <3>1 DEF Stopped
  <2> QED
    BY <2>2, <2>3 DEF Kept
<1>5. CASE PushVerify(w)
  <2>0. /\ worker[w].pc = "pushVerify" /\ UNCHANGED <<charge, inbox, left, order, store, claims>>
        /\ Go(w, IF order.status \in Terminal \/ order.push = "cancelled"
                 THEN "pushUnship" ELSE "pushKeep")
    BY <1>0, <1>5 DEF PushVerify, At
  <2>1. PICK p \in {"pushUnship", "pushKeep"} :
          /\ Moved(w, p) /\ worker'[w].ev = worker[w].ev
          /\ p = "pushKeep" => order.status \notin Terminal /\ order.push # "cancelled"
    BY <1>g, <2>0
  <2>2. Apart' /\ Claimed' /\ Placed' /\ Fresh' /\ Owed' /\ Stocked'
    BY <2>0, <2>1, PushPlain DEF Pushing
  <2>3. Stopped'
    <3>1. worker'[w].pc = p /\ \A v \in Workers \ {w} : worker'[v] = worker[v]
      BY <2>1 DEF Moved
    <3>2. CASE p = "pushUnship"
      <4>1. In({"pushVerify", "pushUnship"})' /\ (In({"mark"}) => In({"mark"})')
        BY <2>0, <3>1, <3>2 DEF In
      <4> QED
        BY <1>k, <2>0, <4>1 DEF Stopped
    <3>3. CASE p = "pushKeep"
      <4>1. order.status \notin Terminal /\ order.push # "cancelled"
        BY <2>1, <3>3
      <4>2. order.restored # "yes" /\ ~In({"mark"})'
        BY <1>k, <3>1, <3>3, <4>1 DEF Placed, Fits, Restoring, In
      <4>3. In({"pushKeep"})' /\ \A v \in Workers : worker'[v].pc \notin Choosing
        BY <2>2, <3>1, <3>3 DEF In, Apart
      <4>4. order.restored \in {"yes", "no"}
        BY DEF TypeOK, Row
      <4> QED
        BY <2>0, <4>1, <4>2, <4>3, <4>4 DEF Stopped
    <3> QED
      BY <3>2, <3>3
  <2> QED
    BY <2>2, <2>3 DEF Kept
<1>6. CASE PushKeep(w)
  <2>0. /\ worker[w].pc = "pushKeep" /\ UNCHANGED <<charge, left, store, claims>>
        /\ order'.status = order.status /\ order'.restored = order.restored
        /\ order'.ext = "yes" /\ order'.push = "pushed"
    BY <1>0, <1>6 DEF PushKeep, At, TypeOK, Row
  <2>1. Moved(w, "idle") /\ worker'[w].ev = None /\ inbox' = inbox \ {worker[w].ev}
    BY <1>r, <1>6 DEF PushKeep
  <2>2. Apart' /\ Claimed' /\ Placed' /\ Fresh' /\ Owed' /\ Stocked'
    BY <2>0, <2>1, PushPlain DEF Pushing
  <2>3. Stopped'
    <3>1. /\ In({"pushVerify", "pushUnship"}) => In({"pushVerify", "pushUnship"})'
          /\ In({"mark"})' => In({"mark"})
      BY <2>0, <2>1 DEF In, Moved
    <3>2. \A v \in Workers : worker'[v].pc \notin Choosing
      BY <1>k, <2>0, <2>1 DEF Apart, Moved, Choosing
    <3> QED
      BY <1>k, <2>0, <3>1, <3>2 DEF Stopped
  <2> QED
    BY <2>2, <2>3 DEF Kept
<1>7. CASE PushUnship(w)
  <2>0. /\ worker[w].pc = "pushUnship" /\ UNCHANGED <<charge, left, claims>>
        /\ store' # "live"
        /\ order'.push = "cancelled" => store' = "cancelled"
        /\ order'.status = order.status /\ order'.restored = order.restored
    <3>1. CancelOrder("yes") /\ worker[w].pc = "pushUnship" /\ UNCHANGED <<charge, left, claims>>
      BY <1>0, <1>7 DEF PushUnship, At
    <3> QED
      BY <1>0, <3>1, CancelStops
  <2>1. Moved(w, "idle") /\ worker'[w].ev = None /\ inbox' = inbox \ {worker[w].ev}
    BY <1>r, <1>7 DEF PushUnship
  <2>2. Apart' /\ Claimed' /\ Placed' /\ Fresh' /\ Owed' /\ Stocked'
    BY <2>0, <2>1, PushPlain DEF Pushing
  <2>3. Stopped'
    BY <2>0 DEF Stopped
  <2> QED
    BY <2>2, <2>3 DEF Kept
<1>8. CASE PushRevert(w)
  <2>0. /\ worker[w].pc = "pushRevert" /\ UNCHANGED <<charge, order, left, store, claims>>
        /\ Return(w) \/ (Go(w, "pushBlank") /\ inbox' = inbox)
    BY <1>0, <1>8 DEF PushRevert, At
  <2>1. PICK p \in {"idle", "pushBlank"} :
          /\ Moved(w, p) /\ worker'[w].ev = (IF p = "idle" THEN None ELSE worker[w].ev)
          /\ inbox' = IF p = "idle" THEN inbox \ {worker[w].ev} ELSE inbox
    BY <1>r, <1>g, <2>0
  <2>2. Apart' /\ Claimed' /\ Placed' /\ Fresh' /\ Owed' /\ Stocked'
    BY <2>0, <2>1, PushPlain DEF Pushing
  <2>3. Stopped'
    BY <1>k, <2>0, <2>1, StoppedKept DEF Choosing
  <2> QED
    BY <2>2, <2>3 DEF Kept
<1>9. CASE PushBlank(w)
  <2>0. /\ worker[w].pc = "pushBlank" /\ UNCHANGED <<charge, left, store, claims>>
        /\ order'.status = order.status /\ order'.restored = order.restored
        /\ order'.ext = order.ext /\ order'.push = ""
    BY <1>0, <1>9 DEF PushBlank, Stamp, At, TypeOK, Row
  <2>1. Moved(w, "idle") /\ worker'[w].ev = None /\ inbox' = inbox \ {worker[w].ev}
    BY <1>r, <1>9 DEF PushBlank
  <2>2. Apart' /\ Claimed' /\ Placed' /\ Fresh' /\ Owed' /\ Stocked'
    BY <2>0, <2>1, PushPlain DEF Pushing
  <2>3. Stopped'
    BY <1>k, <2>0, <2>1, StoppedKept DEF Choosing
  <2> QED
    BY <2>2, <2>3 DEF Kept
<1>10. CASE PushGiveUp(w) \/ PushRing(w)
  <2>0. /\ worker[w].pc \in {"pushNoSku", "pushFail", "pushRing"}
        /\ UNCHANGED <<charge, left, store, claims>>
        /\ order'.status = order.status /\ order'.restored = order.restored
        /\ order'.ext = order.ext /\ order'.push \in {order.push, "skipped", "failed"}
        /\ Return(w) \/ (Go(w, "pushRing") /\ inbox' = inbox)
    BY <1>0, <1>10 DEF PushGiveUp, PushRing, Stamp, At, stripe, TypeOK, Row
  <2>1. PICK p \in {"idle", "pushRing"} :
          /\ Moved(w, p) /\ worker'[w].ev = (IF p = "idle" THEN None ELSE worker[w].ev)
          /\ inbox' = IF p = "idle" THEN inbox \ {worker[w].ev} ELSE inbox
    BY <1>r, <1>g, <2>0
  <2>2. Apart' /\ Claimed' /\ Placed' /\ Fresh' /\ Owed' /\ Stocked'
    BY <2>0, <2>1, PushPlain DEF Pushing
  <2>3. Stopped'
    BY <1>k, <2>0, <2>1, StoppedKept DEF Choosing
  <2> QED
    BY <2>2, <2>3 DEF Kept
<1> QED
  BY <1>1, <1>2, <1>3, <1>4, <1>5, <1>6, <1>7, <1>8, <1>9, <1>10 DEF Push

LEMMA ReadKept ==
  ASSUME TypeOK, Kept, NEW w \in Workers, Read(w), Calm'
  PROVE  Kept'
<1>0. crossed' = "no" /\ worker[w].pc = "read" /\ UNCHANGED <<charge, order, left, store, claims>>
  BY DEF Calm, Read, At
<1>k. Claimed /\ Apart /\ Placed /\ Fresh /\ Owed /\ Stocked /\ Stopped
  BY DEF Kept
<1>s. order.status # "none"
  BY DEF Read, Calm
<1>1. CASE order.status \in Terminal /\ worker[w].force = "no" /\ Return(w)
  <2>1. Moved(w, "idle") /\ worker'[w].ev = None /\ inbox' = inbox \ {worker[w].ev}
    BY <1>0, <1>1, ReturnMoves
  <2>2. worker'[w].pc = "idle" /\ Apart' /\ \A v \in Workers \ {w} : worker'[v] = worker[v]
    BY <2>1 DEF Moved
  <2>3. Claimed'
    BY <1>0, <1>k, <2>1, ClaimedKept DEF Settling, Held, Restoring
  <2>4. Placed'
    <3>1. Fits(worker'[w], order.status)
      BY <2>1, <2>2, ProductOrderAssumption
      DEF Fits, Refunds, Pushing, Reconciling, Terminating, Shipping, Restoring
    <3> QED
      BY <1>0, <1>k, <2>1, <3>1, PlacedKept DEF Placed
  <2>5. Fresh'
    BY <1>0, <1>k, <2>1, <2>2, FreshKept DEF Knows, Held, Restoring
  <2>6. Owed'
    <3>1. /\ In(Held) => In(Held)'
          /\ In({"termRefund"} \cup Held) => In({"termRefund"} \cup Held)'
      BY <1>0, <2>2 DEF In, Held, Restoring
    <3>2. (\E v \in Workers : worker[v].pc \in {"read", "rclaim"} /\ worker[v].force = "yes") =>
             \E v \in Workers : worker'[v].pc \in {"read", "rclaim"} /\ worker'[v].force = "yes"
      BY <1>1, <2>2
    <3> QED
      BY <1>0, <1>1, <1>k, <3>1, <3>2 DEF Owed
  <2>7. Stocked' /\ Stopped'
    BY <1>0, <1>k, <2>1, StockedKept, StoppedKept DEF Choosing
  <2> QED
    BY <2>2, <2>3, <2>4, <2>5, <2>6, <2>7 DEF Kept
<1>2. CASE Put(w, [worker[w] EXCEPT !.pc = "rclaim", !.saw = order]) /\ inbox' = inbox
  <2> DEFINE x == [worker[w] EXCEPT !.pc = "rclaim", !.saw = order]
  <2>0. x.pc = "rclaim" /\ x.saw = order /\ x.ev = worker[w].ev /\ x.force = worker[w].force
    BY DEF TypeOK
  <2>a. Put(w, x)
    BY <1>2
  <2> HIDE DEF x
  <2>1. /\ Moved(w, "rclaim") /\ worker'[w].saw = order /\ worker'[w].ev = worker[w].ev
        /\ worker'[w].force = worker[w].force
    BY <1>0, <2>0, <2>a, PutMoves
  <2>2. worker'[w].pc = "rclaim" /\ Apart' /\ \A v \in Workers \ {w} : worker'[v] = worker[v]
    BY <2>1 DEF Moved
  <2>3. Claimed'
    BY <1>0, <1>k, <2>1, ClaimedKept DEF Settling, Held, Restoring
  <2>4. Placed'
    <3>1. Fits(worker'[w], order.status)
      BY <1>s, <2>1, <2>2 DEF Fits, Reconciling, Shipping, Restoring
    <3> QED
      BY <1>0, <1>k, <2>1, <3>1, PlacedKept DEF Placed
  <2>5. Fresh'
    <3>1. Knows(worker'[w], order, claims)
      BY <2>1, <2>2 DEF Knows, Held, Restoring
    <3> QED
      BY <1>0, <1>k, <2>1, <3>1, FreshKept
  <2>6. Owed'
    <3>1. /\ In(Held) => In(Held)'
          /\ In({"termRefund"} \cup Held) => In({"termRefund"} \cup Held)'
      BY <1>0, <2>2 DEF In, Held, Restoring
    <3>2. (\E v \in Workers : worker[v].pc \in {"read", "rclaim"} /\ worker[v].force = "yes") =>
             \E v \in Workers : worker'[v].pc \in {"read", "rclaim"} /\ worker'[v].force = "yes"
      BY <2>1, <2>2
    <3> QED
      BY <1>0, <1>2, <1>k, <3>1, <3>2 DEF Owed
  <2>7. Stocked'
    BY <1>0, <1>k, <2>1, StockedKept
  <2>8. Stopped'
    <3>1. /\ In({"pushVerify", "pushUnship"}) <=> In({"pushVerify", "pushUnship"})'
          /\ In({"mark"}) <=> In({"mark"})'
          /\ In({"pushKeep"}) <=> In({"pushKeep"})'
      BY <1>0, <2>2 DEF In
    <3>2. ~In({"pushKeep"})'
      BY <2>2 DEF In, Apart, Choosing
    <3>3. \A v \in Workers \ {w} : worker'[v].pc \in Choosing => worker'[v] = worker[v]
      BY <2>2
    <3> QED
      BY <1>0, <1>k, <2>1, <3>1, <3>2, <3>3 DEF Stopped
  <2> QED
    BY <2>2, <2>3, <2>4, <2>5, <2>6, <2>7, <2>8 DEF Kept
<1> QED
  BY <1>s, <1>1, <1>2 DEF Read, TypeOK

LEMMA ClaimReconcileKept ==
  ASSUME TypeOK, Kept, NEW w \in Workers, ClaimReconcile(w), Calm'
  PROVE  Kept'
<1>k. Claimed /\ Apart /\ Placed /\ Fresh /\ Owed /\ Stocked /\ Stopped
  BY DEF Kept
<1>0. /\ worker[w].pc = "rclaim" /\ UNCHANGED <<charge, order, left, store>>
      /\ \/ /\ "reconcile" \in claims /\ claims' = claims /\ Moved(w, "idle")
            /\ worker'[w].ev = None /\ inbox' = inbox \ {worker[w].ev}
         \/ /\ "reconcile" \notin claims /\ claims' = claims \cup {"reconcile"}
            /\ Moved(w, "flip") /\ Same(w) /\ inbox' = inbox
  BY ClaimMoves DEF ClaimReconcile, Calm
<1>1. CASE /\ "reconcile" \in claims /\ claims' = claims /\ Moved(w, "idle")
           /\ worker'[w].ev = None /\ inbox' = inbox \ {worker[w].ev}
  <2>2. worker'[w].pc = "idle" /\ Apart' /\ \A v \in Workers \ {w} : worker'[v] = worker[v]
    BY <1>1 DEF Moved
  <2>3. Claimed'
    BY <1>0, <1>1, <1>k, ClaimedKept DEF Settling, Held, Restoring
  <2>4. Placed'
    <3>1. Fits(worker'[w], order.status)
      BY <1>1, <2>2, ProductOrderAssumption
      DEF Fits, Refunds, Pushing, Reconciling, Terminating, Shipping, Restoring
    <3> QED
      BY <1>0, <1>1, <1>k, <3>1, PlacedKept DEF Placed
  <2>5. Fresh'
    BY <1>0, <1>1, <1>k, <2>2, FreshKept DEF Knows, Held, Restoring
  <2>6. Owed'
    <3>1. In(Held) => In(Held)' /\ In({"termRefund"} \cup Held)'
      BY <1>0, <2>2 DEF In, Held, Restoring
    <3>2. order.restored = "yes" \/ In(Held)
      BY <1>1, <1>k DEF Owed
    <3>3. CASE In(Held)
      BY <1>0, <3>1, <3>3 DEF Owed
    <3>4. CASE order.restored = "yes"
      BY <1>0, <1>k, <3>4 DEF Owed, Placed
    <3> QED
      BY <3>2, <3>3, <3>4
  <2>7. Stocked'
    BY <1>0, <1>1, <1>k, StockedKept
  <2>8. Stopped'
    <3>1. /\ In({"pushVerify", "pushUnship"}) <=> In({"pushVerify", "pushUnship"})'
          /\ In({"mark"}) <=> In({"mark"})'
          /\ In({"pushKeep"}) <=> In({"pushKeep"})'
      BY <1>0, <2>2 DEF In
    <3>2. \A v \in Workers : worker'[v].pc \in Choosing => worker'[v] = worker[v]
      BY <2>2 DEF Choosing
    <3> QED
      BY <1>0, <1>k, <3>1, <3>2 DEF Stopped
  <2> QED
    BY <2>2, <2>3, <2>4, <2>5, <2>6, <2>7, <2>8 DEF Kept
<1>2. CASE /\ "reconcile" \notin claims /\ claims' = claims \cup {"reconcile"}
           /\ Moved(w, "flip") /\ Same(w) /\ inbox' = inbox
  <2>2. worker'[w].pc = "flip" /\ Apart' /\ \A v \in Workers \ {w} : worker'[v] = worker[v]
    BY <1>2 DEF Moved
  <2>3. Claimed'
    BY <1>0, <1>2, <1>k, ClaimedKept DEF Settling
  <2>4. Placed'
    <3>1. Fits(worker[w], order.status)
      BY <1>k DEF Placed
    <3>2. Fits(worker'[w], order.status)
      BY <1>0, <1>2, <2>2, <3>1 DEF Fits, Same, Reconciling, Shipping, Restoring
    <3> QED
      BY <1>0, <1>2, <1>k, <3>2, PlacedKept DEF Placed
  <2>5. Fresh'
    <3>1. Knows(worker[w], order, claims)
      BY <1>k DEF Fresh
    <3>2. Knows(worker'[w], order, claims')
      BY <1>0, <1>2, <2>2, <3>1 DEF Knows, Same, Restoring
    <3> QED
      BY <1>0, <1>2, <1>k, <3>2, FreshKept
  <2>6. Owed'
    <3>1. In(Held)' /\ In({"termRefund"} \cup Held)'
      BY <2>2 DEF In, Held
    <3> QED
      BY <3>1 DEF Owed
  <2>7. Stocked'
    BY <1>0, <1>2, <1>k, StockedKept
  <2>8. Stopped'
    <3>1. /\ In({"pushVerify", "pushUnship"}) <=> In({"pushVerify", "pushUnship"})'
          /\ In({"mark"}) <=> In({"mark"})'
          /\ In({"pushKeep"}) <=> In({"pushKeep"})'
      BY <1>0, <2>2 DEF In
    <3>2. \A v \in Workers : worker'[v].pc \in Choosing =>
            worker[v].pc \in Choosing /\ worker'[v].saw = worker[v].saw
      BY <1>0, <1>2, <2>2 DEF Choosing, Same
    <3> QED
      BY <1>0, <1>k, <3>1, <3>2 DEF Stopped
  <2> QED
    BY <2>2, <2>3, <2>4, <2>5, <2>6, <2>7, <2>8 DEF Kept
<1> QED
  BY <1>0, <1>1, <1>2

\* The status is set to a terminal one: none is creating the row, none is shipping.
LEMMA CloseKept ==
  ASSUME Kept, NEW w \in Workers, NEW p, Moved(w, p),
         IF p = "idle" THEN worker'[w].ev = None ELSE Same(w),
         worker[w].pc \in Reconciling \cup Terminating, order'.status \in Terminal,
         order'.restored = order.restored, UNCHANGED claims,
         p \in {"restoreRead", "termRefund", "idle"},
         p = "restoreRead" => worker[w].pc = "flip" /\ worker'[w].saw.restored = "no",
         p = "termRefund" => worker[w].pc = "termFlip"
  PROVE  Apart' /\ Claimed' /\ Placed' /\ Fresh'
<1>k. Claimed /\ Apart /\ Placed /\ Fresh
  BY DEF Kept
<1>1. worker'[w].pc = p /\ Apart'
  BY DEF Moved
<1>2. Fits(worker[w], order.status) /\ Knows(worker[w], order, claims) /\ order.status # "none"
  BY <1>k DEF Placed, Fresh, Fits
<1>3. Claimed'
  BY <1>k, ClaimedKept DEF Settling, Held, Restoring
<1>4. order'.status # "none"
  BY DEF Terminal
<1>5. \A v \in Workers \ {w} : Fits(worker[v], order'.status)
  BY <1>k, <1>2, <1>4 DEF Placed, Fits, Apart
<1>6. Fits(worker'[w], order'.status)
  <2>1. worker'[w].ev \in Refunds => p = "restoreRead"
    BY <1>2, ProductOrderAssumption DEF Fits, Same, Refunds, Reconciling
  <2>2. p \notin Shipping \cup Pushing \cup {"create", "burnRead", "burnWrite", "termRevert"}
    BY DEF Shipping, Pushing
  <2> QED
    BY <1>1, <1>4, <2>1, <2>2 DEF Fits, Reconciling, Restoring
<1>7. Placed'
  BY <1>k, <1>4, <1>5, <1>6, PlacedKept
<1>8. Knows(worker'[w], order', claims')
  BY <1>1, <1>2 DEF Knows, Held, Restoring, Same
<1>9. Fresh'
  BY <1>k, <1>8, FreshKept
<1> QED
  BY <1>1, <1>3, <1>7, <1>9

LEMMA FlipKept ==
  ASSUME TypeOK, Kept, NEW w \in Workers, Flip(w), Calm'
  PROVE  Kept'
<1>k. Placed /\ Fresh /\ Owed /\ Stocked /\ Stopped
  BY DEF Kept
<1>0. /\ ~Fault /\ crossed' = "no" /\ worker[w].pc = "flip"
      /\ UNCHANGED <<charge, left, store, claims>>
  BY NoFault DEF Calm, Flip, At
<1>1. /\ Fits(worker[w], order.status) /\ order.status # "none"
      /\ worker[w].saw.restored = order.restored
      /\ worker[w].saw.status \in Terminal => order.status \in Terminal
  BY <1>0, <1>k DEF Placed, Fits, Fresh, Knows, Reconciling, Held
<1>2. /\ order'.status \in Terminal /\ order'.restored = order.restored
      /\ order'.ext = order.ext /\ order'.push = order.push
  BY <1>0, <1>1 DEF Flip, TypeOK, Row, Terminal
<1>3. \/ order.restored = "no" /\ Moved(w, "restoreRead") /\ Same(w) /\ inbox' = inbox
      \/ order.restored = "yes" /\ Moved(w, "idle") /\ worker'[w].ev = None
  BY <1>0, <1>1, GoMoves, ReturnMoves DEF Flip, AfterFlip, TypeOK, Row
<1>4. PICK p \in {"idle", "restoreRead"} : Moved(w, p)
  BY <1>3
<1>5. worker'[w].pc = p /\ \A v \in Workers \ {w} : worker'[v] = worker[v]
  BY <1>4 DEF Moved
<1>6. Apart' /\ Claimed' /\ Placed' /\ Fresh'
  <2>1. "flip" \in Reconciling \cup Terminating
    BY DEF Reconciling
  <2>2. CASE order.restored = "no" /\ Moved(w, "restoreRead") /\ Same(w)
    BY <1>0, <1>1, <1>2, <2>1, <2>2, CloseKept DEF Same
  <2>3. CASE order.restored = "yes" /\ Moved(w, "idle") /\ worker'[w].ev = None
    BY <1>0, <1>2, <2>1, <2>3, CloseKept
  <2> QED
    BY <1>3, <2>2, <2>3
<1>7. Owed'
  <2>1. CASE order.restored = "yes"
    BY <1>2, <2>1 DEF Owed
  <2>2. CASE worker'[w].pc = "restoreRead"
    <3>1. In(Held)' /\ In({"termRefund"} \cup Held)'
      BY <2>2 DEF In, Held, Restoring
    <3> QED
      BY <3>1 DEF Owed
  <2> QED
    BY <1>3, <2>1, <2>2 DEF Moved
<1>8. Stocked'
  <2>1. order'.status # "none"
    BY <1>2 DEF Terminal
  <2> QED
    BY <1>0, <1>1, <1>2, <1>4, <1>k, <2>1, StockedKept
<1>9. Stopped'
  <2>1. /\ In({"pushVerify", "pushUnship"}) <=> In({"pushVerify", "pushUnship"})'
        /\ In({"mark"}) <=> In({"mark"})'
        /\ In({"pushKeep"}) <=> In({"pushKeep"})'
    BY <1>0, <1>5 DEF In
  <2>2. \A v \in Workers : worker'[v].pc \in Choosing =>
          worker[v].pc \in Choosing /\ worker'[v].saw = worker[v].saw
    BY <1>0, <1>3, <1>5 DEF Choosing, Same, Moved
  <2> QED
    BY <1>0, <1>2, <1>k, <2>1, <2>2 DEF Stopped
<1> QED
  BY <1>6, <1>7, <1>8, <1>9 DEF Kept

\* The holder of the reconcile claim goes on: what is left to see to is in its hands.
LEMMA HolderKept ==
  ASSUME Kept, NEW w \in Workers, NEW p, Moved(w, p), p \in Restoring,
         worker[w].pc \in Restoring, worker'[w].ev = worker[w].ev,
         worker'[w].saw = worker[w].saw, UNCHANGED claims,
         order'.status = order.status, order'.restored = order.restored,
         order.status # "none"
  PROVE  Apart' /\ Claimed' /\ Placed' /\ Fresh' /\ Owed'
<1>k. Claimed /\ Placed /\ Fresh
  BY DEF Kept
<1>1. worker'[w].pc = p /\ Apart'
  BY DEF Moved
<1>2. Fits(worker[w], order.status) /\ Knows(worker[w], order, claims)
  BY <1>k DEF Placed, Fresh
<1>3. Claimed'
  BY <1>k, ClaimedKept DEF Settling, Held, Restoring
<1>4. Fits(worker'[w], order.status)
  BY <1>1, <1>2 DEF Fits, Reconciling, Restoring, Shipping
<1>5. Placed'
  BY <1>k, <1>4, PlacedKept DEF Placed
<1>6. Knows(worker'[w], order', claims')
  BY <1>1, <1>2 DEF Knows, Held, Restoring
<1>7. Fresh'
  BY <1>k, <1>6, FreshKept
<1>8. In(Held)' /\ In({"termRefund"} \cup Held)'
  BY <1>1 DEF In, Held
<1> QED
  BY <1>1, <1>3, <1>5, <1>7, <1>8 DEF Owed

LEMMA RestoringFacts ==
  ASSUME Kept, NEW w \in Workers, worker[w].pc \in Restoring
  PROVE  /\ order.status \in Terminal /\ order.status # "none" /\ order.restored = "no"
         /\ "reconcile" \in claims
         /\ \A v \in Workers \ {w} : worker[v].pc \notin Held
<1>1. Fits(worker[w], order.status) /\ Knows(worker[w], order, claims)
  BY DEF Kept, Placed, Fresh
<1>2. worker[w].pc \in Held
  BY DEF Held
<1> QED
  BY <1>1, <1>2 DEF Fits, Knows, Terminal, Kept, Claimed, One

LEMMA RestoreReadKept ==
  ASSUME TypeOK, Kept, NEW w \in Workers, RestoreRead(w), Calm'
  PROVE  Kept'
<1>k. Apart /\ Stocked /\ Stopped
  BY DEF Kept
<1> DEFINE x == [worker[w] EXCEPT !.pc = "restoreWrite", !.left = left]
<1>0. /\ x.pc = "restoreWrite" /\ x.left = left /\ x.ev = worker[w].ev /\ x.saw = worker[w].saw
  BY DEF TypeOK
<1>1. /\ Put(w, x) /\ worker[w].pc = "restoreRead" /\ crossed' = "no"
      /\ UNCHANGED <<stripe, order, left, store, claims>>
  BY NoFault DEF RestoreRead, At, Calm
<1> HIDE DEF x
<1>2. /\ Moved(w, "restoreWrite") /\ worker'[w].left = left /\ worker'[w].ev = worker[w].ev
      /\ worker'[w].saw = worker[w].saw
  BY <1>0, <1>1, PutMoves
<1>3. worker'[w].pc = "restoreWrite" /\ \A v \in Workers \ {w} : worker'[v] = worker[v]
  BY <1>2 DEF Moved
<1>4. Apart' /\ Claimed' /\ Placed' /\ Fresh' /\ Owed'
  BY <1>1, <1>2, HolderKept, RestoringFacts DEF Restoring
<1>5. Stocked'
  <2>1. /\ In({"burnRead", "burnWrite"}) <=> In({"burnRead", "burnWrite"})'
        /\ In({"storeCancel", "mark"}) <=> In({"storeCancel", "mark"})'
    BY <1>1, <1>3 DEF In
  <2>2. \A v \in Workers :
          worker'[v].pc \in {"burnWrite", "restoreWrite"} => worker'[v].left = left
    BY <1>k, <1>2, <1>3 DEF Stocked
  <2> QED
    BY <1>1, <1>k, <2>1, <2>2 DEF Stocked
<1>6. Stopped'
  <2>1. /\ In({"pushVerify", "pushUnship"}) <=> In({"pushVerify", "pushUnship"})'
        /\ In({"mark"}) <=> In({"mark"})'
        /\ In({"pushKeep"}) <=> In({"pushKeep"})'
    BY <1>1, <1>3 DEF In
  <2>2. \A v \in Workers : worker'[v].pc \in Choosing =>
          worker[v].pc \in Choosing /\ worker'[v].saw = worker[v].saw
    BY <1>1, <1>2, <1>3 DEF Choosing
  <2> QED
    BY <1>1, <1>k, <2>1, <2>2 DEF Stopped
<1> QED
  BY <1>4, <1>5, <1>6 DEF Kept

LEMMA RestoreWriteKept ==
  ASSUME TypeOK, Kept, NEW w \in Workers, RestoreWrite(w), Calm'
  PROVE  Kept'
<1>k. Apart /\ Stocked /\ Stopped
  BY DEF Kept
<1>1. /\ worker[w].pc = "restoreWrite" /\ UNCHANGED <<charge, inbox, order, store, claims>>
      /\ left' = worker[w].left + 1 /\ Moved(w, "storeCancel") /\ Same(w)
  BY NoFault, GoMoves DEF RestoreWrite, At, stripe, Calm
<1>2. worker'[w].pc = "storeCancel" /\ \A v \in Workers \ {w} : worker'[v] = worker[v]
  BY <1>1 DEF Moved
<1>3. /\ order.status # "none" /\ order.restored = "no"
      /\ \A v \in Workers \ {w} : worker[v].pc \notin Held
  BY <1>1, RestoringFacts DEF Restoring
<1>4. Apart' /\ Claimed' /\ Placed' /\ Fresh' /\ Owed'
  BY <1>1, <1>3, HolderKept DEF Restoring, Same
<1>5. Stocked'
  <2>1. In({"burnRead", "burnWrite"}) <=> In({"burnRead", "burnWrite"})'
    BY <1>1, <1>2 DEF In
  <2>2. ~In({"storeCancel", "mark"}) /\ In({"storeCancel", "mark"})'
    BY <1>1, <1>2, <1>3 DEF In, Held, Restoring
  <2>3. \A v \in Workers : worker'[v].pc \notin {"burnWrite", "restoreWrite"}
    BY <1>1, <1>2, <1>3, <1>k DEF Apart, Held, Restoring
  <2>4. worker[w].left = left /\ left \in Nat /\ Stock \in Nat
    BY <1>1, <1>k, ProductOrderAssumption DEF Stocked, TypeOK
  <2> QED
    BY <1>1, <1>3, <1>k, <2>1, <2>2, <2>3, <2>4 DEF Stocked
<1>6. Stopped'
  <2>1. /\ In({"pushVerify", "pushUnship"}) <=> In({"pushVerify", "pushUnship"})'
        /\ In({"mark"}) <=> In({"mark"})'
        /\ In({"pushKeep"}) <=> In({"pushKeep"})'
    BY <1>1, <1>2 DEF In
  <2>2. \A v \in Workers : worker'[v].pc \in Choosing =>
          worker[v].pc \in Choosing /\ worker'[v].saw = worker[v].saw
    BY <1>1, <1>2 DEF Choosing, Same
  <2> QED
    BY <1>1, <1>k, <2>1, <2>2 DEF Stopped
<1> QED
  BY <1>4, <1>5, <1>6 DEF Kept

LEMMA StoreCancelKept ==
  ASSUME TypeOK, Kept, NEW w \in Workers, StoreCancel(w), Calm'
  PROVE  Kept'
<1>k. Stocked /\ Stopped
  BY DEF Kept
<1>1. /\ worker[w].pc = "storeCancel" /\ UNCHANGED <<charge, inbox, left, claims>>
      /\ Moved(w, "mark") /\ Same(w) /\ ~Fault
  BY NoFault, GoMoves DEF StoreCancel, At, stripe, Calm
<1>2. worker'[w].pc = "mark" /\ \A v \in Workers \ {w} : worker'[v] = worker[v]
  BY <1>1 DEF Moved
<1>3. order.status # "none"
  BY <1>1, RestoringFacts DEF Restoring
<1>4. /\ order'.status = order.status /\ order'.restored = order.restored
      /\ store' = "live" =>
           /\ store = "live"
           /\ worker[w].saw.push = "cancelled" \/ worker[w].saw.ext # "yes"
  BY <1>1, CancelStops DEF StoreCancel, TypeOK, Row
<1>5. Apart' /\ Claimed' /\ Placed' /\ Fresh' /\ Owed'
  BY <1>1, <1>3, <1>4, HolderKept DEF Restoring, Same
<1>6. Stocked'
  <2>1. In({"burnRead", "burnWrite"}) <=> In({"burnRead", "burnWrite"})'
    BY <1>1, <1>2 DEF In
  <2>2. In({"storeCancel", "mark"}) /\ In({"storeCancel", "mark"})'
    BY <1>1, <1>2 DEF In
  <2>3. \A v \in Workers :
          worker'[v].pc \in {"burnWrite", "restoreWrite"} => worker'[v].left = left
    BY <1>2, <1>k DEF Stocked
  <2> QED
    BY <1>1, <1>4, <1>k, <2>1, <2>2, <2>3 DEF Stocked
<1>7. Stopped'
  <2>1. In({"mark"})' /\ (In({"pushVerify", "pushUnship"}) => In({"pushVerify", "pushUnship"})')
    BY <1>1, <1>2 DEF In
  <2>2. store = "live" /\ ~In({"pushVerify", "pushUnship"}) =>
          worker[w].saw.ext = "yes" /\ worker[w].saw.push # "cancelled"
    BY <1>1, <1>k DEF Stopped, Choosing
  <2>3. store' = "live" => In({"pushVerify", "pushUnship"})'
    BY <1>4, <2>1, <2>2
  <2> QED
    BY <2>1, <2>3 DEF Stopped
<1> QED
  BY <1>5, <1>6, <1>7 DEF Kept

LEMMA MarkKept ==
  ASSUME TypeOK, Kept, NEW w \in Workers, Mark(w), Calm'
  PROVE  Kept'
<1>k. Claimed /\ Placed /\ Fresh /\ Stocked /\ Stopped
  BY DEF Kept
<1>1. /\ worker[w].pc = "mark" /\ UNCHANGED <<charge, left, store, claims>>
      /\ Moved(w, "idle") /\ worker'[w].ev = None
      /\ order'.status = order.status /\ order'.restored = "yes" /\ order'.push = order.push
  BY ReturnMoves DEF Mark, At, Calm, TypeOK, Row
<1>2. worker'[w].pc = "idle" /\ Apart' /\ \A v \in Workers \ {w} : worker'[v] = worker[v]
  BY <1>1 DEF Moved
<1>3. /\ order.status \in Terminal /\ order.status # "none" /\ "reconcile" \in claims
      /\ \A v \in Workers \ {w} : worker[v].pc \notin Held
  BY <1>1, RestoringFacts DEF Restoring
<1>4. Claimed'
  BY <1>1, <1>k, ClaimedKept DEF Settling, Held, Restoring
<1>5. Placed'
  <2>1. Fits(worker'[w], order'.status)
    BY <1>1, <1>2, ProductOrderAssumption
    DEF Fits, Refunds, Pushing, Reconciling, Terminating, Shipping, Restoring
  <2> QED
    BY <1>1, <1>3, <1>k, <2>1, PlacedKept
<1>6. Fresh'
  <2>1. Knows(worker'[w], order', claims')
    BY <1>2 DEF Knows, Held, Restoring
  <2>2. \A v \in Workers \ {w} : Knows(worker'[v], order', claims')
    BY <1>1, <1>2, <1>3, <1>k DEF Fresh, Knows, Held
  <2> QED
    BY <2>1, <2>2 DEF Fresh
<1>7. Owed'
  BY <1>1, <1>3 DEF Owed
<1>8. Stocked'
  <2>1. In({"burnRead", "burnWrite"}) <=> In({"burnRead", "burnWrite"})'
    BY <1>1, <1>2 DEF In
  <2>2. In({"storeCancel", "mark"})
    BY <1>1 DEF In
  <2>3. \A v \in Workers :
          worker'[v].pc \in {"burnWrite", "restoreWrite"} => worker'[v].left = left
    BY <1>2, <1>k DEF Stocked
  <2> QED
    BY <1>1, <1>k, <2>1, <2>2, <2>3 DEF Stocked
<1>9. Stopped'
  <2>1. In({"mark"}) /\ (In({"pushVerify", "pushUnship"}) => In({"pushVerify", "pushUnship"})')
    BY <1>1, <1>2 DEF In
  <2> QED
    BY <1>1, <1>k, <2>1 DEF Stopped
<1> QED
  BY <1>2, <1>4, <1>5, <1>6, <1>7, <1>8, <1>9 DEF Kept

LEMMA ReconcileKept ==
  ASSUME TypeOK, Kept, NEW w \in Workers, Reconcile(w), Calm'
  PROVE  Kept'
  BY ReadKept, ClaimReconcileKept, FlipKept, RestoreReadKept, RestoreWriteKept, StoreCancelKept,
     MarkKept
  DEF Reconcile

\* The rancher's claims, and a step into or out of a plain place.
LEMMA ClaimPlain ==
  ASSUME TypeOK, Kept, NEW w \in Workers, NEW p, NEW c, NEW q, Claim(w, p, c, q), crossed' = "no",
         p \in {"termClaim", "shipClaim"}, c # "reconcile",
         q = IF p = "termClaim" THEN "termFlip" ELSE "shipWrite"
  PROVE  Kept'
<1>0. /\ worker[w].pc = p /\ UNCHANGED <<charge, order, left, store>>
      /\ \/ /\ claims' = claims /\ Moved(w, "idle") /\ worker'[w].ev = None
            /\ inbox' = inbox \ {worker[w].ev}
         \/ /\ claims' = claims \cup {c} /\ Moved(w, q) /\ Same(w) /\ inbox' = inbox
  BY ClaimMoves
<1>1. PICK r \in {"idle", q} :
        Moved(w, r) /\ worker'[w].ev = IF r = "idle" THEN None ELSE worker[w].ev
  BY <1>0 DEF Same
<1>2. Fits(worker[w], order.status) /\ worker[w].ev \notin Refunds
  BY <1>0 DEF Kept, Placed, Fits, Reconciling
<1>3. Fits(worker'[w], order.status)
  <2>1. worker'[w].pc = r /\ worker'[w].ev \notin Refunds
    BY <1>1, <1>2, ProductOrderAssumption DEF Moved, Refunds
  <2>2. r \in {"idle", "termFlip", "shipWrite"}
    BY <1>1
  <2>3. /\ r = "termFlip" => order.status # "none"
        /\ r = "shipWrite" => order.status \notin Terminal \cup {"none"}
    BY <1>0, <1>1, <1>2 DEF Fits, Terminating, Shipping
  <2> QED
    BY <2>1, <2>2, <2>3 DEF Fits, Pushing, Reconciling, Terminating, Shipping, Restoring
<1>4. /\ claims \subseteq claims' /\ ("reconcile" \in claims' => "reconcile" \in claims)
      /\ inbox \cap Refunds \subseteq inbox'
  BY <1>0, <1>2
<1>5. r \in Plain \cup {"read"} /\ worker[w].pc \in Plain \cup {"find"}
  BY <1>0, <1>1 DEF Plain, Shipping
<1>6. Apart' /\ Claimed' /\ Placed' /\ Fresh' /\ Owed' /\ Stocked'
  BY <1>0, <1>1, <1>3, <1>4, <1>5, PlainKept DEF Kept, Placed
<1>7. Stopped'
  BY <1>0, <1>1, StoppedKept DEF Kept, Choosing
<1> QED
  BY <1>6, <1>7 DEF Kept

LEMMA TermFlipKept ==
  ASSUME TypeOK, Kept, NEW w \in Workers, TermFlip(w), Calm'
  PROVE  Kept'
<1>1. /\ worker[w].pc = "termFlip" /\ UNCHANGED <<charge, inbox, left, store, claims>>
      /\ Moved(w, "termRefund") /\ Same(w)
      /\ order'.status = "Cancelled" /\ order'.restored = order.restored
      /\ order'.push = order.push /\ order'.ext = order.ext
  BY NoFault, GoMoves DEF TermFlip, At, Calm, TypeOK, Row
<1>2. "termFlip" \in Terminating /\ "Cancelled" \in Terminal /\ "none" \notin Terminal
  BY DEF Terminating, Terminal
<1>3. order.status # "none"
  BY <1>1, <1>2 DEF Kept, Placed, Fits
<1>4. Apart' /\ Claimed' /\ Placed' /\ Fresh'
  BY <1>1, <1>2, CloseKept
<1>5. Owed'
  <2>1. /\ In(Held) => In(Held)'
        /\ In({"termRefund"} \cup Held)'
    BY <1>1 DEF In, Moved, Held, Restoring
  <2> QED
    BY <1>1, <1>2, <2>1 DEF Kept, Owed
<1>6. Stocked'
  BY <1>1, <1>2, <1>3, StockedKept DEF Kept
<1>7. Stopped'
  BY <1>1, StoppedKept DEF Kept, Choosing
<1> QED
  BY <1>4, <1>5, <1>6, <1>7 DEF Kept

LEMMA TermRefundKept ==
  ASSUME TypeOK, Kept, NEW w \in Workers, TermRefund(w), Calm'
  PROVE  Kept'
<1>k. Claimed /\ Placed /\ Fresh /\ Owed /\ Stocked /\ Stopped
  BY DEF Kept
<1> DEFINE x == [worker[w] EXCEPT !.pc = "read", !.force = "yes"]
<1>0. x.pc = "read" /\ x.force = "yes" /\ x.ev = worker[w].ev
  BY DEF TypeOK
<1>a. /\ worker[w].pc = "termRefund" /\ UNCHANGED <<order, left, store>>
      /\ ~Fault /\ crossed' = "no"
  BY NoFault DEF TermRefund, At, Calm
<1>b. ~(charge = "returned" /\ Go(w, "termRevert"))
  <2> SUFFICES ASSUME charge = "returned", Go(w, "termRevert") PROVE FALSE
    OBVIOUS
  <2>1. worker'[w].pc = "termRevert"
    BY <1>a, GoMoves DEF Moved
  <2>2. ~Overlap(worker')
    BY <1>a DEF Go, Put
  <2> QED
    BY <2>1, <2>2 DEF Overlap, Terminating
<1>1. Put(w, x) /\ claims' \in {claims, claims \cup {"refund"}}
  BY <1>a, <1>b DEF TermRefund, Refunded, stripe
<1>c. claims \subseteq claims' /\ ("reconcile" \in claims' <=> "reconcile" \in claims)
  BY <1>1
<1> HIDE DEF x
<1>2. Moved(w, "read") /\ worker'[w].force = "yes" /\ worker'[w].ev = worker[w].ev
  BY <1>0, <1>1, <1>a, PutMoves
<1>3. worker'[w].pc = "read" /\ Apart' /\ \A v \in Workers \ {w} : worker'[v] = worker[v]
  BY <1>2 DEF Moved
<1>4. Claimed'
  BY <1>a, <1>c, <1>2, <1>k, ClaimedKept DEF Settling, Held, Restoring
<1>5. Placed'
  <2>1. Fits(worker[w], order.status)
    BY <1>k DEF Placed
  <2>2. Fits(worker'[w], order.status)
    BY <1>a, <1>2, <1>3, <2>1
    DEF Fits, Pushing, Reconciling, Terminating, Shipping, Restoring
  <2> QED
    BY <1>a, <1>2, <1>k, <2>2, PlacedKept DEF Placed
<1>6. Fresh'
  <2>1. Knows(worker'[w], order', claims')
    BY <1>3 DEF Knows, Held, Restoring
  <2> QED
    BY <1>a, <1>c, <1>2, <1>k, <2>1, FreshKept
<1>7. Owed'
  <2>1. In(Held) => In(Held)'
    BY <1>a, <1>3 DEF In, Held, Restoring
  <2>2. worker'[w].pc \in {"read", "rclaim"} /\ worker'[w].force = "yes"
    BY <1>2, <1>3
  <2>3. order.status \in Terminal
    BY <1>a, <1>k DEF Placed, Fits
  <2> QED
    BY <1>a, <1>c, <1>k, <2>1, <2>2, <2>3 DEF Owed
<1>8. Stocked' /\ Stopped'
  BY <1>a, <1>2, <1>k, StockedKept, StoppedKept DEF Choosing
<1> QED
  BY <1>3, <1>4, <1>5, <1>6, <1>7, <1>8 DEF Kept

LEMMA ShipWriteKept ==
  ASSUME TypeOK, Kept, NEW w \in Workers, ShipWrite(w), Calm'
  PROVE  Kept'
<1>k. Claimed /\ Apart /\ Placed /\ Fresh /\ Owed /\ Stocked /\ Stopped
  BY DEF Kept
<1>1. /\ worker[w].pc = "shipWrite" /\ UNCHANGED <<charge, left, store, claims>>
      /\ Moved(w, "idle") /\ worker'[w].ev = None /\ inbox' = inbox \ {worker[w].ev}
      /\ order'.status = "Shipped" /\ order'.restored = order.restored
      /\ order'.push = order.push /\ order'.ext = order.ext
  BY ReturnMoves DEF ShipWrite, At, Calm, TypeOK, Row
<1>2. worker'[w].pc = "idle" /\ Apart' /\ \A v \in Workers \ {w} : worker'[v] = worker[v]
  BY <1>1 DEF Moved
<1>3. /\ order.status \notin Terminal \cup {"none"} /\ order.restored # "yes"
      /\ worker[w].ev \notin Refunds
  BY <1>1, <1>k DEF Placed, Fits, Shipping, Reconciling
<1>4. \A v \in Workers : worker[v].pc \notin Reconciling \cup Terminating
  BY <1>1, <1>k DEF Apart, Shipping
<1>5. "Shipped" \notin Terminal \cup {"none"}
  BY DEF Terminal
<1>6. Claimed'
  BY <1>1, <1>k, ClaimedKept DEF Settling, Held, Restoring
<1>7. Placed'
  <2>1. Fits(worker'[w], "Shipped")
    BY <1>2, <1>1, ProductOrderAssumption
    DEF Fits, Refunds, Pushing, Reconciling, Terminating, Shipping, Restoring
  <2>2. \A v \in Workers : Fits(worker[v], "Shipped")
    BY <1>3, <1>4, <1>5, <1>k DEF Placed, Fits, Restoring, Reconciling, Terminating
  <2>3. order'.status # "none" /\ order'.restored # "yes"
    BY <1>1, <1>3
  <2> QED
    BY <1>1, <1>k, <2>1, <2>2, <2>3, PlacedKept
<1>8. Fresh'
  BY <1>1, <1>2, <1>3, <1>k, FreshKept DEF Knows, Held, Restoring
<1>9. Owed'
  <2>1. "Shipped" \notin Terminal /\ order.status \notin Terminal
    BY <1>3, <1>5
  <2>2. worker[w].pc \notin {"termRefund", "read", "rclaim"} \cup Held
    BY <1>1 DEF Held, Restoring
  <2>3. inbox \cap Refunds \subseteq inbox'
    BY <1>1, <1>3
  <2> QED
    BY <1>1, <1>k, <2>1, <2>2, <2>3, OwedKept
<1>10. Stocked' /\ Stopped'
  BY <1>1, <1>3, <1>5, <1>k, StockedKept, StoppedKept DEF Choosing
<1> QED
  BY <1>2, <1>6, <1>7, <1>8, <1>9, <1>10 DEF Kept

LEMMA RancherKept ==
  ASSUME TypeOK, Kept, NEW w \in Workers, Rancher(w), Calm'
  PROVE  Kept'
<1>1. CASE ClaimTerminate(w)
  BY <1>1, ClaimPlain DEF ClaimTerminate, Calm
<1>2. CASE TermRevert(w)
  BY <1>2 DEF TermRevert, At, Kept, Placed, Fits
<1>3. CASE ClaimShip(w)
  BY <1>3, ClaimPlain DEF ClaimShip, Calm
<1> QED
  BY <1>1, <1>2, <1>3, TermFlipKept, TermRefundKept, ShipWriteKept DEF Rancher

\* An invocation starts at a place the row allows.
LEMMA BeginKept ==
  ASSUME TypeOK, Kept, NEW w \in Workers, NEW p, NEW e, Begin(w, p, e), crossed' = "no",
         p \in {"settle", "pushRead", "termClaim", "shipClaim", "shipWrite", "read"},
         p \notin {"settle", "read"} => order.status = "New",
         e \in Refunds => p = "read",
         UNCHANGED <<stripe, order, left, claims>>,
         store' = store \/ (store = "live" /\ store' = "sent")
  PROVE  Kept'
<1>1. /\ Moved(w, p) /\ worker'[w].ev = e /\ worker[w].pc = "idle"
      /\ UNCHANGED <<charge, inbox>>
  BY BeginMoves DEF stripe
<1>2. "New" \notin Terminal \cup {"none"}
  BY DEF Terminal
<1>3. Fits(worker'[w], order.status)
  <2>1. worker'[w].pc = p
    BY <1>1 DEF Moved
  <2> QED
    BY <1>1, <1>2, <2>1 DEF Fits, Pushing, Reconciling, Terminating, Shipping, Restoring
<1>4. p \in Plain \cup {"read"} /\ worker[w].pc \in Plain \cup {"find"}
  BY <1>1 DEF Plain, Shipping, Pushing
<1>5. order.status = "none" => store' = "none"
  BY DEF Kept, Placed
<1>6. Apart' /\ Claimed' /\ Placed' /\ Fresh' /\ Owed' /\ Stocked'
  BY <1>1, <1>3, <1>4, <1>5, PlainKept
<1>7. Stopped'
  BY <1>1, StoppedKept DEF Kept, Choosing
<1> QED
  BY <1>6, <1>7 DEF Kept

LEMMA StartKept ==
  ASSUME TypeOK, Kept, NEW w \in Workers, Calm',
         \/ Net(w) \/ PushNet(w) \/ PushRetry(w)
         \/ Terminate(w) \/ Ship(w) \/ Fulfil(w) \/ Crash(w)
  PROVE  Kept'
<1>0. ~Fault /\ crossed' = "no" /\ None \notin Refunds
  BY NoFault, ProductOrderAssumption DEF Calm, Refunds
<1>1. CASE Net(w)
  BY <1>0, <1>1, BeginKept DEF Net
<1>2. CASE PushNet(w)
  BY <1>0, <1>2, BeginKept DEF PushNet
<1>r. CASE PushRetry(w)
  BY <1>0, <1>r, BeginKept DEF PushRetry
<1>3. CASE Terminate(w)
  BY <1>0, <1>3, BeginKept DEF Terminate
<1>4. CASE Ship(w)
  BY <1>0, <1>4, BeginKept DEF Ship
<1>5. CASE Fulfil(w)
  <2>1. CASE order.ext = "yes" /\ order.status = "New"
    BY <1>0, <1>5, <2>1, BeginKept DEF Fulfil
  <2>2. CASE ~(order.ext = "yes" /\ order.status = "New")
    <3>1. /\ UNCHANGED <<worker, charge, inbox, order, left, claims>>
          /\ store = "live" /\ store' = "sent"
      BY <1>5, <2>2 DEF Fulfil, stripe
    <3>2. Claimed' /\ Apart' /\ Fresh' /\ Owed' /\ Stocked'
      BY <3>1 DEF Kept, Claimed, One, Apart, Fresh, Owed, Stocked, In
    <3>3. Placed' /\ Stopped'
      BY <3>1 DEF Kept, Placed, Stopped
    <3> QED
      BY <3>2, <3>3 DEF Kept
  <2> QED
    BY <2>1, <2>2
<1>6. CASE Crash(w)
  BY <1>0, <1>6 DEF Crash
<1> QED
  BY <1>1, <1>2, <1>r, <1>3, <1>4, <1>5, <1>6

LEMMA WorldKept ==
  ASSUME TypeOK, Kept, Calm',
         \/ Pay \/ Dashboard \/ \E c \in Keys : Lapse(c)
         \/ \E w \in Workers, ev \in Events : Deliver(w, ev)
  PROVE  Kept'
<1>k. Claimed /\ Apart /\ Placed /\ Fresh /\ Owed /\ Stocked /\ Stopped
  BY DEF Kept
<1>1. CASE Pay \/ Dashboard
  <2>1. UNCHANGED <<worker, order, left, store, claims>>
    BY <1>1 DEF Pay, Dashboard
  <2>2. Claimed' /\ Apart' /\ Placed' /\ Fresh' /\ Stocked' /\ Stopped'
    BY <1>k, <2>1 DEF Claimed, One, Apart, Placed, Fresh, Stocked, Stopped, In
  <2>3. charge' = "returned" => inbox' \cap Refunds # {}
    BY <1>1 DEF Pay, Dashboard, Refunds
  <2>4. Owed'
    BY <1>k, <2>1, <2>3 DEF Owed, In
  <2> QED
    BY <2>2, <2>4 DEF Kept
<1>2. ASSUME NEW c \in Keys, Lapse(c) PROVE Kept'
  <2>1. /\ UNCHANGED <<charge, inbox, worker, order, left, store>> /\ claims' = claims \ {c}
        /\ \A w \in Workers : worker[w].pc \notin Under(c)
    BY <1>2 DEF Lapse, stripe
  <2>2. /\ c = "settle" => \A w \in Workers : worker[w].pc \notin Settling
        /\ c = "reconcile" => \A w \in Workers : worker[w].pc \notin Reconciling
    BY <2>1 DEF Under
  <2>3. Claimed'
    BY <1>k, <2>1, <2>2 DEF Claimed, One, Held, Restoring, Reconciling
  <2>4. Apart' /\ Placed' /\ Stocked' /\ Stopped'
    BY <1>k, <2>1 DEF Apart, Placed, Stocked, Stopped, In
  <2>5. Fresh'
    <3>1. CASE c = "reconcile"
      BY <2>1, <2>2, <3>1 DEF Fresh, Knows, Held, Restoring, Reconciling
    <3>2. CASE c # "reconcile"
      BY <1>k, <2>1, <3>2 DEF Fresh, Knows
    <3> QED
      BY <3>1, <3>2
  <2>6. Owed'
    BY <1>k, <2>1 DEF Owed, In
  <2> QED
    BY <2>3, <2>4, <2>5, <2>6 DEF Kept
<1>3. ASSUME NEW w \in Workers, NEW ev \in Events, Deliver(w, ev) PROVE Kept'
  <2>1. "paid" \notin Refunds /\ crossed' = "no"
    BY DEF Refunds, Calm
  <2> QED
    BY <1>3, <2>1, BeginKept DEF Deliver
<1> QED
  BY <1>1, <1>2, <1>3

\* What has failed, come early or overlapped stays on record.
Recorded ==
  /\ faults' = faults \/ Fault
  /\ early' \in {early, "yes"} /\ crossed' \in {crossed, "yes"}

LEMMA RecordedCalm == ASSUME TypeOK, Recorded, Calm' PROVE Calm
  BY NoFault DEF Recorded, Calm

LEMMA PutRecords == ASSUME NEW w, NEW x, Put(w, x) PROVE crossed' \in {crossed, "yes"}
  BY DEF Put

LEMMA NextRecords == ASSUME Next PROVE Recorded
<1>p. /\ \A w, p : Go(w, p) => crossed' \in {crossed, "yes"}
      /\ \A w : Return(w) => crossed' \in {crossed, "yes"}
      /\ \A w, p, e : Begin(w, p, e) => crossed' \in {crossed, "yes"}
  BY PutRecords DEF Go, Return, Begin
<1>c. \A e : CancelOrder(e) => faults' = faults \/ Fault
  BY DEF CancelOrder
<1>l. \A w, p, c, q : Claim(w, p, c, q) => Recorded
  BY <1>p DEF Claim, Recorded
<1>1. CASE Pay \/ Dashboard \/ \E c \in Keys : Lapse(c)
  BY <1>1 DEF Pay, Dashboard, Lapse, history, Recorded
<1>2. ASSUME NEW w \in Workers, NEW ev \in Events, Deliver(w, ev) PROVE Recorded
  BY <1>p, <1>2 DEF Deliver, Recorded
<1>3. ASSUME NEW w \in Workers,
             \/ Net(w) \/ PushNet(w) \/ PushRetry(w)
         \/ Terminate(w) \/ Ship(w) \/ Fulfil(w) \/ Crash(w)
      PROVE  Recorded
  BY <1>p, <1>3, PutRecords 
  DEF Net, PushNet, PushRetry, Terminate, Ship, Fulfil, Crash, Recorded
<1>4. ASSUME NEW w \in Workers, Settle(w) PROVE Recorded
  BY <1>p, <1>l, <1>4, PutRecords
  DEF Settle, ClaimSettle, Find, Create, BurnRead, BurnWrite, Recorded
<1>5. ASSUME NEW w \in Workers, Push(w) PROVE Recorded
  <2>1. CASE PushRead(w) \/ PushSkip(w) \/ PushStamp(w) \/ PushCall(w) \/ PushVerify(w)
    BY <1>p, <2>1 DEF PushRead, PushSkip, Stamp, PushStamp, PushCall, PushVerify, Recorded
  <2>2. CASE PushKeep(w) \/ PushUnship(w) \/ PushRevert(w) \/ PushBlank(w)
    BY <1>p, <1>c, <2>2 DEF PushKeep, PushUnship, PushRevert, PushBlank, Stamp, Recorded
  <2>3. CASE PushGiveUp(w) \/ PushRing(w)
    BY <1>p, <2>3 DEF PushGiveUp, PushRing, Stamp, Recorded
  <2> QED
    BY <1>5, <2>1, <2>2, <2>3 DEF Push
<1>6. ASSUME NEW w \in Workers, Reconcile(w) PROVE Recorded
  <2>1. CASE Read(w) \/ ClaimReconcile(w) \/ Flip(w) \/ RestoreRead(w)
    BY <1>p, <1>l, <2>1, PutRecords
    DEF Read, ClaimReconcile, Flip, AfterFlip, RestoreRead, Recorded
  <2>2. CASE RestoreWrite(w) \/ StoreCancel(w) \/ Mark(w)
    BY <1>p, <1>c, <2>2 DEF RestoreWrite, StoreCancel, Mark, Recorded
  <2> QED
    BY <1>6, <2>1, <2>2 DEF Reconcile
<1>7. ASSUME NEW w \in Workers, Rancher(w) PROVE Recorded
  <2>1. CASE ClaimTerminate(w) \/ ClaimShip(w)
    BY <1>l, <2>1 DEF ClaimTerminate, ClaimShip
  <2>2. CASE TermFlip(w) \/ TermRefund(w) \/ TermRevert(w) \/ ShipWrite(w)
    BY <1>p, <2>2, PutRecords DEF TermFlip, TermRefund, Refunded, TermRevert, ShipWrite, Recorded
  <2> QED
    BY <1>7, <2>1, <2>2 DEF Rancher
<1> QED
  BY <1>1, <1>2, <1>3, <1>4, <1>5, <1>6, <1>7 DEF Next, Step

-----------------------------------------------------------------------------
LEMMA InitInv == Init => Inv
  BY InitTypes, InitKept DEF Inv

LEMMA NextInv == Inv /\ [Next]_vars => Inv'
<1> SUFFICES ASSUME Inv, [Next]_vars PROVE Inv'
  OBVIOUS
<1>1. TypeOK'
  BY NextTypes DEF Inv
<1>2. CASE UNCHANGED vars
  <2>1. Calm' => Calm
    BY <1>2 DEF vars, history, Calm
  <2>2. Kept => Kept'
    BY <1>2 DEF vars, stripe, Kept, Claimed, One, Apart, Placed, Fresh, Owed, Stocked, Stopped, In
  <2> QED
    BY <1>1, <2>1, <2>2 DEF Inv
<1>3. CASE Next
  <2> SUFFICES ASSUME Calm' PROVE Kept'
    BY <1>1 DEF Inv
  <2>1. TypeOK /\ Kept
    BY <1>3, NextRecords, RecordedCalm DEF Inv
  <2> QED
    BY <1>3, <2>1, SettleKept, PushKept, ReconcileKept, RancherKept, StartKept, WorldKept
    DEF Next, Step
<1> QED
  BY <1>2, <1>3

LEMMA InvHolds == Spec => []Inv
  BY InitInv, NextInv, PTL DEF Spec

LEMMA QuietKept ==
  ASSUME Inv, Clean
  PROVE  Kept /\ inbox = {} /\ \A w \in Workers : worker[w].pc = "idle"
  BY DEF Inv, Clean, Quiet, Calm, At

\* "a refund must never ship": however refund, push and shipment interleave, the
\* rancher's store is not left with a live order whose money went back.
THEOREM RefundStopsStore == Spec => []StoreStopped
<1>1. ASSUME Inv PROVE StoreStopped
  <2> SUFFICES ASSUME Clean, charge = "returned", store = "live" PROVE FALSE
    BY DEF StoreStopped
  <2>1. Kept /\ inbox = {} /\ \A w \in Workers : worker[w].pc = "idle"
    BY <1>1, QuietKept
  <2>2. ~In(Held) /\ ~In({"termRefund"} \cup Held) /\ ~In({"pushVerify", "pushUnship"})
    BY <2>1 DEF In, Held, Restoring
  <2>3. order.status \in Terminal
    BY <2>1, <2>2 DEF Kept, Owed
  <2>4. order.restored # "no"
    BY <2>1, <2>2, <2>3 DEF Kept, Owed
  <2>5. order.restored = "no"
    BY <2>1, <2>2 DEF Kept, Stopped
  <2> QED
    BY <2>4, <2>5
<1> QED
  BY <1>1, InvHolds, PTL

\* Money that went back closes the order: no reconcile, revert or shipment leaves it
\* on the rancher's ship list or counted as shipped.
THEOREM RefundClosesOrder == Spec => []ReturnedIsOver
<1>1. ASSUME Inv PROVE ReturnedIsOver
  <2> SUFFICES ASSUME Clean, charge = "returned" PROVE order.status \in Terminal
    BY DEF ReturnedIsOver
  <2>1. Kept /\ inbox = {} /\ \A w \in Workers : worker[w].pc = "idle"
    BY <1>1, QuietKept
  <2>2. ~In(Held)
    BY <2>1 DEF In, Held, Restoring
  <2> QED
    BY <2>1, <2>2 DEF Kept, Owed
<1> QED
  BY <1>1, InvHolds, PTL

\* Each unit is burned once and restored once, however many events and routes report
\* one refund.
THEOREM StockIsExact == Spec => []StockExact
<1>1. ASSUME Inv PROVE StockExact
  <2> SUFFICES ASSUME Clean, order.status # "none"
               PROVE  left + (IF order.status \in Terminal THEN 0 ELSE 1) = Stock
    BY DEF StockExact
  <2>1. Kept /\ inbox = {} /\ \A w \in Workers : worker[w].pc = "idle"
    BY <1>1, QuietKept
  <2>2. /\ ~In({"termRefund"} \cup Held) /\ ~In({"burnRead", "burnWrite"})
        /\ ~In({"storeCancel", "mark"})
    BY <2>1 DEF In, Held, Restoring
  <2>3. left + 1 = Stock + (IF order.restored = "yes" THEN 1 ELSE 0)
    BY <2>1, <2>2 DEF Kept, Stocked
  <2>4. order.status \in Terminal => order.restored # "no"
    BY <2>1, <2>2 DEF Kept, Owed
  <2>5. order.restored = "yes" => order.status \in Terminal
    BY <2>1 DEF Kept, Placed
  <2>6. order.restored \in {"yes", "no"} /\ left \in Nat /\ Stock \in Nat
    BY <1>1, ProductOrderAssumption DEF Inv, TypeOK, Row
  <2> QED
    BY <2>3, <2>4, <2>5, <2>6
<1> QED
  BY <1>1, InvHolds, PTL

-----------------------------------------------------------------------------
(* That no paid order is stranded needs none of the calm: it holds through any *)
(* number of failures and requests.                                            *)

Sent  == {"pushVerify", "pushKeep", "pushUnship"}
After == {"burnRead", "burnWrite"} \cup Pushing \cup Reconciling \cup Terminating \cup Shipping

\* What fulfillment-push-net looks for by itself, and what it leaves to the operator.
Nominable == {"", "pushing"}
GivenUp   == {"skipped", "failed"}

\* The operator was told, or is about to be; or the signal failed.
Voiced == told # "no" \/ In({"pushRing"})

\* "no silent stranding", as a state: a paid order to ship that the store does not have
\* does not claim the store has it, and is in reach of the push net or was given up with
\* a word to the operator, which a single failure cannot both cause and lose.
NothingStranded ==
  charge = "paid" /\ crossed = "no" /\ order.status = "New" /\ store = "none"
    => /\ order.ext = "no"
       /\ order.push \in Nominable \/ (order.push \in GivenUp /\ (WordGiven \/ In({"pushRing"})))

Made(x, status) == /\ x.pc = "create" => status = "none"
                   /\ x.pc \in After => status # "none"
Begun    == One(Settling, "settle") /\ \A w \in Workers : Made(worker[w], order.status)
Unsent   == store = "none" => /\ order.ext = "no" /\ ~In(Sent)
                              /\ charge # "returned" => order.push \in Nominable \cup GivenUp
\* A push is given up with a word, or once the order has left New for good.
Failed   == order.push = "failed" => Voiced
Skips    == crossed = "no" /\ charge # "returned" /\ (order.push = "skipped" \/ In({"pushSkip"}))
              => Voiced \/ (order.status # "New" /\ ~In(Terminating))
Unasked  == charge # "returned" => ~In(Reconciling \cup {"read"}) /\ inbox \cap Refunds = {}
Supplied == Begun /\ Unsent /\ Failed /\ Skips /\ Unasked

LEMMA InitSupplied == Init => Supplied
<1> SUFFICES ASSUME Init PROVE Supplied
  OBVIOUS
<1>1. /\ order.status = "none" /\ order.ext = "no" /\ order.push = "" /\ charge = "none"
      /\ inbox = {} /\ \A w \in Workers : worker[w].pc = "idle"
  BY DEF Init, Absent, Idle
<1>2. order.push \in Nominable /\ order.push \notin GivenUp
  BY <1>1 DEF Nominable, GivenUp
<1>3. Begun /\ Unasked /\ ~In(Sent) /\ ~In({"pushSkip"})
  BY <1>1 DEF Begun, One, Made, Unasked, In, Settling, After, Sent, Pushing, Reconciling,
     Terminating, Shipping
<1> QED
  BY <1>1, <1>2, <1>3 DEF Supplied, Unsent, Failed, Skips, GivenUp

\* A word given stays given: whoever is about to give it gives it or loses it.
Stays(w) == \A v \in Workers \ {w} : worker'[v] = worker[v]
Mute(w)  == Stays(w) /\ worker[w].pc # "pushRing" /\ told' = told

LEMMA PutStays == ASSUME TypeOK, NEW w \in Workers, NEW x, Put(w, x) PROVE Stays(w)
  BY DEF Put, Stays, TypeOK

LEMMA VoicedKept == TypeOK /\ [Next]_vars => (Voiced => Voiced')
<1> SUFFICES ASSUME TypeOK, [Next]_vars, Voiced PROVE Voiced'
  OBVIOUS
<1>m. ASSUME NEW w \in Workers, Mute(w) PROVE Voiced'
  BY <1>m DEF Mute, Stays, Voiced, In
<1>p. /\ \A w \in Workers : \A p : Go(w, p) => Stays(w)
      /\ \A w \in Workers : Return(w) => Stays(w)
      /\ \A w \in Workers : \A p, e : Begin(w, p, e) => Stays(w) /\ worker[w].pc = "idle"
  BY PutStays DEF Go, Return, Begin, At
<1>c. \A w \in Workers : \A p, c, q : Claim(w, p, c, q) /\ p # "pushRing" => Mute(w)
  BY <1>p DEF Claim, At, Mute
<1>1. CASE UNCHANGED vars
  BY <1>1 DEF vars, Voiced, In
<1>2. CASE Pay \/ Dashboard \/ \E c \in Keys : Lapse(c)
  BY <1>2 DEF Pay, Dashboard, Lapse, history, Voiced, In
<1>3. ASSUME NEW w \in Workers, NEW ev \in Events, Deliver(w, ev) PROVE Voiced'
  BY <1>p, <1>m, <1>3 DEF Deliver, Mute
<1>4. ASSUME NEW w \in Workers,
             Net(w) \/ PushNet(w) \/ PushRetry(w) \/ Terminate(w) \/ Ship(w)
      PROVE  Voiced'
  BY <1>p, <1>m, <1>4 DEF Net, PushNet, PushRetry, Terminate, Ship, Mute
<1>5. ASSUME NEW w \in Workers, Fulfil(w) PROVE Voiced'
  <2>1. CASE Begin(w, "shipWrite", None)
    BY <1>p, <1>m, <1>5, <2>1 DEF Fulfil, Mute
  <2>2. CASE UNCHANGED worker
    BY <1>5, <2>2 DEF Fulfil, Voiced, In
  <2> QED
    BY <1>5, <2>1, <2>2 DEF Fulfil
<1>6. ASSUME NEW w \in Workers, Crash(w) \/ PushRing(w) PROVE Voiced'
  <2>1. Stays(w) /\ told' \in {told, "yes", "lost"} /\ (worker[w].pc = "pushRing" => told' # "no")
    BY <1>p, <1>6, PutStays DEF Crash, PushRing, Unheard, At
  <2> QED
    BY <2>1 DEF Stays, Voiced, In
<1>7. ASSUME NEW w \in Workers, Settle(w) PROVE Voiced'
  <2>1. Mute(w)
    BY <1>p, <1>c, <1>7, PutStays
    DEF Settle, ClaimSettle, Find, Create, BurnRead, BurnWrite, At, Mute
  <2> QED
    BY <1>m, <2>1
<1>8. ASSUME NEW w \in Workers, Push(w), ~PushRing(w) PROVE Voiced'
  <2>1. CASE PushRead(w) \/ PushSkip(w) \/ PushGiveUp(w) \/ PushStamp(w) \/ PushCall(w)
    BY <1>p, <1>m, <2>1 DEF PushRead, PushSkip, PushGiveUp, PushStamp, PushCall, At, Mute
  <2>2. CASE PushVerify(w) \/ PushKeep(w) \/ PushUnship(w) \/ PushRevert(w) \/ PushBlank(w)
    BY <1>p, <1>m, <2>2 DEF PushVerify, PushKeep, PushUnship, PushRevert, PushBlank, At, Mute
  <2> QED
    BY <1>8, <2>1, <2>2 DEF Push
<1>9. ASSUME NEW w \in Workers, Reconcile(w) PROVE Voiced'
  <2>1. Mute(w)
    BY <1>p, <1>c, <1>9, PutStays
    DEF Reconcile, Read, ClaimReconcile, Flip, AfterFlip, RestoreRead, RestoreWrite,
        StoreCancel, Mark, At, Mute
  <2> QED
    BY <1>m, <2>1
<1>10. ASSUME NEW w \in Workers, Rancher(w) PROVE Voiced'
  <2>1. Mute(w)
    BY <1>p, <1>c, <1>10, PutStays
    DEF Rancher, ClaimTerminate, TermFlip, TermRefund, Refunded, TermRevert, ClaimShip,
        ShipWrite, At, Mute
  <2> QED
    BY <1>m, <2>1
<1> QED
  BY <1>1, <1>2, <1>3, <1>4, <1>5, <1>6, <1>7, <1>8, <1>9, <1>10 DEF Next, Step

\* An invocation goes to p; it may go there beside the others.
Went(w, p) ==
  /\ worker'[w].pc = p /\ \A v \in Workers \ {w} : worker'[v] = worker[v]
  /\ crossed' = "no" =>
       /\ crossed = "no"
       /\ \A u, v \in Workers : worker'[u].pc \in Terminating => worker'[v].pc # "pushSkip"

LEMMA PutWent ==
  ASSUME TypeOK, NEW w \in Workers, NEW x, Put(w, x)
  PROVE  Went(w, x.pc)
<1>1. worker' = [worker EXCEPT ![w] = x] /\ worker'[w] = x
  BY DEF Put, TypeOK
<1>2. \A v \in Workers \ {w} : worker'[v] = worker[v]
  BY <1>1 DEF TypeOK
<1>3. crossed' = IF Overlap(worker') THEN "yes" ELSE crossed
  BY <1>1 DEF Put
<1>4. crossed' = "no" => crossed = "no" /\ ~Overlap(worker')
  BY <1>3
<1> HIDE DEF Overlap
<1>5. ~Overlap(worker') => \A u, v \in Workers : worker'[u].pc \in Terminating => worker'[v].pc # "pushSkip"
  BY DEF Overlap
<1> QED
  BY <1>1, <1>2, <1>4, <1>5 DEF Went

LEMMA GoWent ==
  ASSUME TypeOK, NEW w \in Workers, NEW p, Go(w, p) PROVE Went(w, p)
<1> DEFINE x == [worker[w] EXCEPT !.pc = p]
<1>1. x.pc = p
  BY DEF TypeOK
<1>2. Put(w, x)
  BY DEF Go
<1> HIDE DEF x
<1> QED
  BY <1>1, <1>2, PutWent

LEMMA ReturnWent == ASSUME TypeOK, NEW w \in Workers, Return(w) PROVE Went(w, "idle")
  BY PutWent DEF Return, Idle

LEMMA BeginWent ==
  ASSUME TypeOK, NEW w \in Workers, NEW p, NEW e, Begin(w, p, e)
  PROVE  Went(w, p) /\ worker[w].pc = "idle"
<1> DEFINE x == [Idle EXCEPT !.pc = p, !.ev = e]
<1>1. x.pc = p
  BY DEF Idle
<1>2. Put(w, x)
  BY DEF Begin
<1> HIDE DEF x
<1> QED
  BY <1>1, <1>2, PutWent DEF Begin, At

\* What a step must not do to the row, the store and the places of the others.
LEMMA SuppliedKept ==
  ASSUME Supplied, Voiced => Voiced', NEW w \in Workers, NEW p, Went(w, p), claims \subseteq claims',
         charge' # "returned" => inbox' \subseteq inbox,
         charge' # "returned" => charge # "returned",
         p \in Settling =>
           worker[w].pc \in Settling \/ ("settle" \notin claims /\ "settle" \in claims'),
         order'.status = "none" => order.status = "none",
         order.status = "none" /\ order'.status # "none" => worker[w].pc = "create" /\ p # "create",
         Made(worker'[w], order'.status),
         p \in Reconciling \cup {"read"} =>
           worker[w].pc \in Reconciling \cup {"read"} \/ charge' = "returned",
         store # "none" => store' # "none",
         store' = "none" => /\ order'.ext \in {"no", order.ext}
                            /\ p \in Sent => worker[w].pc \in Sent
                            /\ charge' # "returned" =>
                                 order'.push \in Nominable \cup GivenUp \cup {order.push},
         order'.push = "failed" => order.push = "failed" \/ p = "pushRing",
         charge' # "returned" =>
           /\ order'.push = "skipped" =>
                order.push = "skipped" \/ worker[w].pc = "pushSkip" \/ p = "pushRing"
           /\ p = "pushSkip" => order'.status # "New"
           /\ p \in Terminating => worker[w].pc \in Terminating \/ order.status = "New"
           /\ order'.status = "New" =>
                order.status = "New" \/ worker[w].pc \in {"create", "termRevert"}
           /\ worker[w].pc = "create" => order'.push # "skipped"
  PROVE  Supplied'
<1>1. One(Settling, "settle")'
  BY DEF Supplied, Begun, One, Went
<1>2. \A v \in Workers : Made(worker'[v], order'.status)
  <2> SUFFICES ASSUME NEW v \in Workers \ {w} PROVE Made(worker[v], order'.status)
    BY DEF Went
  <2>1. Made(worker[v], order.status)
    BY DEF Supplied, Begun
  <2>2. worker[w].pc = "create" => worker[v].pc # "create"
    BY DEF Supplied, Begun, One, Settling
  <2> QED
    BY <2>1, <2>2 DEF Made
<1>3. Unsent'
  BY DEF Supplied, Unsent, In, Went
<1>4. Unasked'
  BY DEF Supplied, Unasked, In, Went
<1>v. p = "pushRing" => Voiced'
  BY DEF Voiced, In, Went
<1>5. Failed'
  BY <1>v DEF Supplied, Failed
<1>6. Skips'
  <2> SUFFICES ASSUME crossed' = "no", charge' # "returned", ~Voiced', ~Voiced,
                      order'.push = "skipped" \/ In({"pushSkip"})'
               PROVE  order'.status # "New" /\ ~In(Terminating)'
    BY DEF Skips
  <2>1. crossed = "no" /\ charge # "returned"
    BY DEF Went
  <2>2. CASE order.push = "skipped" \/ In({"pushSkip"})
    <3>1. order.status # "New" /\ ~In(Terminating)
      BY <2>1, <2>2 DEF Supplied, Skips
    <3>2. ~In(Terminating)'
      BY <3>1 DEF In, Went
    <3>3. worker[w].pc # "termRevert"
      BY <3>1 DEF In, Terminating
    <3>4. worker[w].pc = "create" => order'.status # "New"
      <4> SUFFICES ASSUME worker[w].pc = "create" PROVE order'.status # "New"
        OBVIOUS
      <4>1. ~In({"pushSkip"})
        BY DEF Supplied, Begun, Made, In, After, Pushing
      <4>2. p = "pushSkip"
        BY <4>1 DEF In, Went
      <4> QED
        BY <4>2
    <3> QED
      BY <3>1, <3>2, <3>3, <3>4
  <2>3. CASE ~(order.push = "skipped" \/ In({"pushSkip"}))
    <3>1. worker[w].pc # "pushSkip"
      BY <2>3 DEF In
    <3>2. p = "pushSkip"
      BY <1>v, <2>3, <3>1 DEF In, Went
    <3> QED
      BY <3>2 DEF In, Went
  <2> QED
    BY <2>2, <2>3
<1> QED
  BY <1>1, <1>2, <1>3, <1>4, <1>5, <1>6 DEF Supplied, Begun

\* A step that only moves on.
LEMMA SuppliedMoves ==
  ASSUME Supplied, Voiced => Voiced', NEW w \in Workers, NEW p, Went(w, p), claims \subseteq claims',
         charge' # "returned" => inbox' \subseteq inbox,
         UNCHANGED <<charge, order, store>>,
         p \in Settling =>
           worker[w].pc \in Settling \/ ("settle" \notin claims /\ "settle" \in claims'),
         Made(worker'[w], order.status),
         p \in Reconciling \cup {"read"} =>
           worker[w].pc \in Reconciling \cup {"read"} \/ charge = "returned",
         p \in Sent => store # "none" \/ worker[w].pc \in Sent,
         p = "pushSkip" => order.status # "New",
         p \in Terminating => worker[w].pc \in Terminating \/ order.status = "New"
  PROVE  Supplied'
<1>1. One(Settling, "settle")'
  BY DEF Supplied, Begun, One, Went
<1>2. \A v \in Workers : Made(worker'[v], order'.status)
  BY DEF Supplied, Begun, Went
<1>3. Unsent'
  BY DEF Supplied, Unsent, In, Went
<1>4. Unasked'
  BY DEF Supplied, Unasked, In, Went
<1>5. Failed'
  BY DEF Supplied, Failed
<1>6. Skips'
  BY DEF Supplied, Skips, In, Went
<1> QED
  BY <1>1, <1>2, <1>3, <1>4, <1>5, <1>6 DEF Supplied, Begun

\* A handler that answers.
LEMMA ReturnSupplied ==
  ASSUME TypeOK, Supplied, Voiced => Voiced', NEW w \in Workers, Return(w), UNCHANGED <<charge, order, store, claims>>
  PROVE  Supplied'
<1>1. Went(w, "idle") /\ worker'[w].pc = "idle" /\ inbox' \subseteq inbox
  BY ReturnWent DEF Return, Went
<1> QED
  BY <1>1, SuppliedMoves DEF Made, Settling, After, Reconciling, Sent, Terminating, Pushing, Shipping

\* A step that goes to a place without conditions of its own.
Middle == {"pushRead", "pushStamp", "pushBare", "pushRevert", "pushBlank", "pushNoSku",
           "pushFail", "pushRing"}
LEMMA MiddleSupplied ==
  ASSUME TypeOK, Supplied, Voiced => Voiced', NEW w \in Workers, NEW p, Went(w, p),
         UNCHANGED <<charge, inbox, order, store, claims>>,
         \/ p = "burnWrite" /\ worker[w].pc = "burnRead"
         \/ p \in Middle /\ worker[w].pc \in After
         \/ p \in Reconciling /\ worker[w].pc \in Reconciling
         \/ p \in Terminating /\ worker[w].pc \in Terminating
         \/ p \in Shipping /\ worker[w].pc \in Shipping
         \/ p = "idle"
  PROVE  Supplied'
<1>1. Made(worker[w], order.status)
  BY DEF Supplied, Begun
<1>2. worker'[w].pc = p
  BY DEF Went
<1>3. worker[w].pc \in After /\ p \in After => Made(worker'[w], order.status)
  BY <1>1, <1>2 DEF Middle, Made, After, Pushing, Reconciling, Terminating, Shipping
<1>4. Made(worker'[w], order.status)
  BY <1>2, <1>3 DEF Middle, Made, After, Pushing, Reconciling, Terminating, Shipping
<1>5. p \in Settling => worker[w].pc \in Settling
  BY DEF Middle, Settling, Pushing, Reconciling, Terminating, Shipping
<1>6. p \in Reconciling \cup {"read"} => worker[w].pc \in Reconciling
  BY DEF Middle, Pushing, Reconciling, Terminating, Shipping
<1>7. p \in Terminating => worker[w].pc \in Terminating
  BY DEF Middle, Pushing, Reconciling, Terminating, Shipping
<1>8. p \notin Sent /\ p # "pushSkip"
  BY DEF Middle, Sent, Pushing, Reconciling, Terminating, Shipping
<1> QED
  BY <1>4, <1>5, <1>6, <1>7, <1>8, SuppliedMoves

LEMMA SettleSupplied ==
  ASSUME TypeOK, Supplied, Voiced => Voiced', NEW w \in Workers, Settle(w) PROVE Supplied'
<1>0. Made(worker[w], order.status) /\ order \in Row
  BY DEF Supplied, Begun, TypeOK
<1>1. CASE ClaimSettle(w)
  <2>1. CASE "settle" \in claims
    BY <1>1, <2>1, ReturnSupplied DEF ClaimSettle, Claim
  <2>2. CASE "settle" \notin claims
    <3>1. Went(w, "find") /\ worker'[w].pc = "find" /\ claims' = claims \cup {"settle"}
          /\ UNCHANGED <<charge, inbox, order, store>>
      BY <1>1, <2>2, GoWent DEF ClaimSettle, Claim, Went
    <3> QED
      BY <2>2, <3>1, SuppliedMoves
      DEF Made, Settling, After, Reconciling, Sent, Terminating, Pushing, Shipping
  <2> QED
    BY <2>1, <2>2
<1>2. CASE Find(w)
  <2>1. CASE order.status # "none"
    BY <1>2, <2>1, ReturnSupplied DEF Find
  <2>2. CASE order.status = "none"
    <3>1. Went(w, "create") /\ worker'[w].pc = "create" /\ worker[w].pc = "find"
          /\ UNCHANGED <<charge, inbox, order, store, claims>>
      BY <1>2, <2>2, GoWent DEF Find, Went, At
    <3> QED
      BY <2>2, <3>1, SuppliedMoves
      DEF Made, Settling, After, Reconciling, Sent, Terminating, Pushing, Shipping
  <2> QED
    BY <2>1, <2>2
<1>3. CASE Create(w)
  <2>1. Went(w, "burnRead") /\ worker'[w].pc = "burnRead" /\ worker[w].pc = "create"
        /\ UNCHANGED <<charge, inbox, store, claims>>
    BY <1>3, GoWent DEF Create, Went, At, stripe
  <2>2. order'.status = "New" /\ order'.ext = "no" /\ order'.push = ""
    BY <1>3 DEF Create, Absent
  <2>3. order'.push \in Nominable /\ order'.push \notin {"skipped", "failed"}
    BY <2>2 DEF Nominable
  <2>4. order.status = "none"
    BY <1>0, <2>1 DEF Made
  <2> HIDE DEF Nominable
  <2>5. Made(worker'[w], order'.status)
    BY <2>1, <2>2 DEF Made
  <2> QED
    BY <2>1, <2>2, <2>3, <2>4, <2>5, SuppliedKept
    DEF Settling, Reconciling, Sent, Terminating
<1>4. CASE BurnRead(w)
  <2>1. worker[w].pc \in After
    BY <1>4 DEF BurnRead, At, After
  <2>2. Went(w, "burnWrite") \/ Went(w, "pushRead")
    <3> DEFINE x == [worker[w] EXCEPT !.pc = "burnWrite", !.left = left]
    <3>1. x.pc = "burnWrite"
      BY DEF TypeOK
    <3> HIDE DEF x
    <3>2. Put(w, x) => Went(w, "burnWrite")
      BY <3>1, PutWent
    <3>3. Put(w, x) \/ Go(w, "pushRead")
      BY <1>4 DEF BurnRead, x
    <3> QED
      BY <3>2, <3>3, GoWent
  <2>3. worker[w].pc = "burnRead" /\ UNCHANGED <<charge, inbox, order, store, claims>>
    BY <1>4 DEF BurnRead, At, stripe
  <2>4. Went(w, "burnWrite") => Supplied'
    BY <2>3, MiddleSupplied
  <2>5. Went(w, "pushRead") => Supplied'
    BY <2>1, <2>3, MiddleSupplied DEF Middle
  <2> QED
    BY <2>2, <2>4, <2>5
<1>5. CASE BurnWrite(w)
  <2>1. worker[w].pc \in After
    BY <1>5 DEF BurnWrite, At, After
  <2> QED
    BY <1>5, <2>1, GoWent, MiddleSupplied DEF BurnWrite, Middle, stripe
<1> QED
  BY <1>1, <1>2, <1>3, <1>4, <1>5 DEF Settle

\* Only PushRead goes to pushSkip, only a call that placed an order goes to Sent, and
\* whoever gives up goes on to say so.
LEMMA PushSupplied ==
  ASSUME TypeOK, Supplied, Voiced => Voiced', NEW w \in Workers, Push(w) PROVE Supplied'
<1>0. Made(worker[w], order.status) /\ order \in Row
  BY DEF Supplied, Begun, TypeOK
\* The row's push status alone changes.
<1>g. ASSUME NEW p \in Pushing \cup {"idle"}, Went(w, p), UNCHANGED <<charge, claims>>,
             worker[w].pc \in Pushing, inbox' \subseteq inbox,
             order'.status = order.status, store # "none" => store' # "none",
             store' = "none" => /\ order'.ext = order.ext /\ p \notin Sent
                                /\ order'.push \in Nominable \cup GivenUp \cup {order.push},
             order'.push \in GivenUp =>
               order' = order \/ p = "pushRing" \/ (order'.push = "skipped" /\ worker[w].pc = "pushSkip"),
             p = "pushSkip" => order.status # "New"
      PROVE  Supplied'
  <2>1. worker'[w].pc = p
    BY <1>g DEF Went
  <2>2. Made(worker'[w], order'.status)
    BY <1>0, <1>g, <2>1 DEF Made, After, Pushing
  <2>3. p \notin Settling \cup Reconciling \cup {"read"} \cup Terminating /\ worker[w].pc # "create"
    BY <1>g DEF Settling, Reconciling, Terminating, Pushing
  <2>4. /\ order'.push = "skipped" =>
             order.push = "skipped" \/ worker[w].pc = "pushSkip" \/ p = "pushRing"
        /\ order'.push = "failed" => order.push = "failed" \/ p = "pushRing"
    BY <1>g DEF GivenUp
  <2> HIDE DEF Nominable, GivenUp
  <2> QED
    BY <1>g, <2>2, <2>3, <2>4, SuppliedKept
<1>r. Return(w) => Went(w, "idle") /\ inbox' \subseteq inbox
  BY ReturnWent DEF Return
\* The row is left as it is.
<1>u. ASSUME NEW p \in Middle \cup {"pushSkip", "idle"}, Went(w, p),
             UNCHANGED <<charge, order, store, claims>>, worker[w].pc \in Pushing,
             inbox' \subseteq inbox, p = "pushSkip" => order.status # "New"
      PROVE  Supplied'
  <2>1. p \in Pushing \cup {"idle"} /\ p \notin Sent
    BY DEF Middle, Pushing, Sent
  <2> HIDE DEF Nominable, GivenUp
  <2> QED
    BY <1>g, <1>u, <2>1
\* A stamp is written or not.
<1>s. ASSUME NEW q \in {"", "skipped", "failed", "pushing"}, Stamp(q),
             NEW p \in {"idle", "pushRing"}, Went(w, p), UNCHANGED <<charge, store, claims>>,
             worker[w].pc \in Pushing, inbox' \subseteq inbox,
             q \in GivenUp => p = "pushRing" \/ (q = "skipped" /\ worker[w].pc = "pushSkip")
      PROVE  Supplied'
  <2>1. CASE order' = order
    BY <1>s, <1>u, <2>1 DEF Middle
  <2>2. CASE order' = [order EXCEPT !.push = q]
    <3>1. order'.status = order.status /\ order'.ext = order.ext /\ order'.push = q
      BY <1>0, <2>2 DEF Row
    <3>2. order'.push \in Nominable \cup GivenUp
      BY <3>1 DEF Nominable, GivenUp
    <3>3. p \in Pushing \cup {"idle"} /\ p \notin Sent /\ p # "pushSkip"
      BY DEF Pushing, Sent
    <3> HIDE DEF Nominable, GivenUp
    <3> QED
      BY <1>g, <1>s, <3>1, <3>2, <3>3
  <2> QED
    BY <1>s, <2>1, <2>2 DEF Stamp
<1>1. CASE PushRead(w)
  <2>0. worker[w].pc = "pushRead" /\ UNCHANGED <<charge, order, store, claims>>
    BY <1>1 DEF PushRead, At
  <2>1. CASE Return(w)
    BY <1>r, <1>u, <2>0, <2>1 DEF Pushing
  <2>2. CASE Go(w, "pushSkip") /\ order.status # "New" /\ UNCHANGED inbox
    BY <1>u, <2>0, <2>2, GoWent DEF Pushing
  <2>3. ASSUME NEW p \in {"pushStamp", "pushNoSku", "pushRing"}, Go(w, p), UNCHANGED inbox
        PROVE  Supplied'
    BY <1>u, <2>0, <2>3, GoWent DEF Pushing, Middle
  <2> QED
    BY <1>1, <2>1, <2>2, <2>3 DEF PushRead
<1>2. CASE PushSkip(w)
  <2>1. worker[w].pc = "pushSkip" /\ Stamp("skipped") /\ Return(w) /\ UNCHANGED <<charge, store, claims>>
    BY <1>2 DEF PushSkip, At
  <2> QED
    BY <1>r, <1>s, <2>1 DEF Pushing
<1>3. CASE PushStamp(w)
  <2>0. worker[w].pc = "pushStamp" /\ UNCHANGED <<charge, inbox, store, claims>>
    BY <1>3 DEF PushStamp, At, stripe
  <2>1. CASE order' = [order EXCEPT !.push = "pushing"] /\ Go(w, "pushCall")
    <3>1. order'.status = order.status /\ order'.ext = order.ext /\ order'.push = "pushing"
      BY <1>0, <2>1 DEF Row
    <3>2. order'.push \in Nominable /\ order'.push \notin GivenUp
      BY <3>1 DEF Nominable, GivenUp
    <3>3. Went(w, "pushCall") /\ "pushCall" \in Pushing /\ "pushCall" \notin Sent
      BY <2>1, GoWent DEF Pushing, Sent
    <3>4. worker[w].pc \in Pushing
      BY <2>0 DEF Pushing
    <3> HIDE DEF Nominable, GivenUp
    <3> QED
      BY <1>g, <2>0, <3>1, <3>2, <3>3, <3>4
  <2>2. CASE UNCHANGED order /\ Go(w, "pushBare")
    BY <1>u, <2>0, <2>2, GoWent DEF Pushing, Middle
  <2> QED
    BY <1>3, <2>1, <2>2 DEF PushStamp
<1>4. CASE PushCall(w)
  <2>0. /\ worker[w].pc \in {"pushCall", "pushBare"} /\ UNCHANGED <<charge, order, claims>>
        /\ store # "none" => store' # "none"
    BY <1>4 DEF PushCall, At
  <2>1. ASSUME NEW p \in {"pushVerify", "pushRevert", "pushFail", "idle"}, Went(w, p),
               inbox' \subseteq inbox, p = "pushVerify" => store' # "none"
        PROVE  Supplied'
    <3>1. p \in Pushing \cup {"idle"} /\ worker[w].pc \in Pushing /\ p # "pushSkip"
          /\ (store' = "none" => p \notin Sent)
      BY <2>0, <2>1 DEF Pushing, Sent
    <3> HIDE DEF Nominable, GivenUp
    <3> QED
      BY <1>g, <2>0, <2>1, <3>1
  <2>2. (IF store = "none" THEN "live" ELSE store) # "none"
    OBVIOUS
  <2>3. PICK p \in {"pushVerify", "pushRevert", "pushFail", "idle"} :
          /\ IF p = "idle" THEN Return(w) ELSE Go(w, p) /\ UNCHANGED inbox
          /\ p = "pushVerify" => store' # "none"
    BY <1>4, <2>2 DEF PushCall
  <2> QED
    BY <1>r, <2>1, <2>3, GoWent
<1>w. ASSUME worker[w].pc \in Sent PROVE store # "none"
  BY <1>w DEF Supplied, Unsent, In
<1>5. CASE PushVerify(w)
  <2>0. worker[w].pc = "pushVerify" /\ UNCHANGED <<charge, store, claims>> /\ store # "none"
    BY <1>5, <1>w DEF PushVerify, At, Sent
  <2>1. ASSUME NEW p \in {"pushUnship", "pushKeep", "idle"}, Went(w, p), inbox' \subseteq inbox,
               order' = order \/ (order'.status = order.status /\ order'.push \notin GivenUp)
        PROVE  Supplied'
    <3>1. p \in Pushing \cup {"idle"} /\ worker[w].pc \in Pushing /\ p # "pushSkip"
      BY <2>0 DEF Pushing
    <3> HIDE DEF Nominable, GivenUp
    <3> QED
      BY <1>g, <2>0, <2>1, <3>1
  <2>2. [order EXCEPT !.ext = "yes", !.push = "pushing"].status = order.status
        /\ [order EXCEPT !.ext = "yes", !.push = "pushing"].push \notin GivenUp
    BY <1>0 DEF Row, GivenUp
  <2>3. PICK p \in {"pushUnship", "pushKeep", "idle"} :
          /\ IF p = "idle" THEN Return(w) ELSE Go(w, p) /\ UNCHANGED <<inbox, order>>
          /\ order' \in {order, [order EXCEPT !.ext = "yes", !.push = "pushing"]}
    BY <1>5 DEF PushVerify
  <2> QED
    BY <1>r, <2>1, <2>2, <2>3, GoWent
<1>i. ASSUME Return(w), worker[w].pc \in Sent, UNCHANGED <<charge, claims>>,
             store' # "none",
             order' = order \/ (order'.status = order.status /\ order'.push \notin GivenUp)
      PROVE  Supplied'
  <2>1. worker[w].pc \in Pushing /\ "idle" # "pushSkip"
    BY <1>i DEF Sent, Pushing
  <2> HIDE DEF Nominable, GivenUp
  <2> QED
    BY <1>g, <1>i, <1>r, <2>1
<1>6. CASE PushKeep(w)
  <2>0. /\ worker[w].pc = "pushKeep" /\ Return(w) /\ UNCHANGED <<charge, store, claims>>
        /\ store # "none"
    BY <1>6, <1>w DEF PushKeep, At, Sent
  <2>1. order' = order \/ (order'.status = order.status /\ order'.push \in {"pushed", "unstamped"})
    BY <1>0, <1>6 DEF PushKeep, Row
  <2> QED
    BY <1>i, <2>0, <2>1 DEF Sent, GivenUp
<1>7. CASE PushUnship(w)
  <2>0. /\ worker[w].pc = "pushUnship" /\ Return(w) /\ UNCHANGED <<charge, claims>>
        /\ store # "none"
    BY <1>7, <1>w DEF PushUnship, At, Sent
  <2>1. /\ order' = order \/ (order'.status = order.status /\ order'.push \in {"cancelled", "cancel-failed"})
        /\ store' # "none"
    BY <1>0, <1>7, <2>0 DEF PushUnship, CancelOrder, Row
  <2> QED
    BY <1>i, <2>0, <2>1 DEF Sent, GivenUp
<1>8. CASE PushRevert(w)
  <2>0. worker[w].pc = "pushRevert" /\ UNCHANGED <<charge, order, store, claims>>
    BY <1>8 DEF PushRevert, At
  <2>1. Return(w) \/ (Go(w, "pushBlank") /\ UNCHANGED inbox)
    BY <1>8 DEF PushRevert
  <2> QED
    BY <1>r, <1>u, <2>0, <2>1, GoWent DEF Pushing, Middle
<1>9. CASE PushBlank(w)
  <2>0. worker[w].pc = "pushBlank" /\ Return(w) /\ Stamp("") /\ UNCHANGED <<charge, store, claims>>
    BY <1>9 DEF PushBlank, At
  <2>1. "" \notin GivenUp /\ worker[w].pc \in Pushing
    BY <2>0 DEF GivenUp, Pushing
  <2> QED
    BY <1>r, <1>s, <2>0, <2>1
<1>10. CASE PushGiveUp(w)
  <2>0. /\ worker[w].pc \in Pushing /\ UNCHANGED <<charge, store, claims>>
        /\ Went(w, "pushRing") /\ inbox' \subseteq inbox
        /\ Stamp("skipped") \/ Stamp("failed")
    BY <1>10, GoWent DEF PushGiveUp, At, stripe, Pushing
  <2> QED
    BY <1>s, <2>0
<1>11. CASE PushRing(w)
  <2>0. worker[w].pc = "pushRing" /\ Return(w) /\ UNCHANGED <<charge, order, store, claims>>
    BY <1>11 DEF PushRing, At
  <2> QED
    BY <1>r, <1>u, <2>0 DEF Pushing
<1> QED
  BY <1>1, <1>2, <1>3, <1>4, <1>5, <1>6, <1>7, <1>8, <1>9, <1>10, <1>11 DEF Push

\* A reconcile runs only once money went back; it leaves the row a row, and the
\* store and its id as they were or cancelled.
LEMMA ReconcileSupplied ==
  ASSUME TypeOK, Supplied, Voiced => Voiced', NEW w \in Workers, Reconcile(w) PROVE Supplied'
<1>0. Made(worker[w], order.status) /\ order \in Row
  BY DEF Supplied, Begun, TypeOK
<1>1. worker[w].pc \in Reconciling \cup {"read"}
  BY DEF Reconcile, Read, ClaimReconcile, Claim, Flip, RestoreRead, RestoreWrite, StoreCancel,
     Mark, At, Reconciling
<1>2. charge = "returned"
  BY <1>1 DEF Supplied, Unasked, In
<1>g. ASSUME NEW p \in Reconciling \cup {"idle"}, Went(w, p), UNCHANGED charge, claims \subseteq claims',
             order.status # "none" \/ p = "idle",
             order.status = "none" <=> order'.status = "none",
             store # "none" => store' # "none", store' = "none" => order'.ext = order.ext,
             order'.push = "failed" => order.push = "failed"
      PROVE  Supplied'
  <2>1. worker'[w].pc = p
    BY <1>g DEF Went
  <2>2. Made(worker'[w], order'.status)
    BY <1>g, <2>1 DEF Made, After, Pushing, Reconciling, Terminating, Shipping
  <2>3. p \notin Settling \cup Sent
    BY DEF Reconciling, Settling, Sent
  <2> QED
    BY <1>1, <1>2, <1>g, <2>2, <2>3, SuppliedKept
<1>m. worker[w].pc \in Reconciling => order.status # "none"
  BY <1>0 DEF Made, After
<1>3. CASE Read(w)
  <2>0. UNCHANGED <<charge, order, store, claims>>
    BY <1>3 DEF Read
  <2>1. CASE Return(w)
    BY <2>0, <2>1, ReturnSupplied
  <2>2. CASE order.status # "none" /\ Put(w, [worker[w] EXCEPT !.pc = "rclaim", !.saw = order])
    <3> DEFINE x == [worker[w] EXCEPT !.pc = "rclaim", !.saw = order]
    <3>1. x.pc = "rclaim"
      BY DEF TypeOK
    <3>2. Put(w, x)
      BY <2>2
    <3> HIDE DEF x
    <3>3. Went(w, "rclaim")
      BY <3>1, <3>2, PutWent
    <3> QED
      BY <1>g, <2>0, <2>2, <3>3 DEF Reconciling
  <2> QED
    BY <1>3, <2>1, <2>2 DEF Read
<1>4. CASE ClaimReconcile(w)
  <2>1. CASE "reconcile" \in claims
    BY <1>4, <2>1, ReturnSupplied DEF ClaimReconcile, Claim
  <2>2. CASE "reconcile" \notin claims
    <3>1. Went(w, "flip") /\ claims' = claims \cup {"reconcile"} /\ UNCHANGED <<charge, order, store>>
          /\ worker[w].pc = "rclaim"
      BY <1>4, <2>2, GoWent DEF ClaimReconcile, Claim, At
    <3> QED
      BY <1>g, <1>m, <3>1 DEF Reconciling
  <2> QED
    BY <2>1, <2>2
<1>5. CASE Flip(w)
  <2>1. /\ worker[w].pc = "flip" /\ UNCHANGED <<charge, store, claims>>
        /\ order' \in {order, [order EXCEPT !.status = "Refunded"]}
    BY <1>5 DEF Flip, At
  <2>2. order.status # "none" /\ order'.status # "none" /\ order'.ext = order.ext
        /\ order'.push = order.push
    BY <1>0, <1>m, <2>1 DEF Row, Reconciling
  <2>3. Went(w, "restoreRead") \/ Went(w, "idle")
    BY <1>5, GoWent, ReturnWent DEF Flip, AfterFlip
  <2> QED
    BY <1>g, <2>1, <2>2, <2>3 DEF Reconciling
<1>6. CASE RestoreRead(w)
  <2>0. worker[w].pc = "restoreRead" /\ UNCHANGED <<charge, order, store, claims>>
    BY <1>6 DEF RestoreRead, At, stripe
  <2> DEFINE x == [worker[w] EXCEPT !.pc = "restoreWrite", !.left = left]
  <2>1. x.pc = "restoreWrite"
    BY DEF TypeOK
  <2>2. Put(w, x) \/ Go(w, "storeCancel")
    BY <1>6 DEF RestoreRead
  <2> HIDE DEF x
  <2>3. Went(w, "restoreWrite") \/ Went(w, "storeCancel")
    BY <2>1, <2>2, PutWent, GoWent
  <2> QED
    BY <1>g, <1>m, <2>0, <2>3 DEF Reconciling
<1>7. CASE RestoreWrite(w)
  <2>0. worker[w].pc = "restoreWrite" /\ UNCHANGED <<charge, order, store, claims>>
    BY <1>7 DEF RestoreWrite, At, stripe
  <2>1. Went(w, "storeCancel")
    BY <1>7, GoWent DEF RestoreWrite
  <2> QED
    BY <1>g, <1>m, <2>0, <2>1 DEF Reconciling
<1>8. CASE StoreCancel(w)
  <2>0. worker[w].pc = "storeCancel" /\ UNCHANGED <<charge, claims>>
    BY <1>8 DEF StoreCancel, At, stripe
  <2>1. Went(w, "mark")
    BY <1>8, GoWent DEF StoreCancel
  <2>2. order'.status = order.status /\ order'.ext = order.ext /\ (store # "none" => store' # "none")
        /\ (order'.push = "failed" => order.push = "failed")
    BY <1>0, <1>8 DEF StoreCancel, CancelOrder, Row
  <2> QED
    BY <1>g, <1>m, <2>0, <2>1, <2>2 DEF Reconciling
<1>9. CASE Mark(w)
  <2>0. worker[w].pc = "mark" /\ UNCHANGED <<charge, store, claims>>
    BY <1>9 DEF Mark, At
  <2>1. Went(w, "idle")
    BY <1>9, ReturnWent DEF Mark
  <2>2. order'.status = order.status /\ order'.ext = order.ext /\ order'.push = order.push
    BY <1>0, <1>9 DEF Mark, Row
  <2> QED
    BY <1>g, <1>m, <2>0, <2>1, <2>2 DEF Reconciling
<1> QED
  BY <1>3, <1>4, <1>5, <1>6, <1>7, <1>8, <1>9 DEF Reconcile

LEMMA RancherSupplied ==
  ASSUME TypeOK, Supplied, Voiced => Voiced', NEW w \in Workers, Rancher(w) PROVE Supplied'
<1>0. Made(worker[w], order.status) /\ order \in Row
  BY DEF Supplied, Begun, TypeOK
<1>c. ASSUME NEW p, NEW c \in {"terminate", "ship"}, NEW q, Claim(w, p, c, q),
             (p \in Terminating /\ q \in Terminating) \/ (p \in Shipping /\ q \in Shipping)
      PROVE  Supplied'
  <2>1. CASE c \in claims
    BY <1>c, <2>1, ReturnSupplied DEF Claim
  <2>2. CASE c \notin claims
    <3>1. Went(w, q) /\ worker[w].pc = p /\ claims' = claims \cup {c}
          /\ UNCHANGED <<charge, inbox, order, store>>
      BY <1>c, <2>2, GoWent DEF Claim, At
    <3>2. Made(worker'[w], order.status)
      BY <1>0, <1>c, <3>1 DEF Went, Made, After, Terminating, Shipping
    <3>3. q \notin Settling \cup Reconciling \cup {"read"} \cup Sent /\ q # "pushSkip"
      BY <1>c DEF Terminating, Shipping, Settling, Reconciling, Sent
    <3>4. q \in Terminating => worker[w].pc \in Terminating
      BY <1>c, <3>1 DEF Terminating, Shipping
    <3> QED
      BY <3>1, <3>2, <3>3, <3>4, SuppliedMoves
  <2> QED
    BY <2>1, <2>2
\* The row alone changes, from a row whose push nobody gave up unless the order left New.
<1>g. ASSUME NEW p \in {"termRefund", "idle"}, Went(w, p), UNCHANGED <<charge, store, claims>>,
             worker[w].pc \in Terminating \cup Shipping, inbox' \subseteq inbox,
             order'.status # "none", order'.ext = order.ext, order'.push = order.push,
             p = "termRefund" => worker[w].pc = "termFlip",
             order'.status = "New" => order.status = "New" \/ worker[w].pc = "termRevert"
      PROVE  Supplied'
  <2>1. worker'[w].pc = p
    BY <1>g DEF Went
  <2>2. Made(worker'[w], order'.status)
    BY <1>g, <2>1 DEF Made
  <2>3. p \notin Settling \cup Sent \cup Reconciling \cup {"read"} /\ p # "pushSkip"
    BY <1>g DEF Reconciling, Settling, Sent
  <2>4. worker[w].pc # "create" /\ order.status # "none"
    BY <1>0, <1>g DEF Made, After, Terminating, Shipping
  <2>5. p \in Terminating => worker[w].pc \in Terminating
    BY <1>g DEF Terminating
  <2> HIDE DEF Nominable
  <2> QED
    BY <1>g, <2>2, <2>3, <2>4, <2>5, SuppliedKept
<1>1. CASE ClaimTerminate(w)
  BY <1>1, <1>c DEF ClaimTerminate, Terminating
<1>2. CASE TermFlip(w)
  <2>0. worker[w].pc = "termFlip" /\ UNCHANGED <<charge, store, claims>>
    BY <1>2 DEF TermFlip, At
  <2>1. CASE order' = [order EXCEPT !.status = "Cancelled"] /\ Go(w, "termRefund") /\ UNCHANGED inbox
    <3>1. /\ order'.status = "Cancelled" /\ order'.ext = order.ext /\ order'.push = order.push
          /\ Went(w, "termRefund")
      BY <1>0, <2>1, GoWent DEF Row
    <3> QED
      BY <1>g, <2>0, <2>1, <3>1 DEF Terminating
  <2>2. CASE Return(w) /\ UNCHANGED order
    BY <2>0, <2>2, ReturnSupplied
  <2> QED
    BY <1>2, <2>1, <2>2 DEF TermFlip
<1>3. CASE TermRefund(w)
  <2>0. /\ worker[w].pc = "termRefund" /\ UNCHANGED <<order, store>> /\ order.status # "none"
        /\ claims \subseteq claims'
    BY <1>0, <1>3 DEF TermRefund, At, Made, After, Terminating
  <2>1. CASE charge' = "returned"
    <3> DEFINE x == [worker[w] EXCEPT !.pc = "read", !.force = "yes"]
    <3>1. x.pc = "read"
      BY DEF TypeOK
    <3>2. Put(w, x) \/ Go(w, "termRevert")
      BY <1>3 DEF TermRefund, Refunded
    <3> HIDE DEF x
    <3>3. PICK p \in {"read", "termRevert"} : Went(w, p)
      BY <3>1, <3>2, PutWent, GoWent
    <3>4. Made(worker'[w], order'.status)
      BY <2>0, <3>3 DEF Went, Made
    <3>5. p \notin Settling \cup Sent
      BY DEF Settling, Sent
    <3> QED
      BY <2>0, <2>1, <3>3, <3>4, <3>5, SuppliedKept
  <2>2. CASE Go(w, "termRevert") /\ UNCHANGED <<stripe, claims>>
    <3>1. Went(w, "termRevert") /\ UNCHANGED <<charge, inbox, claims>>
      BY <2>2, GoWent DEF stripe
    <3> QED
      BY <2>0, <3>1, MiddleSupplied DEF Terminating
  <2> QED
    BY <1>3, <2>1, <2>2 DEF TermRefund, stripe
<1>4. CASE TermRevert(w)
  <2>0. worker[w].pc = "termRevert" /\ UNCHANGED <<charge, store, claims>> /\ inbox' \subseteq inbox
    BY <1>4 DEF TermRevert, At, Return
  <2>1. order'.status = "New" /\ order'.ext = order.ext /\ order'.push = order.push /\ Went(w, "idle")
    BY <1>0, <1>4, ReturnWent DEF TermRevert, Row
  <2> QED
    BY <1>g, <2>0, <2>1 DEF Terminating
<1>5. CASE ClaimShip(w)
  BY <1>5, <1>c DEF ClaimShip, Shipping
<1>6. CASE ShipWrite(w)
  <2>0. worker[w].pc = "shipWrite" /\ UNCHANGED <<charge, store, claims>> /\ inbox' \subseteq inbox
    BY <1>6 DEF ShipWrite, At, Return
  <2>1. order'.status = "Shipped" /\ order'.ext = order.ext /\ order'.push = order.push /\ Went(w, "idle")
    BY <1>0, <1>6, ReturnWent DEF ShipWrite, Row
  <2> QED
    BY <1>g, <2>0, <2>1 DEF Shipping
<1> QED
  BY <1>1, <1>2, <1>3, <1>4, <1>5, <1>6 DEF Rancher

\* An invocation that starts.
LEMMA BeginSupplied ==
  ASSUME TypeOK, Supplied, Voiced => Voiced', NEW w \in Workers, NEW p, NEW e, Begin(w, p, e),
         UNCHANGED <<charge, inbox, order, claims>>, store # "none" => store' # "none",
         \/ p = "settle" \/ (p = "read" /\ charge = "returned")
         \/ p \in {"pushRead", "termClaim", "shipClaim", "shipWrite"} /\ order.status = "New"
  PROVE  Supplied'
<1>1. Went(w, p) /\ worker[w].pc = "idle" /\ worker'[w].pc = p
  BY BeginWent DEF Went
<1>2. Made(worker'[w], order'.status)
  BY <1>1 DEF Made, After, Pushing, Reconciling, Terminating, Shipping
<1>3. p \notin Settling \cup Sent \cup Reconciling /\ p # "pushSkip"
  BY DEF Settling, Sent, Reconciling
<1>4. p \in Terminating => order.status = "New"
  BY DEF Terminating
<1>5. p \in Reconciling \cup {"read"} => charge' = "returned"
  BY <1>3
<1> HIDE DEF Nominable
<1> QED
  BY <1>1, <1>2, <1>3, <1>4, <1>5, SuppliedKept

LEMMA StartSupplied ==
  ASSUME TypeOK, Supplied, Voiced => Voiced', NEW w \in Workers,
         \/ Net(w) \/ PushNet(w) \/ PushRetry(w)
         \/ Terminate(w) \/ Ship(w) \/ Fulfil(w) \/ Crash(w)
  PROVE  Supplied'
<1>1. CASE Net(w)
  BY <1>1, BeginSupplied DEF Net, stripe
<1>2. CASE PushNet(w)
  BY <1>2, BeginSupplied DEF PushNet, stripe
<1>r. CASE PushRetry(w)
  BY <1>r, BeginSupplied DEF PushRetry, stripe
<1>3. CASE Terminate(w)
  BY <1>3, BeginSupplied DEF Terminate, stripe
<1>4. CASE Ship(w)
  BY <1>4, BeginSupplied DEF Ship, stripe
<1>5. CASE Fulfil(w)
  <2>1. store = "live" /\ store' = "sent" /\ UNCHANGED <<charge, inbox, order, claims>>
    BY <1>5 DEF Fulfil, stripe
  <2>2. CASE Begin(w, "shipWrite", None) /\ order.status = "New"
    BY <2>1, <2>2, BeginSupplied
  <2>3. CASE UNCHANGED <<worker, crossed>>
    BY <2>1, <2>3 DEF Supplied, Begun, One, Unsent, Failed, Skips, Unasked, In
  <2> QED
    BY <1>5, <2>2, <2>3 DEF Fulfil
<1>6. CASE Crash(w)
  <2>1. Went(w, "idle") /\ UNCHANGED <<charge, inbox, order, store, claims>>
    BY <1>6, PutWent DEF Crash, stripe, Idle
  <2> QED
    BY <2>1, MiddleSupplied
<1> QED
  BY <1>1, <1>2, <1>r, <1>3, <1>4, <1>5, <1>6

\* Stripe and the keys of claimOnce.
LEMMA WorldSupplied ==
  ASSUME TypeOK, Supplied, Voiced => Voiced',
         \/ Pay \/ Dashboard \/ \E c \in Keys : Lapse(c)
         \/ \E w \in Workers, ev \in Events : Deliver(w, ev)
  PROVE  Supplied'
<1>1. CASE Pay
  <2>1. UNCHANGED <<order, store, claims, worker, crossed>> /\ charge = "none" /\ inbox' \cap Refunds = {}
    BY <1>1 DEF Pay, history, Refunds
  <2> QED
    BY <2>1 DEF Supplied, Begun, One, Unsent, Failed, Skips, Unasked, In
<1>2. CASE Dashboard
  <2>1. UNCHANGED <<order, store, claims, worker>> /\ charge' = "returned"
    BY <1>2 DEF Dashboard
  <2> QED
    BY <2>1 DEF Supplied, Begun, One, Unsent, Failed, Skips, Unasked, In
<1>3. ASSUME NEW c \in Keys, Lapse(c) PROVE Supplied'
  <2>1. /\ UNCHANGED <<charge, inbox, order, store, worker, crossed>> /\ claims' = claims \ {c}
        /\ \A w \in Workers : worker[w].pc \notin Under(c)
    BY <1>3 DEF Lapse, stripe, history
  <2>2. c = "settle" => \A w \in Workers : worker[w].pc \notin Settling
    BY <2>1 DEF Under
  <2> QED
    BY <2>1, <2>2 DEF Supplied, Begun, One, Unsent, Failed, Skips, Unasked, In
<1>4. ASSUME NEW w \in Workers, NEW ev \in Events, Deliver(w, ev) PROVE Supplied'
  <2>1. ev \in inbox /\ UNCHANGED <<charge, inbox, order, store, claims>>
    BY <1>4 DEF Deliver, stripe
  <2>2. ev # "paid" => charge = "returned"
    BY <2>1 DEF Supplied, Unasked, Events, Refunds
  <2>3. CASE ev = "paid"
    <3>1. Begin(w, "settle", ev)
      BY <1>4, <2>3 DEF Deliver
    <3> QED
      BY <2>1, <3>1, BeginSupplied
  <2>4. CASE ev # "paid"
    <3>1. Begin(w, "read", ev)
      BY <1>4, <2>4 DEF Deliver
    <3> QED
      BY <2>1, <2>2, <2>4, <3>1, BeginSupplied
  <2> QED
    BY <2>3, <2>4
<1> QED
  BY <1>1, <1>2, <1>3, <1>4

LEMMA NextSupplied == TypeOK /\ Supplied /\ [Next]_vars => Supplied'
<1> SUFFICES ASSUME TypeOK, Supplied, [Next]_vars PROVE Supplied'
  OBVIOUS
<1>v. Voiced => Voiced'
  BY VoicedKept
<1>1. CASE UNCHANGED vars
  BY <1>1, <1>v DEF vars, stripe, history, Supplied, Begun, One, Unsent, Failed, Skips, Unasked, In
<1>2. ASSUME NEW w \in Workers, Step(w) PROVE Supplied'
  BY <1>v, <1>2, SettleSupplied, PushSupplied, ReconcileSupplied, RancherSupplied DEF Step
<1> QED
  BY <1>v, <1>1, <1>2, StartSupplied, WorldSupplied DEF Next

-----------------------------------------------------------------------------
\* A push is given up because something failed; the word is lost if that fails too.
GivingUp == {"pushNoSku", "pushFail", "pushRing"}
Costly   == /\ told # "no" \/ In(GivingUp) => faults > 0
            /\ told = "lost" => faults > 1

LEMMA NextCostly == TypeOK /\ Costly /\ [Next]_vars => Costly'
<1> SUFFICES ASSUME TypeOK, Costly, [Next]_vars PROVE Costly'
  OBVIOUS
<1>0. faults \in Nat /\ (Fault => faults' = faults + 1)
  BY DEF TypeOK, Fault
<1>p. /\ \A w \in Workers : \A p : Go(w, p) => Stays(w) /\ worker'[w].pc = p
      /\ \A w \in Workers : Return(w) => Stays(w) /\ worker'[w].pc = "idle"
      /\ \A w \in Workers : \A p, e : Begin(w, p, e) => Stays(w) /\ worker'[w].pc = p
  BY GoWent, ReturnWent, BeginWent DEF Went, Stays
<1>q. \A w \in Workers : \A x : Put(w, x) => Stays(w) /\ worker'[w].pc = x.pc
  BY PutWent DEF Went, Stays
<1>t. ASSUME NEW w \in Workers, NEW p, Stays(w), worker'[w].pc = p, p \notin GivingUp,
             told' = told, faults' = faults \/ Fault
      PROVE  Costly'
  BY <1>0, <1>t DEF Stays, Costly, In
<1>g. ASSUME NEW w \in Workers, Stays(w), told' = told, Fault PROVE Costly'
  BY <1>0, <1>g DEF Costly
<1>s. ASSUME NEW w \in Workers, Stays(w), told' = told, worker[w].pc \in GivingUp,
             faults' = faults \/ Fault
      PROVE  Costly'
  BY <1>0, <1>s DEF Costly, In
<1>1. CASE UNCHANGED vars
  BY <1>1 DEF vars, Costly, In
<1>2. CASE Pay \/ Dashboard \/ \E c \in Keys : Lapse(c)
  BY <1>2 DEF Pay, Dashboard, Lapse, history, Costly, In
<1>3. ASSUME NEW w \in Workers, NEW ev \in Events, Deliver(w, ev) PROVE Costly'
  BY <1>p, <1>t, <1>3 DEF Deliver, GivingUp
<1>4. ASSUME NEW w \in Workers,
             Net(w) \/ PushNet(w) \/ PushRetry(w) \/ Terminate(w) \/ Ship(w)
      PROVE  Costly'
  <2>1. CASE Net(w)
    BY <1>p, <1>t, <2>1 DEF Net, GivingUp
  <2>2. CASE PushNet(w)
    <3>1. Begin(w, "pushRead", None) /\ told' = told /\ faults' = faults
      BY <2>2 DEF PushNet
    <3> QED
      BY <1>p, <1>t, <3>1 DEF GivingUp
  <2>3. CASE PushRetry(w)
    <3>1. Begin(w, "pushRead", None) /\ told' = told /\ faults' = faults
      BY <2>3 DEF PushRetry
    <3> QED
      BY <1>p, <1>t, <3>1 DEF GivingUp
  <2>4. CASE Terminate(w) \/ Ship(w)
    BY <1>p, <1>t, <2>4 DEF Terminate, Ship, GivingUp
  <2> QED
    BY <1>4, <2>1, <2>2, <2>3, <2>4
<1>5. ASSUME NEW w \in Workers, Fulfil(w) PROVE Costly'
  <2>1. CASE Begin(w, "shipWrite", None)
    BY <1>p, <1>t, <1>5, <2>1 DEF Fulfil, GivingUp
  <2>2. CASE UNCHANGED worker
    BY <1>5, <2>2 DEF Fulfil, Costly, In
  <2> QED
    BY <1>5, <2>1, <2>2 DEF Fulfil
<1>6. ASSUME NEW w \in Workers, Crash(w) \/ PushRing(w) PROVE Costly'
  <2>1. Stays(w) /\ worker'[w].pc = "idle"
    BY <1>p, <1>q, <1>6 DEF Crash, PushRing, Idle
  <2>2. worker[w].pc = "pushRing" => faults > 0
    BY DEF Costly, In, GivingUp
  <2>3. \/ told' = told /\ Fault
        \/ worker[w].pc = "pushRing" /\ told' = "yes" /\ faults' = faults
        \/ worker[w].pc = "pushRing" /\ told' = "lost" /\ Fault
    BY <1>6 DEF Crash, PushRing, Unheard, At
  <2> QED
    BY <1>0, <2>1, <2>2, <2>3 DEF Stays, Costly, In, GivingUp
<1>7. ASSUME NEW w \in Workers, Settle(w) PROVE Costly'
  <2>1. CASE ClaimSettle(w)
    BY <1>p, <1>t, <2>1
    DEF ClaimSettle, Claim, GivingUp
  <2>2. CASE Find(w)
    BY <1>p, <1>t, <2>2
    DEF Find, GivingUp
  <2>3. CASE Create(w) \/ BurnWrite(w)
    BY <1>p, <1>t, <2>3
    DEF Create, BurnWrite, GivingUp
  <2>4. CASE BurnRead(w)
    <3> DEFINE x == [worker[w] EXCEPT !.pc = "burnWrite", !.left = left]
    <3>1. x.pc = "burnWrite"
      BY DEF TypeOK
    <3>2. Put(w, x) \/ Go(w, "pushRead")
      BY <2>4 DEF BurnRead, x
    <3> HIDE DEF x
    <3>3. Stays(w) /\ worker'[w].pc \in {"burnWrite", "pushRead"}
      BY <1>p, <1>q, <3>1, <3>2
    <3>4. told' = told /\ (faults' = faults \/ Fault)
      BY <2>4 DEF BurnRead
    <3> QED
      BY <1>t, <3>3, <3>4 DEF GivingUp
  <2> QED
    BY <1>7, <2>1, <2>2, <2>3, <2>4 DEF Settle
<1>8. ASSUME NEW w \in Workers, Push(w), ~PushRing(w) PROVE Costly'
  <2>1. CASE PushRead(w)
    <3>0. \A p : Go(w, p) \/ Return(w) => Stays(w)
      BY <1>p
    <3>1. told' = told /\ (Return(w) \/ \E p : Go(w, p))
      BY <2>1 DEF PushRead
    <3>2. Fault \/ (faults' = faults /\ (Return(w) \/ Go(w, "pushSkip") \/ Go(w, "pushStamp")))
      BY <2>1 DEF PushRead
    <3>3. Stays(w)
      BY <3>0, <3>1
    <3>4. Fault \/ (faults' = faults /\ worker'[w].pc \in {"idle", "pushSkip", "pushStamp"})
      BY <1>p, <3>2
    <3> QED
      BY <1>g, <1>t, <3>1, <3>3, <3>4 DEF GivingUp
  <2>2. CASE PushSkip(w)
    BY <1>p, <1>t, <2>2
    DEF PushSkip, Stamp, GivingUp
  <2>3. CASE PushGiveUp(w)
    BY <1>p, <1>s, <2>3 DEF PushGiveUp, Stamp, At, GivingUp
  <2>4. CASE PushStamp(w)
    BY <1>p, <1>t, <2>4
    DEF PushStamp, GivingUp
  <2>5. CASE PushCall(w)
    BY <1>p, <1>t, <1>g, <2>5
    DEF PushCall, GivingUp
  <2>6. CASE PushVerify(w)
    BY <1>p, <1>t, <2>6
    DEF PushVerify, GivingUp
  <2>7. CASE PushKeep(w)
    BY <1>p, <1>t, <2>7
    DEF PushKeep, GivingUp
  <2>8. CASE PushUnship(w)
    BY <1>p, <1>t, <2>8
    DEF PushUnship, CancelOrder, GivingUp
  <2>9. CASE PushRevert(w)
    BY <1>p, <1>t, <2>9
    DEF PushRevert, GivingUp
  <2>10. CASE PushBlank(w)
    <3>1. Return(w) /\ Stamp("") /\ told' = told
      BY <2>10 DEF PushBlank
    <3>2. \A push : Stamp(push) => faults' = faults \/ Fault
      BY DEF Stamp
    <3>3. faults' = faults \/ Fault
      BY <3>1, <3>2
    <3>4. Stays(w) /\ worker'[w].pc = "idle"
      BY <1>p, <3>1
    <3> QED
      BY <1>t, <3>1, <3>3, <3>4 DEF GivingUp
  <2> QED
    BY <1>8, <2>1, <2>2, <2>3, <2>4, <2>5, <2>6, <2>7, <2>8, <2>9, <2>10 DEF Push
<1>9. ASSUME NEW w \in Workers, Reconcile(w) PROVE Costly'
  <2>1. CASE Read(w)
    <3> DEFINE x == [worker[w] EXCEPT !.pc = "rclaim", !.saw = order]
    <3>1. x.pc = "rclaim"
      BY DEF TypeOK
    <3>2. Put(w, x) \/ Return(w)
      BY <2>1 DEF Read, x
    <3> HIDE DEF x
    <3>3. Stays(w) /\ worker'[w].pc \in {"rclaim", "idle"}
      BY <1>p, <1>q, <3>1, <3>2
    <3>4. told' = told /\ (faults' = faults \/ Fault)
      BY <2>1 DEF Read
    <3> QED
      BY <1>t, <3>3, <3>4 DEF GivingUp
  <2>2. CASE ClaimReconcile(w)
    BY <1>p, <1>t, <2>2
    DEF ClaimReconcile, Claim, GivingUp
  <2>3. CASE Flip(w)
    BY <1>p, <1>t, <2>3
    DEF Flip, AfterFlip, GivingUp
  <2>4. CASE RestoreRead(w)
    <3> DEFINE x == [worker[w] EXCEPT !.pc = "restoreWrite", !.left = left]
    <3>1. x.pc = "restoreWrite"
      BY DEF TypeOK
    <3>2. Put(w, x) \/ Go(w, "storeCancel")
      BY <2>4 DEF RestoreRead, x
    <3> HIDE DEF x
    <3>3. Stays(w) /\ worker'[w].pc \in {"restoreWrite", "storeCancel"}
      BY <1>p, <1>q, <3>1, <3>2
    <3>4. told' = told /\ (faults' = faults \/ Fault)
      BY <2>4 DEF RestoreRead
    <3> QED
      BY <1>t, <3>3, <3>4 DEF GivingUp
  <2>5. CASE RestoreWrite(w) \/ Mark(w)
    BY <1>p, <1>t, <2>5
    DEF RestoreWrite, Mark, GivingUp
  <2>6. CASE StoreCancel(w)
    BY <1>p, <1>t, <2>6
    DEF StoreCancel, CancelOrder, GivingUp
  <2> QED
    BY <1>9, <2>1, <2>2, <2>3, <2>4, <2>5, <2>6 DEF Reconcile
<1>10. ASSUME NEW w \in Workers, Rancher(w) PROVE Costly'
  <2>1. CASE ClaimTerminate(w) \/ ClaimShip(w)
    BY <1>p, <1>t, <2>1
    DEF ClaimTerminate, ClaimShip, Claim, GivingUp
  <2>2. CASE TermFlip(w)
    BY <1>p, <1>t, <2>2
    DEF TermFlip, GivingUp
  <2>3. CASE TermRefund(w)
    <3> DEFINE x == [worker[w] EXCEPT !.pc = "read", !.force = "yes"]
    <3>1. x.pc = "read"
      BY DEF TypeOK
    <3>2. Put(w, x) \/ Go(w, "termRevert")
      BY <2>3 DEF TermRefund, Refunded, x
    <3> HIDE DEF x
    <3>3. Stays(w) /\ worker'[w].pc \in {"read", "termRevert"}
      BY <1>p, <1>q, <3>1, <3>2
    <3>4. told' = told /\ (faults' = faults \/ Fault)
      BY <2>3 DEF TermRefund
    <3> QED
      BY <1>t, <3>3, <3>4 DEF GivingUp
  <2>4. CASE TermRevert(w) \/ ShipWrite(w)
    BY <1>p, <1>t, <2>4
    DEF TermRevert, ShipWrite, GivingUp
  <2> QED
    BY <1>10, <2>1, <2>2, <2>3, <2>4 DEF Rancher
<1> QED
  BY <1>1, <1>2, <1>3, <1>4, <1>5, <1>6, <1>7, <1>8, <1>9, <1>10 DEF Next, Step

\* "no silent stranding": whatever dies or fails, a paid order that waits to ship and
\* that the store does not have is one the push net still looks for, or one given up
\* with a word to the operator, which takes a second failure to lose.
THEOREM NoPaidOrderIsStranded == Spec => []NothingStranded
<1>1. ASSUME TypeOK, Supplied, Costly PROVE NothingStranded
  <2>1. Voiced => WordGiven \/ In({"pushRing"})
    BY <1>1 DEF TypeOK, Costly, Voiced, WordGiven
  <2> QED
    BY <1>1, <2>1 DEF Supplied, Unsent, Failed, Skips, GivenUp, NothingStranded
<1>0. Init => Costly
  BY DEF Init, Costly, In, GivingUp, Idle
<1>3. Spec => []Costly
  BY <1>0, NextCostly, OrderTypes, PTL DEF Spec
<1>2. Spec => []Supplied
  BY InitSupplied, NextSupplied, OrderTypes, PTL DEF Spec
<1> QED
  BY <1>1, <1>2, <1>3, OrderTypes, PTL

=============================================================================
