----------------------------- MODULE RefundProofs -----------------------------
(* Proofs about RefundLedger, for every charge, every number of refunds, of  *)
(* invocations and of endpoints: while Stripe answers each request with a    *)
(* refund of its own, the ledger never runs ahead of Stripe.                 *)
EXTENDS RefundLedger, TLAPS

\* What an invocation knows of the money: the amounts it read or was told of are
\* amounts Stripe has returned.
Sound(w) ==
  /\ At(w, "create") => worker[w].already <= returned
  /\ worker[w].pc \in {"read", "write"} => 0 < worker[w].total /\ worker[w].total <= returned
  /\ At(w, "restore") => returned = Captured

\* The inductive invariant.
LedgerInv ==
  /\ \A ev \in notices : ev.total <= returned
  /\ replayed = "no" => /\ amount <= returned
                        /\ Whole
                        /\ \A w \in Workers : Sound(w)

LEMMA IdleType == Idle \in Invocation
  BY RefundAssumption DEF Idle, Invocation, Full, Keys

LEMMA InitTypes == Init => TypeOK
<1> SUFFICES ASSUME Init PROVE TypeOK
  OBVIOUS
<1>1. Unused \in [amount : 0..Captured, partial : {"yes", "no"}]
  BY RefundAssumption DEF Unused
<1>2. keys \in [Keys -> [amount : 0..Captured, partial : {"yes", "no"}]]
  BY <1>1 DEF Init
<1>3. worker \in [Workers -> Invocation]
  BY IdleType DEF Init
<1> QED
  BY <1>2, <1>3, RefundAssumption DEF Init, TypeOK

\* Storing an invocation of the right shape keeps the table's shape.
LEMMA PutType ==
  ASSUME TypeOK, NEW w \in Workers, NEW x \in Invocation,
         worker' = [worker EXCEPT ![w] = x]
  PROVE  worker' \in [Workers -> Invocation]
  BY DEF TypeOK

LEMMA GoType ==
  ASSUME TypeOK, NEW w \in Workers, NEW p \in {"idle", "create", "read", "write", "restore"},
         Go(w, p)
  PROVE  worker' \in [Workers -> Invocation]
<1>1. worker[w] \in Invocation /\ worker \in [Workers -> Invocation]
  BY DEF TypeOK
<1>2. [worker[w] EXCEPT !.pc = p] \in Invocation
  BY <1>1 DEF Invocation
<1>3. worker' = [worker EXCEPT ![w] = [worker[w] EXCEPT !.pc = p]]
  BY DEF Go
<1> QED
  BY <1>1, <1>2, <1>3

LEMMA ReturnType ==
  ASSUME TypeOK, NEW w \in Workers, Return(w)
  PROVE  worker' \in [Workers -> Invocation] /\ notices' \subseteq Notices
  BY IdleType, PutType DEF Return, TypeOK

\* A refund at Stripe reports a total that is a possible one.
LEMMA MoveType ==
  ASSUME TypeOK, NEW a \in Nat, 0 < a, a <= Captured - returned, Move(a)
  PROVE  returned' \in 0..Captured /\ notices' \subseteq Notices
<1>1. returned \in 0..Captured /\ notices \subseteq Notices /\ Captured \in Nat
  BY RefundAssumption DEF TypeOK
<1>2. returned + a \in 1..Captured
  BY <1>1
<1>3. [ep : Endpoints, total : {returned + a}] \subseteq Notices
  BY <1>2 DEF Notices
<1> QED
  BY <1>1, <1>2, <1>3 DEF Move

LEMMA PartType == ASSUME NEW a, NEW b PROVE PartOf(a, b) \in {"yes", "no"}
  BY DEF PartOf

\* An amount a read or a replay hands to markDepositRefunded.
LEMMA ReadType ==
  ASSUME TypeOK, NEW w \in Workers, NEW t \in Nat,
         worker' = [worker EXCEPT ![w].pc = "read", ![w].total = t]
  PROVE  worker' \in [Workers -> Invocation]
<1>1. worker[w] \in Invocation /\ worker \in [Workers -> Invocation]
  BY DEF TypeOK
<1> DEFINE x == [worker[w] EXCEPT !.pc = "read", !.total = t]
<1>2. x \in Invocation
  BY <1>1 DEF Invocation
<1>3. worker' = [worker EXCEPT ![w] = x]
  BY <1>1
<1> QED
  BY <1>1, <1>2, <1>3

LEMMA AskType ==
  ASSUME TypeOK, NEW w \in Workers, NEW a \in Keys, Ask(w, a)
  PROVE  TypeOK'
<1> DEFINE p == IF a = Full THEN "no" ELSE PartOf(a, Captured - amount)
           x == [pc |-> "create", ask |-> a, already |-> amount, total |-> 0,
                 notice |-> None, partial |-> p]
<1>1. p \in {"yes", "no"}
  BY PartType
<1>2. x \in Invocation
  <2> HIDE DEF p
  <2> QED BY <1>1 DEF TypeOK, Invocation
<1>3. worker' = [worker EXCEPT ![w] = x]
  BY DEF Ask
<1>4. worker' \in [Workers -> Invocation]
  <2> HIDE DEF x
  <2> QED BY <1>2, <1>3, PutType
<1>5. requests' \in 0..MaxRequests
  BY RefundAssumption DEF Ask, Request, TypeOK
<1> QED
  BY <1>4, <1>5 DEF Ask, TypeOK, stripe, row

LEMMA CreateType ==
  ASSUME TypeOK, NEW w \in Workers, Create(w)
  PROVE  TypeOK'
<1> DEFINE a == Wanted(w)
<1>0. worker[w] \in Invocation /\ returned \in 0..Captured /\ Captured \in Nat
  BY RefundAssumption DEF TypeOK
<1>1. worker[w].ask \in 0..Captured /\ worker[w].already \in Nat
      /\ worker[w].partial \in {"yes", "no"}
  BY <1>0 DEF Invocation, Keys
<1>2. a \in 0..Captured
  BY <1>0, <1>1 DEF Wanted
<1>3. CASE 0 < a /\ a <= Captured - returned /\ Move(a)
           /\ keys' = [keys EXCEPT ![worker[w].ask] =
                         [amount |-> a, partial |-> worker[w].partial]]
           /\ worker' = [worker EXCEPT ![w].pc = "read",
                                       ![w].total = worker[w].already + a]
  <2> HIDE DEF a
  <2>1. returned' \in 0..Captured /\ notices' \subseteq Notices
    BY <1>2, <1>3, MoveType
  <2>2. worker[w].already + a \in Nat
    BY <1>1, <1>2
  <2>3. worker' \in [Workers -> Invocation]
    BY <1>3, <2>2, ReadType
  <2>4. [amount |-> a, partial |-> worker[w].partial] \in [amount : 0..Captured, partial : {"yes", "no"}]
    BY <1>1, <1>2
  <2>5. keys' \in [Keys -> [amount : 0..Captured, partial : {"yes", "no"}]]
    BY <1>3, <2>4 DEF TypeOK
  <2> QED
    BY <2>1, <2>3, <2>5 DEF Create, TypeOK, row
<1>4. CASE worker' = [worker EXCEPT ![w] = Idle] /\ UNCHANGED stripe
  <2>1. worker' \in [Workers -> Invocation]
    BY <1>4, IdleType, PutType
  <2> QED
    BY <1>4, <2>1 DEF Create, TypeOK, row, stripe
<1> QED
  BY <1>3, <1>4 DEF Create

LEMMA ReplayType ==
  ASSUME TypeOK, NEW w \in Workers, Replay(w)
  PROVE  TypeOK'
<1> DEFINE k == worker[w].ask
<1>1. worker[w] \in Invocation
  BY DEF TypeOK
<1>2. k \in Keys /\ worker[w].already \in Nat
  BY <1>1 DEF Invocation
<1>3. keys[k].amount \in Nat
  BY <1>2, RefundAssumption DEF TypeOK
<1>4. worker' \in [Workers -> Invocation]
  <2>1. CASE worker' = [worker EXCEPT ![w].pc = "read",
                                      ![w].total = worker[w].already + keys[k].amount]
    <3>1. worker[w].already + keys[k].amount \in Nat
      BY <1>2, <1>3
    <3> QED
      BY <2>1, <3>1, ReadType
  <2>2. CASE worker' = [worker EXCEPT ![w] = Idle]
    BY <2>2, IdleType, PutType
  <2> QED
    BY <2>1, <2>2 DEF Replay
<1>5. replayed' \in {"yes", "no"}
  BY DEF Replay, TypeOK
<1> QED
  BY <1>4, <1>5 DEF Replay, TypeOK, stripe, row

LEMMA DeliverType ==
  ASSUME TypeOK, NEW w \in Workers, NEW ev \in Notices, Deliver(w, ev)
  PROVE  TypeOK'
<1> DEFINE p == PartOf(ev.total, Captured)
           x == [pc |-> "read", ask |-> Full, already |-> 0, total |-> ev.total,
                 notice |-> ev, partial |-> p]
<1>1. p \in {"yes", "no"}
  BY PartType
<1>2. ev.total \in Nat /\ Full \in Keys
  BY RefundAssumption DEF Notices, Full, Keys
<1>3. x \in Invocation
  <2> HIDE DEF p
  <2> QED BY <1>1, <1>2 DEF Invocation
<1>4. worker' = [worker EXCEPT ![w] = x]
  BY DEF Deliver
<1>5. worker' \in [Workers -> Invocation]
  <2> HIDE DEF x
  <2> QED BY <1>3, <1>4, PutType
<1> QED
  BY <1>5 DEF Deliver, TypeOK, stripe, row

LEMMA MarkType ==
  ASSUME TypeOK, NEW w \in Workers, MarkRead(w) \/ MarkWrite(w) \/ Restore(w)
  PROVE  TypeOK'
<1>1. CASE MarkRead(w)
  <2>1. worker' \in [Workers -> Invocation] /\ notices' \subseteq Notices
    BY <1>1, ReturnType, GoType DEF MarkRead, TypeOK
  <2> QED
    BY <1>1, <2>1 DEF MarkRead, TypeOK, row
<1>2. CASE MarkWrite(w)
  <2>1. worker' \in [Workers -> Invocation] /\ notices' \subseteq Notices
    BY <1>2, ReturnType, GoType DEF MarkWrite, TypeOK
  <2>2. amount' \in Nat
    BY <1>2 DEF MarkWrite, TypeOK, Invocation
  <2>3. status' \in {"succeeded", "refunded"}
    BY <1>2 DEF MarkWrite, TypeOK
  <2> QED
    BY <1>2, <2>1, <2>2, <2>3 DEF MarkWrite, TypeOK
<1>3. CASE Restore(w)
  <2>1. worker' \in [Workers -> Invocation] /\ notices' \subseteq Notices
    BY <1>3, ReturnType DEF Restore
  <2>2. faults' \in 0..MaxFaults
    BY <1>3, RefundAssumption DEF Restore, Fault, TypeOK
  <2> QED
    BY <1>3, <2>1, <2>2 DEF Restore, TypeOK
<1> QED
  BY <1>1, <1>2, <1>3

LEMMA NextTypes == TypeOK /\ [Next]_vars => TypeOK'
<1> SUFFICES ASSUME TypeOK, [Next]_vars PROVE TypeOK'
  OBVIOUS
<1>1. ASSUME NEW w \in Workers, NEW a \in Keys, Ask(w, a) PROVE TypeOK'
  BY <1>1, AskType
<1>2. ASSUME NEW k \in Keys, Forget(k) PROVE TypeOK'
  <2>1. Unused \in [amount : 0..Captured, partial : {"yes", "no"}]
    BY RefundAssumption DEF Unused
  <2>2. keys' \in [Keys -> [amount : 0..Captured, partial : {"yes", "no"}]]
    BY <1>2, <2>1 DEF Forget, TypeOK
  <2> QED
    BY <1>2, <2>2 DEF Forget, TypeOK, row
<1>3. ASSUME NEW k \in Keys, Dashboard(k) PROVE TypeOK'
  <2>1. k \in Nat /\ requests' \in 0..MaxRequests
    BY <1>3, RefundAssumption DEF Dashboard, Request, TypeOK, Keys
  <2>2. returned' \in 0..Captured /\ notices' \subseteq Notices
    BY <1>3, <2>1, MoveType DEF Dashboard
  <2> QED
    BY <1>3, <2>1, <2>2 DEF Dashboard, TypeOK, row
<1>4. ASSUME NEW w \in Workers, NEW ev \in Notices, Deliver(w, ev) PROVE TypeOK'
  BY <1>4, DeliverType
<1>5. ASSUME NEW w \in Workers, Step(w) PROVE TypeOK'
  BY <1>5, CreateType, ReplayType, MarkType DEF Step
<1>6. ASSUME NEW w \in Workers, Crash(w) PROVE TypeOK'
  <2>1. worker' \in [Workers -> Invocation] /\ faults' \in 0..MaxFaults
    BY <1>6, IdleType, PutType, RefundAssumption DEF Crash, Fault, TypeOK
  <2> QED
    BY <1>6, <2>1 DEF Crash, TypeOK, stripe, row
<1>7. CASE UNCHANGED vars
  BY <1>7 DEF vars, TypeOK, stripe, row
<1> QED
  BY <1>1, <1>2, <1>3, <1>4, <1>5, <1>6, <1>7 DEF Next

\* Everything the ledger and Stripe keep has the shape the code writes.
THEOREM RefundTypes == Spec => []TypeOK
<1>1. Init => TypeOK
  BY InitTypes
<1>2. TypeOK /\ [Next]_vars => TypeOK'
  BY NextTypes
<1> QED
  BY <1>1, <1>2, PTL DEF Spec

-----------------------------------------------------------------------------

LEMMA InitLedger == Init => LedgerInv
  BY RefundAssumption DEF Init, LedgerInv, Whole, Sound, At, Idle

\* An invocation that does not move stays sound while Stripe returns more.
LEMMA StillSound ==
  ASSUME TypeOK, TypeOK', NEW v \in Workers, worker'[v] = worker[v], Sound(v),
         returned <= returned'
  PROVE  Sound(v)'
<1>1. /\ worker[v].already \in Nat /\ worker[v].total \in Nat
      /\ returned \in 0..Captured /\ returned' \in 0..Captured /\ Captured \in Nat
  BY RefundAssumption DEF TypeOK, Invocation
<1>2. At(v, "create") <=> At(v, "create")'
  BY DEF At
<1>3. At(v, "restore") <=> At(v, "restore")'
  BY DEF At
<1> QED
  BY <1>1, <1>2, <1>3 DEF Sound

\* A step of one invocation that writes no ledger row keeps the invariant when
\* the invocation itself is sound afterwards.
LEMMA WorkerLedger ==
  ASSUME TypeOK, TypeOK', LedgerInv, NEW w \in Workers, NEW x,
         worker' = [worker EXCEPT ![w] = x], UNCHANGED row,
         replayed' = "no" => replayed = "no",
         returned <= returned',
         \A ev \in notices' : ev.total <= returned',
         replayed' = "no" => Sound(w)'
  PROVE  LedgerInv'
<1> SUFFICES ASSUME replayed' = "no"
             PROVE  amount' <= returned' /\ Whole' /\ \A v \in Workers : Sound(v)'
  BY DEF LedgerInv
<1>1. returned \in 0..Captured /\ returned' \in 0..Captured /\ Captured \in Nat /\ amount \in Nat
  BY RefundAssumption DEF TypeOK
<1>2. amount <= returned /\ Whole /\ \A v \in Workers : Sound(v)
  BY DEF LedgerInv
<1>3. amount' <= returned' /\ Whole'
  BY <1>1, <1>2 DEF row, Whole
<1>4. ASSUME NEW v \in Workers PROVE Sound(v)'
  <2>1. CASE v = w
    BY <2>1
  <2>2. CASE v # w
    <3>1. worker'[v] = worker[v]
      BY <2>2 DEF TypeOK
    <3> QED
      BY <1>2, <3>1, StillSound
  <2> QED
    BY <2>1, <2>2
<1> QED
  BY <1>3, <1>4

\* An idle invocation knows nothing.
LEMMA IdleSound ==
  ASSUME TypeOK, NEW w \in Workers, worker' = [worker EXCEPT ![w] = Idle]
  PROVE  Sound(w)'
<1>1. worker'[w] = Idle
  BY DEF TypeOK
<1> QED
  BY <1>1 DEF Sound, At, Idle

\* Every notice carries a total Stripe has reached.
LEMMA MoveNotices ==
  ASSUME TypeOK, NEW a \in Nat, a <= Captured - returned, Move(a),
         \A ev \in notices : ev.total <= returned
  PROVE  returned <= returned' /\ \A ev \in notices' : ev.total <= returned'
<1>1. returned \in 0..Captured /\ Captured \in Nat
  BY RefundAssumption DEF TypeOK
<1>2. returned' = returned + a
  BY DEF Move
<1>3. ASSUME NEW ev \in notices' PROVE ev.total <= returned'
  <2>1. CASE ev \in notices
    <3>1. ev.total \in Nat
      BY <1>1, <2>1 DEF TypeOK, Notices
    <3> QED
      BY <1>1, <1>2, <2>1, <3>1
  <2>2. CASE ev \in [ep : Endpoints, total : {returned + a}]
    BY <1>1, <1>2, <2>2
  <2> QED
    BY <2>1, <2>2 DEF Move
<1> QED
  BY <1>1, <1>2, <1>3

LEMMA AskLedger ==
  ASSUME TypeOK, TypeOK', LedgerInv, NEW w \in Workers, NEW a \in Keys, Ask(w, a)
  PROVE  LedgerInv'
<1>1. returned' = returned /\ notices' = notices /\ replayed' = replayed /\ UNCHANGED row
  BY DEF Ask, stripe
<1> DEFINE x == [pc |-> "create", ask |-> a, already |-> amount, total |-> 0, notice |-> None,
                 partial |-> IF a = Full THEN "no" ELSE PartOf(a, Captured - amount)]
<1>2. worker' = [worker EXCEPT ![w] = x]
  BY DEF Ask
<1>3. worker'[w].pc = "create" /\ worker'[w].already = amount
  BY <1>2 DEF TypeOK
<1>4. replayed' = "no" => Sound(w)'
  BY <1>1, <1>3 DEF LedgerInv, Sound, At
<1>5. returned <= returned' /\ \A ev \in notices' : ev.total <= returned'
  BY <1>1, RefundAssumption DEF LedgerInv, TypeOK
<1> QED
  <2> HIDE DEF x
  <2> QED BY <1>1, <1>2, <1>4, <1>5, WorkerLedger

LEMMA CreateLedger ==
  ASSUME TypeOK, TypeOK', LedgerInv, NEW w \in Workers, Create(w)
  PROVE  LedgerInv'
<1> DEFINE a == Wanted(w)
<1>0. /\ worker[w] \in Invocation /\ worker \in [Workers -> Invocation]
      /\ returned \in 0..Captured /\ Captured \in Nat
  BY RefundAssumption DEF TypeOK
<1>1. worker[w].ask \in 0..Captured /\ worker[w].already \in Nat /\ worker[w].pc = "create"
  BY <1>0 DEF Invocation, Keys, Create, At
<1>2. a \in Nat
  BY <1>0, <1>1 DEF Wanted
<1>3. replayed' = replayed /\ UNCHANGED row
  BY DEF Create
<1>4. CASE 0 < a /\ a <= Captured - returned /\ Move(a)
           /\ worker' = [worker EXCEPT ![w].pc = "read",
                                       ![w].total = worker[w].already + a]
  <2> HIDE DEF a
  <2>1. returned <= returned' /\ (\A ev \in notices' : ev.total <= returned')
    BY <1>2, <1>4, MoveNotices DEF LedgerInv
  <2>2. returned' = returned + a
    BY <1>4 DEF Move
  <2> DEFINE x == [worker[w] EXCEPT !.pc = "read", !.total = worker[w].already + a]
  <2>3. worker' = [worker EXCEPT ![w] = x]
    BY <1>0, <1>4
  <2>4. x.pc = "read" /\ x.total = worker[w].already + a
    BY <1>0 DEF Invocation
  <2>5. worker'[w] = x
    BY <1>0, <2>3
  <2>6. replayed' = "no" => Sound(w)'
    <3> SUFFICES ASSUME replayed = "no" PROVE Sound(w)'
      BY <1>3
    <3>1. worker[w].already <= returned
      BY <1>1 DEF LedgerInv, Sound, At
    <3>2. 0 < x.total /\ x.total <= returned'
      BY <1>0, <1>1, <1>2, <1>4, <2>2, <2>4, <3>1
    <3> QED
      BY <2>4, <2>5, <3>2 DEF Sound, At
  <2> QED
    <3> HIDE DEF x
    <3> QED BY <1>3, <2>1, <2>3, <2>6, WorkerLedger
<1>5. CASE worker' = [worker EXCEPT ![w] = Idle] /\ UNCHANGED stripe
  <2>1. returned <= returned' /\ (\A ev \in notices' : ev.total <= returned')
    BY <1>0, <1>5 DEF LedgerInv, stripe
  <2> QED
    BY <1>3, <1>5, <2>1, IdleSound, WorkerLedger
<1> QED
  BY <1>4, <1>5 DEF Create

\* A replayed refund voids the promise; an idempotency error changes nothing.
LEMMA ReplayLedger ==
  ASSUME TypeOK, TypeOK', LedgerInv, NEW w \in Workers, Replay(w)
  PROVE  LedgerInv'
<1>1. returned' = returned /\ notices' = notices /\ UNCHANGED row
  BY DEF Replay, stripe
<1>2. returned <= returned' /\ \A ev \in notices' : ev.total <= returned'
  BY <1>1, RefundAssumption DEF LedgerInv, TypeOK
<1>3. CASE replayed' = "yes"
  BY <1>2, <1>3 DEF LedgerInv
<1>4. CASE replayed' = replayed /\ worker' = [worker EXCEPT ![w] = Idle]
  BY <1>1, <1>2, <1>4, IdleSound, WorkerLedger
<1> QED
  BY <1>3, <1>4 DEF Replay

LEMMA DeliverLedger ==
  ASSUME TypeOK, TypeOK', LedgerInv, NEW w \in Workers, NEW ev \in Notices, Deliver(w, ev)
  PROVE  LedgerInv'
<1>1. returned' = returned /\ notices' = notices /\ replayed' = replayed /\ UNCHANGED row
  BY DEF Deliver, stripe
<1> DEFINE x == [pc |-> "read", ask |-> Full, already |-> 0, total |-> ev.total,
                 notice |-> ev, partial |-> PartOf(ev.total, Captured)]
<1>2. worker' = [worker EXCEPT ![w] = x]
  BY DEF Deliver
<1>3. worker'[w].pc = "read" /\ worker'[w].total = ev.total
  BY <1>2 DEF TypeOK
<1>4. 0 < ev.total /\ ev.total <= returned'
  BY <1>1, RefundAssumption DEF Deliver, LedgerInv, Notices
<1>5. replayed' = "no" => Sound(w)'
  BY <1>3, <1>4 DEF Sound, At
<1>6. returned <= returned' /\ \A e \in notices' : e.total <= returned'
  BY <1>1, RefundAssumption DEF LedgerInv, TypeOK
<1> QED
  <2> HIDE DEF x
  <2> QED BY <1>1, <1>2, <1>5, <1>6, WorkerLedger

LEMMA ReadLedger ==
  ASSUME TypeOK, TypeOK', LedgerInv, NEW w \in Workers, MarkRead(w)
  PROVE  LedgerInv'
<1>0. worker \in [Workers -> Invocation] /\ worker[w].pc = "read"
  BY DEF MarkRead, At, TypeOK
<1>1. /\ returned' = returned /\ notices' \subseteq notices
      /\ replayed' = replayed /\ UNCHANGED row
  BY DEF MarkRead, Return
<1>2. returned <= returned' /\ \A ev \in notices' : ev.total <= returned'
  BY <1>1, RefundAssumption DEF LedgerInv, TypeOK
<1>3. CASE Return(w)
  <2>1. worker' = [worker EXCEPT ![w] = Idle]
    BY <1>3 DEF Return
  <2> QED
    BY <1>1, <1>2, <2>1, IdleSound, WorkerLedger
<1>4. CASE Go(w, "write")
  <2> DEFINE x == [worker[w] EXCEPT !.pc = "write"]
  <2>1. worker' = [worker EXCEPT ![w] = x]
    BY <1>4 DEF Go
  <2>2. x.pc = "write" /\ x.total = worker[w].total
    BY <1>0 DEF Invocation
  <2>3. worker'[w] = x
    BY <1>0, <2>1
  <2>4. replayed' = "no" => Sound(w)'
    BY <1>0, <1>1, <2>2, <2>3 DEF LedgerInv, Sound, At
  <2> QED
    <3> HIDE DEF x
    <3> QED BY <1>1, <1>2, <2>1, <2>4, WorkerLedger
<1> QED
  BY <1>3, <1>4 DEF MarkRead

\* A full refund that is sound is the whole charge.
LEMMA FullIsWhole ==
  ASSUME TypeOK, NEW w \in Workers, Sound(w), At(w, "write"), IsFull(w)
  PROVE  returned = Captured
<1>1. worker[w].total \in Nat /\ returned \in 0..Captured /\ Captured \in Nat
  BY RefundAssumption DEF TypeOK, Invocation
<1>2. 0 < worker[w].total /\ worker[w].total <= returned
  BY DEF Sound, At
<1>3. worker[w].total >= Captured
  BY <1>1, <1>2 DEF IsFull
<1> QED
  BY <1>1, <1>2, <1>3

LEMMA WriteLedger ==
  ASSUME TypeOK, TypeOK', LedgerInv, NEW w \in Workers, MarkWrite(w)
  PROVE  LedgerInv'
<1>0. worker \in [Workers -> Invocation] /\ At(w, "write") /\ returned \in 0..Captured
  BY DEF MarkWrite, TypeOK
<1>1. returned' = returned /\ notices' \subseteq notices /\ replayed' = replayed
      /\ restored' = restored /\ amount' = worker[w].total
  BY DEF MarkWrite, Return
<1>2. \A ev \in notices' : ev.total <= returned'
  BY <1>1 DEF LedgerInv
<1> SUFFICES ASSUME replayed = "no"
             PROVE  amount' <= returned' /\ Whole' /\ \A v \in Workers : Sound(v)'
  BY <1>1, <1>2 DEF LedgerInv
<1>3. amount <= returned /\ Whole /\ \A v \in Workers : Sound(v)
  BY DEF LedgerInv
<1>4. amount' <= returned'
  BY <1>0, <1>1, <1>3 DEF Sound, At
<1>5. IsFull(w) => returned = Captured
  BY <1>0, <1>3, FullIsWhole
<1>6. Whole'
  BY <1>1, <1>3, <1>5 DEF MarkWrite, Whole
<1>7. ASSUME NEW v \in Workers PROVE Sound(v)'
  <2>1. CASE v # w
    <3>1. worker'[v] = worker[v]
      BY <1>0, <2>1 DEF MarkWrite, Return, Go
    <3> QED
      BY <1>0, <1>1, <1>3, <3>1, StillSound
  <2>2. CASE v = w /\ ~IsFull(w)
    <3>1. worker' = [worker EXCEPT ![w] = Idle]
      BY <2>2 DEF MarkWrite, Return
    <3> QED
      BY <2>2, <3>1, IdleSound
  <2>3. CASE v = w /\ IsFull(w)
    <3>1. worker'[w].pc = "restore"
      BY <1>0, <2>3 DEF MarkWrite, Go, Invocation
    <3> QED
      BY <1>1, <1>5, <2>3, <3>1 DEF Sound, At
  <2> QED
    BY <2>1, <2>2, <2>3
<1> QED
  BY <1>4, <1>6, <1>7

LEMMA RestoreLedger ==
  ASSUME TypeOK, TypeOK', LedgerInv, NEW w \in Workers, Restore(w)
  PROVE  LedgerInv'
<1>0. worker \in [Workers -> Invocation] /\ At(w, "restore") /\ returned \in 0..Captured
  BY DEF Restore, TypeOK
<1>1. returned' = returned /\ notices' \subseteq notices /\ replayed' = replayed
      /\ amount' = amount /\ status' = status /\ worker' = [worker EXCEPT ![w] = Idle]
  BY DEF Restore, Return
<1>2. \A ev \in notices' : ev.total <= returned'
  BY <1>1 DEF LedgerInv
<1> SUFFICES ASSUME replayed = "no"
             PROVE  amount' <= returned' /\ Whole' /\ \A v \in Workers : Sound(v)'
  BY <1>1, <1>2 DEF LedgerInv
<1>3. amount <= returned /\ \A v \in Workers : Sound(v)
  BY DEF LedgerInv
<1>4. Whole'
  BY <1>0, <1>1, <1>3 DEF Sound, Whole
<1>5. ASSUME NEW v \in Workers PROVE Sound(v)'
  <2>1. CASE v = w
    BY <1>1, <2>1, IdleSound
  <2>2. CASE v # w
    <3>1. worker'[v] = worker[v]
      BY <1>0, <1>1, <2>2
    <3> QED
      BY <1>0, <1>1, <1>3, <3>1, StillSound
  <2> QED
    BY <2>1, <2>2
<1> QED
  BY <1>1, <1>3, <1>4, <1>5

LEMMA NextLedger == TypeOK /\ TypeOK' /\ LedgerInv /\ [Next]_vars => LedgerInv'
<1> SUFFICES ASSUME TypeOK, TypeOK', LedgerInv, [Next]_vars PROVE LedgerInv'
  OBVIOUS
<1>0. returned \in 0..Captured /\ Captured \in Nat
  BY RefundAssumption DEF TypeOK
<1>1. ASSUME NEW w \in Workers, NEW a \in Keys, Ask(w, a) PROVE LedgerInv'
  BY <1>1, AskLedger
<1>2. ASSUME NEW k \in Keys, Forget(k) PROVE LedgerInv'
  BY <1>2 DEF Forget, LedgerInv, row, Whole, Sound, At
<1>3. ASSUME NEW k \in Keys, Dashboard(k) PROVE LedgerInv'
  <2>1. k \in Nat /\ k <= Captured - returned /\ Move(k)
    BY <1>3, RefundAssumption DEF Dashboard, Keys
  <2>2. returned <= returned' /\ (\A ev \in notices' : ev.total <= returned')
    BY <2>1, MoveNotices DEF LedgerInv
  <2>3. worker' = worker /\ replayed' = replayed /\ UNCHANGED row
    BY <1>3 DEF Dashboard
  <2>4. amount \in Nat /\ returned' \in 0..Captured
    BY DEF TypeOK
  <2>5. ASSUME replayed = "no", NEW v \in Workers PROVE Sound(v)'
    BY <2>2, <2>3, <2>5, StillSound DEF LedgerInv
  <2>6. replayed = "no" => amount' <= returned' /\ Whole'
    BY <1>0, <2>2, <2>3, <2>4 DEF LedgerInv, Whole, row
  <2> QED
    BY <2>2, <2>3, <2>5, <2>6 DEF LedgerInv
<1>4. ASSUME NEW w \in Workers, NEW ev \in Notices, Deliver(w, ev) PROVE LedgerInv'
  BY <1>4, DeliverLedger
<1>5. ASSUME NEW w \in Workers, Step(w) PROVE LedgerInv'
  BY <1>5, CreateLedger, ReplayLedger, ReadLedger, WriteLedger, RestoreLedger DEF Step
<1>6. ASSUME NEW w \in Workers, Crash(w) PROVE LedgerInv'
  <2>1. worker' = [worker EXCEPT ![w] = Idle] /\ UNCHANGED <<stripe, row, replayed>>
    BY <1>6 DEF Crash
  <2>2. returned <= returned' /\ (\A ev \in notices' : ev.total <= returned')
    BY <1>0, <2>1 DEF LedgerInv, stripe
  <2> QED
    BY <2>1, <2>2, IdleSound, WorkerLedger
<1>7. CASE UNCHANGED vars
  BY <1>7 DEF vars, stripe, row, LedgerInv, Whole, Sound, At
<1> QED
  BY <1>1, <1>2, <1>3, <1>4, <1>5, <1>6, <1>7 DEF Next

LEMMA LedgerInvariant == Spec => []LedgerInv
<1>1. Init => LedgerInv
  BY InitLedger
<1>2. TypeOK /\ TypeOK' /\ LedgerInv /\ [Next]_vars => LedgerInv'
  BY NextLedger
<1>3. Spec => []TypeOK
  BY RefundTypes
<1> QED
  BY <1>1, <1>2, <1>3, PTL DEF Spec

\* As long as no refund is answered from Stripe's idempotency store, the row never
\* claims more than Stripe returned: the refund route's cap is never too low.
THEOREM LedgerFollowsStripe == Spec => []LedgerNotAhead
<1>1. LedgerInv => LedgerNotAhead
  BY DEF LedgerInv, LedgerNotAhead
<1> QED
  BY <1>1, LedgerInvariant, PTL

\* Under the same condition a row is refunded, and a deal reverted, only when the
\* whole charge went back.
THEOREM RevertsAreWhole == Spec => []RevertedIsWhole
<1>1. LedgerInv => RevertedIsWhole
  BY DEF LedgerInv, RevertedIsWhole
<1> QED
  BY <1>1, LedgerInvariant, PTL

-----------------------------------------------------------------------------
(* That a whole refund is never lost holds whatever Stripe answers.          *)

\* An invocation that works on an event judges it by the event's own total, and
\* answers it as whole only once the row says so.
OwedStep(w) ==
  /\ worker[w].notice # None =>
       /\ worker[w].total = worker[w].notice.total
       /\ worker[w].partial = PartOf(worker[w].total, Captured)
       /\ ~At(w, "create")
  /\ At(w, "restore") => status = "refunded"
OwedInv == WholeIsOwed /\ \A w \in Workers : OwedStep(w)

LEMMA InitOwed == Init => OwedInv
  BY RefundAssumption DEF Init, OwedInv, OwedStep, WholeIsOwed, At, Idle

\* A row that is refunded stays so.
LEMMA RefundedStays == ASSUME [Next]_vars, status = "refunded" PROVE status' = "refunded"
<1>1. ASSUME NEW w \in Workers, Step(w) \/ Crash(w) PROVE status' = "refunded"
  BY <1>1 DEF Step, Create, Replay, MarkRead, MarkWrite, Restore, Crash, row
<1>2. ASSUME NEW w \in Workers, NEW a \in Keys, Ask(w, a) PROVE status' = "refunded"
  BY <1>2 DEF Ask, row
<1>3. ASSUME NEW w \in Workers, NEW ev \in Notices, Deliver(w, ev) PROVE status' = "refunded"
  BY <1>3 DEF Deliver, row
<1> QED
  BY <1>1, <1>2, <1>3 DEF Next, Forget, Dashboard, row, vars

\* What the other invocations know is not about this one's step.
LEMMA OthersOwed ==
  ASSUME TypeOK, OwedInv, NEW w \in Workers, NEW x, worker' = [worker EXCEPT ![w] = x],
         status = "refunded" => status' = "refunded", OwedStep(w)'
  PROVE  \A v \in Workers : OwedStep(v)'
<1> SUFFICES ASSUME NEW v \in Workers, v # w PROVE OwedStep(v)'
  OBVIOUS
<1>1. worker'[v] = worker[v] /\ OwedStep(v)
  BY DEF TypeOK, OwedInv
<1> QED
  BY <1>1 DEF OwedStep, At

\* A handler that answers leaves every event that says the whole went back, but
\* for one that the row already agrees with.
LEMMA ReturnOwed ==
  ASSUME TypeOK, OwedInv, NEW w \in Workers, Return(w), worker[w].pc \in {"read", "write", "restore"},
         status = "refunded" => status' = "refunded", returned' = returned,
         status' # "refunded" => ~IsFull(w)
  PROVE  OwedInv'
<1>1. OwedStep(w) /\ WholeIsOwed /\ worker'[w] = Idle
  BY DEF OwedInv, Return, TypeOK
<1>2. OwedStep(w)'
  BY <1>1 DEF OwedStep, At, Idle
<1>3. \A v \in Workers : OwedStep(v)'
  BY <1>2, OthersOwed DEF Return
<1>4. ASSUME returned' = Captured, status' # "refunded",
             NEW n \in [ep : Endpoints, total : {Captured}]
      PROVE  n \in notices'
  <2>1. n \in notices /\ n \in Notices /\ n.total = Captured
    BY <1>1, <1>4, RefundAssumption DEF WholeIsOwed, Notices
  <2>2. n # None
    BY <2>1, RefundAssumption DEF Notices
  <2>3. worker[w].notice # n
    <3> SUFFICES ASSUME worker[w].notice = n PROVE FALSE
      OBVIOUS
    <3>1. worker[w].total = Captured /\ worker[w].partial = PartOf(Captured, Captured)
      BY <1>1, <2>1, <2>2 DEF OwedStep
    <3> QED
      BY <1>4, <3>1, RefundAssumption DEF IsFull, PartOf
  <2> QED
    BY <2>1, <2>3 DEF Return
<1> QED
  BY <1>3, <1>4 DEF OwedInv, WholeIsOwed

\* A step that owes no less and moves one invocation to a state it may be in.
LEMMA MoveOwed ==
  ASSUME TypeOK, OwedInv, NEW w \in Workers, NEW x, worker' = [worker EXCEPT ![w] = x],
         status' = status, OwedStep(w)', notices \subseteq notices',
         returned' = Captured => returned = Captured
                                   \/ [ep : Endpoints, total : {Captured}] \subseteq notices'
  PROVE  OwedInv'
<1>1. \A v \in Workers : OwedStep(v)'
  BY OthersOwed
<1> QED
  BY <1>1 DEF OwedInv, WholeIsOwed

LEMMA NextOwed == TypeOK /\ OwedInv /\ [Next]_vars => OwedInv'
<1> SUFFICES ASSUME TypeOK, OwedInv, [Next]_vars PROVE OwedInv'
  OBVIOUS
<1>0. worker \in [Workers -> Invocation] /\ returned \in Nat /\ Captured \in Nat
      /\ notices \subseteq Notices
  BY RefundAssumption DEF TypeOK
<1>1. ASSUME NEW w \in Workers, NEW a \in Keys, Ask(w, a) PROVE OwedInv'
  <2> DEFINE x == [pc |-> "create", ask |-> a, already |-> amount, total |-> 0, notice |-> None,
                   partial |-> IF a = Full THEN "no" ELSE PartOf(a, Captured - amount)]
  <2>1. worker' = [worker EXCEPT ![w] = x] /\ worker'[w] = x
    BY <1>0, <1>1 DEF Ask
  <2>2. OwedStep(w)'
    BY <2>1 DEF OwedStep, At
  <2> HIDE DEF x
  <2> QED
    BY <1>1, <2>1, <2>2, MoveOwed DEF Ask, stripe, row
<1>2. ASSUME NEW k \in Keys, Forget(k) PROVE OwedInv'
  BY <1>2 DEF Forget, row, OwedInv, OwedStep, WholeIsOwed, At
<1>3. ASSUME NEW k \in Keys, Dashboard(k) PROVE OwedInv'
  BY <1>3 DEF Dashboard, Move, row, OwedInv, OwedStep, WholeIsOwed, At
<1>4. ASSUME NEW w \in Workers, NEW ev \in Notices, Deliver(w, ev) PROVE OwedInv'
  <2> DEFINE x == [pc |-> "read", ask |-> Full, already |-> 0, total |-> ev.total,
                   notice |-> ev, partial |-> PartOf(ev.total, Captured)]
  <2>1. worker' = [worker EXCEPT ![w] = x] /\ worker'[w] = x
    BY <1>0, <1>4 DEF Deliver
  <2>2. OwedStep(w)'
    BY <2>1 DEF OwedStep, At
  <2> HIDE DEF x
  <2> QED
    BY <1>4, <2>1, <2>2, MoveOwed DEF Deliver, stripe, row
<1>5. ASSUME NEW w \in Workers, Create(w) \/ Replay(w) PROVE OwedInv'
  <2>1. worker[w].notice = None
    BY <1>5 DEF Create, Replay, OwedInv, OwedStep, At
  <2>2. status' = status
    BY <1>5 DEF Create, Replay, row
  <2>3. notices \subseteq notices'
        /\ (returned' = Captured => returned = Captured
                             \/ [ep : Endpoints, total : {Captured}] \subseteq notices')
    BY <1>5 DEF Create, Replay, Move, stripe
  <2>4. CASE worker' = [worker EXCEPT ![w] = Idle]
    <3>1. OwedStep(w)'
      BY <1>0, <2>4 DEF OwedStep, At, Idle
    <3> QED
      BY <2>2, <2>3, <2>4, <3>1, MoveOwed
  <2>5. ASSUME NEW t, worker' = [worker EXCEPT ![w].pc = "read", ![w].total = t] PROVE OwedInv'
    <3> DEFINE x == [worker[w] EXCEPT !.pc = "read", !.total = t]
    <3>1. worker' = [worker EXCEPT ![w] = x] /\ worker'[w] = x
      BY <1>0, <2>5
    <3>2. x.pc = "read" /\ x.notice = None
      BY <1>0, <2>1 DEF Invocation
    <3>3. OwedStep(w)'
      <4> HIDE DEF x
      <4> QED BY <3>1, <3>2 DEF OwedStep, At
    <3> HIDE DEF x
    <3> QED
      BY <2>2, <2>3, <3>1, <3>3, MoveOwed
  <2> QED
    BY <1>5, <2>4, <2>5 DEF Create, Replay
<1>6. ASSUME NEW w \in Workers, MarkRead(w) PROVE OwedInv'
  <2>1. CASE Return(w) /\ status = "refunded"
    BY <1>6, <2>1, ReturnOwed DEF MarkRead, row, At
  <2>2. CASE Go(w, "write") /\ UNCHANGED notices
    <3> DEFINE x == [worker[w] EXCEPT !.pc = "write"]
    <3>1. worker' = [worker EXCEPT ![w] = x] /\ worker'[w] = x
      BY <1>0, <2>2 DEF Go
    <3>2. x.pc = "write" /\ x.notice = worker[w].notice /\ x.total = worker[w].total
          /\ x.partial = worker[w].partial
      BY <1>0 DEF Invocation
    <3>3. OwedStep(w)'
      <4> HIDE DEF x
      <4> QED BY <3>1, <3>2 DEF OwedInv, OwedStep, At
    <3> HIDE DEF x
    <3> QED
      BY <1>6, <2>2, <3>1, <3>3, MoveOwed DEF MarkRead, row
  <2> QED
    BY <1>6, <2>1, <2>2 DEF MarkRead
<1>7. ASSUME NEW w \in Workers, MarkWrite(w) PROVE OwedInv'
  <2>1. CASE IsFull(w)
    <3>1. status' = "refunded" /\ Go(w, "restore") /\ UNCHANGED <<notices, returned>>
      BY <1>7, <2>1 DEF MarkWrite
    <3> DEFINE x == [worker[w] EXCEPT !.pc = "restore"]
    <3>2. worker' = [worker EXCEPT ![w] = x] /\ worker'[w] = x
      BY <1>0, <3>1 DEF Go
    <3>3. x.pc = "restore" /\ x.notice = worker[w].notice /\ x.total = worker[w].total
          /\ x.partial = worker[w].partial
      BY <1>0 DEF Invocation
    <3>4. OwedStep(w)'
      <4> HIDE DEF x
      <4> QED BY <3>1, <3>2, <3>3 DEF OwedInv, OwedStep, At
    <3>5. \A v \in Workers : OwedStep(v)'
      <4> HIDE DEF x
      <4> QED BY <3>1, <3>2, <3>4, OthersOwed
    <3> QED
      BY <3>1, <3>5 DEF OwedInv, WholeIsOwed
  <2>2. CASE ~IsFull(w)
    BY <1>7, <2>2, ReturnOwed DEF MarkWrite, At
  <2> QED
    BY <2>1, <2>2
<1>8. ASSUME NEW w \in Workers, Restore(w) PROVE OwedInv'
  <2>1. status = "refunded" /\ status' = "refunded"
    BY <1>8 DEF Restore, OwedInv, OwedStep
  <2> QED
    BY <1>8, <2>1, ReturnOwed DEF Restore, At
<1>9. ASSUME NEW w \in Workers, Crash(w) PROVE OwedInv'
  <2>1. OwedStep(w)'
    BY <1>0, <1>9 DEF Crash, OwedStep, At, Idle
  <2> QED
    BY <1>9, <2>1, MoveOwed DEF Crash, stripe, row
<1>10. CASE UNCHANGED vars
  BY <1>10 DEF vars, stripe, row, OwedInv, OwedStep, WholeIsOwed, At
<1> QED
  BY <1>1, <1>2, <1>3, <1>4, <1>5, <1>6, <1>7, <1>8, <1>9, <1>10 DEF Next, Step

\* A whole refund is never lost: as long as the row does not say refunded, Stripe still
\* owes each endpoint the event that will make it say so.  A row that says so stays so.
THEOREM WholeRefundIsOwed == Spec => []WholeIsOwed /\ [][status = "refunded" => status' = "refunded"]_vars
<1>1. OwedInv => WholeIsOwed
  BY DEF OwedInv
<1>2. [Next]_vars => [status = "refunded" => status' = "refunded"]_vars
  BY RefundedStays
<1> QED
  BY <1>1, <1>2, InitOwed, NextOwed, RefundTypes, PTL DEF Spec

=============================================================================
