--------------------------- MODULE DepositProofs ---------------------------
(***************************************************************************)
(* Theorems of DepositSettlement, for every number of sessions, deals,     *)
(* ledger rows, endpoints, invocations, refunds and faults.                *)
(***************************************************************************)
EXTENDS DepositSettlement, TLAPS

USE DepositAssumption

-----------------------------------------------------------------------------
(* Type correctness. *)

\* Moving an invocation to another step keeps the shape of worker.
LEMMA GoType ==
  ASSUME worker \in [Workers -> Invocation], NEW w, NEW pc \in PcValues, Go(w, pc)
  PROVE  worker' \in [Workers -> Invocation]
BY DEF Go, Invocation

\* ... and so does picking a row.
LEMMA PickType ==
  ASSUME worker \in [Workers -> Invocation], NEW w, NEW pc \in PcValues, NEW r \in Rows,
         worker' = [worker EXCEPT ![w].pc = pc, ![w].row = r]
  PROVE  worker' \in [Workers -> Invocation]
BY DEF Invocation

\* ... and ending it.
LEMMA IdleType ==
  ASSUME worker \in [Workers -> Invocation], NEW w,
         worker' = [worker EXCEPT ![w] = Idle]
  PROVE  worker' \in [Workers -> Invocation]
BY DEF Idle, Invocation, PcValues

\* ... and starting one.
LEMMA StartType ==
  ASSUME worker \in [Workers -> Invocation], NEW w,
         NEW pc \in PcValues, NEW s \in Sessions, NEW r \in Rows \cup {None},
         NEW ev \in Events \cup {None},
         Start(w, [pc |-> pc, ses |-> s, row |-> r, ev |-> ev])
  PROVE  worker' \in [Workers -> Invocation]
BY DEF Start, Invocation

\* Writing one row's status keeps the shape of the ledger.
LEMMA RowWriteType ==
  ASSUME row \in [Rows -> RowRecord], NEW r,
         NEW st \in {"succeeded", "refunded", "abandoned"},
         row' = [row EXCEPT ![r].st = st]
  PROVE  row' \in [Rows -> RowRecord]
BY DEF RowRecord

\* The Referral writes keep the shape of a deal.
LEMMA DealUpdates ==
  ASSUME NEW d \in DealRecord, NEW st \in Statuses
  PROVE  /\ [d EXCEPT !.status = st, !.requestedAt = TRUE] \in DealRecord
         /\ [d EXCEPT !.status = st, !.paidAt = TRUE] \in DealRecord
         /\ [d EXCEPT !.acceptedAt = TRUE, !.status = st] \in DealRecord
         /\ [d EXCEPT !.paidAt = TRUE] \in DealRecord
         /\ [d EXCEPT !.paidAt = FALSE, !.acceptedAt = FALSE, !.refundedAt = TRUE]
              \in DealRecord
<1>1. [d EXCEPT !.status = st, !.requestedAt = TRUE] \in DealRecord
  BY DEF DealRecord
<1>2. [d EXCEPT !.status = st, !.paidAt = TRUE] \in DealRecord
  BY DEF DealRecord
<1>3. [d EXCEPT !.acceptedAt = TRUE, !.status = st] \in DealRecord
  BY DEF DealRecord
<1>4. [d EXCEPT !.paidAt = TRUE] \in DealRecord
  BY DEF DealRecord
<1>5. [d EXCEPT !.paidAt = FALSE, !.acceptedAt = FALSE, !.refundedAt = TRUE]
        \in DealRecord
  BY DEF DealRecord
<1> QED
  BY <1>1, <1>2, <1>3, <1>4, <1>5

LEMMA DealStatusType ==
  ASSUME ref \in [Referrals -> DealRecord], NEW f, NEW st \in Statuses,
         \/ ref' = [ref EXCEPT ![f].status = st, ![f].requestedAt = TRUE]
         \/ ref' = [ref EXCEPT ![f].status = st, ![f].paidAt = TRUE]
         \/ ref' = [ref EXCEPT ![f].acceptedAt = TRUE, ![f].status = st]
  PROVE  ref' \in [Referrals -> DealRecord]
<1>1. CASE ref' = [ref EXCEPT ![f].status = st, ![f].requestedAt = TRUE]
  BY <1>1, DealUpdates
<1>2. CASE ref' = [ref EXCEPT ![f].status = st, ![f].paidAt = TRUE]
  BY <1>2, DealUpdates
<1>3. CASE ref' = [ref EXCEPT ![f].acceptedAt = TRUE, ![f].status = st]
  BY <1>3, DealUpdates
<1> QED
  BY <1>1, <1>2, <1>3

LEMMA DealStampType ==
  ASSUME ref \in [Referrals -> DealRecord], NEW f,
         \/ ref' = [ref EXCEPT ![f].paidAt = TRUE]
         \/ ref' = [ref EXCEPT ![f].paidAt = FALSE, ![f].acceptedAt = FALSE,
                               ![f].refundedAt = TRUE]
  PROVE  ref' \in [Referrals -> DealRecord]
<1>0. "Open" \in Statuses
  BY DEF Statuses
<1>1. CASE ref' = [ref EXCEPT ![f].paidAt = TRUE]
  BY <1>0, <1>1, DealUpdates
<1>2. CASE ref' = [ref EXCEPT ![f].paidAt = FALSE, ![f].acceptedAt = FALSE,
                              ![f].refundedAt = TRUE]
  BY <1>0, <1>2, DealUpdates
<1> QED
  BY <1>1, <1>2

LEMMA FaultType ==
  ASSUME faults \in 0..MaxFaults, Fault
  PROVE  faults' \in 0..MaxFaults
BY DEF Fault

LEMMA StatusValues == "Awaiting Payment" \in Statuses /\ "Slot Locked" \in Statuses
BY DEF Statuses

\* Counting one more run of the effects, up to the cap.
LEMMA EffectsType ==
  ASSUME effects \in [Sessions -> Nat], NEW s,
         effects' = [effects EXCEPT ![s] = IF @ < MaxEffects THEN @ + 1 ELSE @]
  PROVE  effects' \in [Sessions -> Nat]
<1>1. ASSUME s \in Sessions
      PROVE  (IF effects[s] < MaxEffects THEN effects[s] + 1 ELSE effects[s]) \in Nat
  BY <1>1
<1> QED
  BY <1>1

\* The program counters, as members of their set.
LEMMA Pcs ==
  /\ "claim" \in PcValues /\ "find" \in PcValues /\ "flip" \in PcValues
  /\ "backflip" \in PcValues /\ "stamp" \in PcValues /\ "finish" \in PcValues
  /\ "refundFind" \in PcValues /\ "refundWrite" \in PcValues
  /\ "restoreRead" \in PcValues /\ "restoreWrite" \in PcValues
  /\ "backfill" \in PcValues /\ "abandonRow" \in PcValues
  /\ "abandonPi" \in PcValues /\ "abandonWrite" \in PcValues
  /\ "healRead" \in PcValues /\ "healWrite" \in PcValues
BY DEF PcValues

LEMMA InitType == Init => TypeOK
<1> SUFFICES ASSUME Init PROVE TypeOK
  OBVIOUS
<1>1. Absent \in RowRecord
  BY DEF Absent, RowRecord
<1>2. [status |-> "Open", requestedAt |-> FALSE, paidAt |-> FALSE, acceptedAt |-> FALSE,
       refundedAt |-> FALSE] \in DealRecord
  BY DEF DealRecord, Statuses
<1>3. Idle \in Invocation
  BY DEF Idle, Invocation, PcValues
<1> QED
  BY <1>1, <1>2, <1>3 DEF Init, TypeOK, SessionStates

\* A session is on every row that a mint has recorded.
LEMMA NextType == TypeOK /\ RowSound /\ [Next]_vars => TypeOK'
<1> SUFFICES ASSUME TypeOK, RowSound, [Next]_vars
             PROVE  TypeOK'
  OBVIOUS
<1> USE Pcs DEF TypeOK
<1>1. ASSUME NEW s \in Sessions, Pay(s) PROVE TypeOK'
  BY <1>1 DEF Pay, SessionStates, Events
<1>2. ASSUME NEW s \in Sessions, Expire(s) PROVE TypeOK'
  <2>1. session' \in [Sessions -> SessionStates]
    BY <1>2 DEF Expire, SessionStates
  <2> QED
    BY <1>2, <2>1 DEF Expire
<1>3. ASSUME NEW s \in Sessions, Refund(s) PROVE TypeOK'
  BY <1>3 DEF Refund, Events
<1>4. ASSUME NEW s \in Sessions, ExpireClaim(s) PROVE TypeOK'
  BY <1>4 DEF ExpireClaim
<1>5. ASSUME NEW s \in Sessions, NEW r \in Rows, Mint(s, r) PROVE TypeOK'
  <2>1. session' \in [Sessions -> SessionStates]
    BY <1>5 DEF Mint, SessionStates
  <2>2. row' \in [Rows -> RowRecord]
    BY <1>5 DEF Mint, RowRecord
  <2>3. ref' \in [Referrals -> DealRecord]
    BY <1>5, DealStatusType, StatusValues DEF Mint
  <2> QED
    BY <1>5, <2>1, <2>2, <2>3, FaultType DEF Mint
<1>6. ASSUME NEW f \in Referrals, Accept(f) PROVE TypeOK'
  <2>1. ref' \in [Referrals -> DealRecord]
    BY <1>6, DealStatusType, StatusValues DEF Accept
  <2> QED
    BY <1>6, <2>1 DEF Accept
<1>7. ASSUME NEW w \in Workers, NEW ev \in Events, Deliver(w, ev) PROVE TypeOK'
  <2>1. ev.ses \in Sessions
    BY DEF Events
  <2>2. worker' \in [Workers -> Invocation]
    BY <1>7, <2>1, StartType DEF Deliver
  <2> QED
    BY <1>7, <2>2 DEF Deliver
<1>8. ASSUME NEW w \in Workers, NEW r \in Rows, Reap(w, r) PROVE TypeOK'
  <2> DEFINE s == IF row[r].pi = None THEN row[r].ses ELSE row[r].pi
  <2>1. s \in Sessions
    BY <1>8 DEF Reap, RowSound, SoundRow, RowRecord
  <2>2. worker' \in [Workers -> Invocation]
    BY <1>8, <2>1, StartType DEF Reap, AfterPi
  <2> QED
    BY <1>8, <2>2 DEF Reap, stripe
<1>9. ASSUME NEW w \in Workers, NEW r \in Rows, HealPick(w, r) PROVE TypeOK'
  <2>1. row[r].ses \in Sessions
    BY <1>9 DEF HealPick, RowSound, SoundRow
  <2>2. worker' \in [Workers -> Invocation]
    BY <1>9, <2>1, StartType DEF HealPick
  <2> QED
    BY <1>9, <2>2 DEF HealPick, stripe
<1>10. ASSUME NEW w \in Workers, Claim(w) PROVE TypeOK'
  <2>1. worker' \in [Workers -> Invocation]
    BY <1>10, GoType, IdleType DEF Claim, Return
  <2> QED
    BY <1>10, <2>1 DEF Claim, Return
<1>11. ASSUME NEW w \in Workers, Find(w) PROVE TypeOK'
  <2>1. worker' \in [Workers -> Invocation]
    BY <1>11, GoType, IdleType, PickType DEF Find, ByPi, Pending, Return
  <2> QED
    BY <1>11, <2>1 DEF Find, Return
<1>12. ASSUME NEW w \in Workers, Flip(w) PROVE TypeOK'
  <2>1. worker' \in [Workers -> Invocation]
    BY <1>12, GoType DEF Flip
  <2>2. worker[w].ses \in Sessions \cup {None}
    BY DEF Invocation
  <2>3. row' \in [Rows -> RowRecord]
    BY <1>12, <2>2 DEF Flip, RowRecord
  <2> QED
    BY <1>12, <2>1, <2>3 DEF Flip, stripe
<1>13. ASSUME NEW w \in Workers, Stamp(w) PROVE TypeOK'
  <2>1. worker' \in [Workers -> Invocation]
    BY <1>13, GoType DEF Stamp
  <2>2. ref' \in [Referrals -> DealRecord]
    BY <1>13, DealStatusType, StatusValues DEF Stamp
  <2> QED
    BY <1>13, <2>1, <2>2, FaultType DEF Stamp, stripe
<1>14. ASSUME NEW w \in Workers, Finish(w) PROVE TypeOK'
  <2>1. worker' \in [Workers -> Invocation]
    BY <1>14, IdleType DEF Finish, Return
  <2>2. effects' \in [Sessions -> Nat]
    BY <1>14, EffectsType DEF Finish
  <2> QED
    BY <1>14, <2>1, <2>2 DEF Finish, Return
<1>15. ASSUME NEW w \in Workers, RefundFind(w) PROVE TypeOK'
  <2>1. worker' \in [Workers -> Invocation]
    BY <1>15, IdleType, PickType DEF RefundFind, ByPi, Return
  <2> QED
    BY <1>15, <2>1 DEF RefundFind, Return
<1>16. ASSUME NEW w \in Workers, RefundWrite(w) PROVE TypeOK'
  <2>1. worker' \in [Workers -> Invocation]
    BY <1>16, GoType DEF RefundWrite
  <2>2. row' \in [Rows -> RowRecord]
    BY <1>16, RowWriteType DEF RefundWrite
  <2> QED
    BY <1>16, <2>1, <2>2 DEF RefundWrite, stripe
<1>17. ASSUME NEW w \in Workers, RestoreRead(w) PROVE TypeOK'
  <2>1. worker' \in [Workers -> Invocation]
    BY <1>17, GoType, IdleType DEF RestoreRead, Return
  <2> QED
    BY <1>17, <2>1, FaultType DEF RestoreRead, Return
<1>18. ASSUME NEW w \in Workers, RestoreWrite(w) PROVE TypeOK'
  <2>1. worker' \in [Workers -> Invocation]
    BY <1>18, IdleType DEF RestoreWrite, Return
  <2>2. ref' \in [Referrals -> DealRecord]
    BY <1>18, DealStampType DEF RestoreWrite
  <2> QED
    BY <1>18, <2>1, <2>2, FaultType DEF RestoreWrite, Return
<1>19. ASSUME NEW w \in Workers, Backfill(w) PROVE TypeOK'
  <2>1. worker' \in [Workers -> Invocation]
    BY <1>19, GoType DEF Backfill, AfterPi
  <2>2. worker[w].ses \in Sessions \cup {None}
    BY DEF Invocation
  <2>3. row' \in [Rows -> RowRecord]
    BY <1>19, <2>2 DEF Backfill, RowRecord
  <2> QED
    BY <1>19, <2>1, <2>3, FaultType DEF Backfill, stripe
<1>20. ASSUME NEW w \in Workers, AbandonRead(w) PROVE TypeOK'
  <2>1. worker' \in [Workers -> Invocation]
    BY <1>20, IdleType, PickType DEF AbandonRead
  <2> QED
    BY <1>20, <2>1 DEF AbandonRead, stripe
<1>21. ASSUME NEW w \in Workers, AbandonMiss(w) PROVE TypeOK'
  BY <1>21, IdleType DEF AbandonMiss, stripe
<1>22. ASSUME NEW w \in Workers, AbandonWrite(w) PROVE TypeOK'
  <2>1. row' \in [Rows -> RowRecord]
    BY <1>22, RowWriteType DEF AbandonWrite
  <2> QED
    BY <1>22, <2>1, IdleType DEF AbandonWrite, stripe
<1>23. ASSUME NEW w \in Workers, HealRead(w) PROVE TypeOK'
  <2>1. worker' \in [Workers -> Invocation]
    BY <1>23, IdleType, GoType DEF HealRead
  <2> QED
    BY <1>23, <2>1 DEF HealRead, stripe
<1>24. ASSUME NEW w \in Workers, HealWrite(w) PROVE TypeOK'
  <2>1. ref' \in [Referrals -> DealRecord]
    BY <1>24, DealStampType DEF HealWrite
  <2> QED
    BY <1>24, <2>1, IdleType DEF HealWrite, stripe
<1>25. ASSUME NEW w \in Workers, Crash(w) PROVE TypeOK'
  BY <1>25, IdleType, FaultType DEF Crash, stripe
<1>26. CASE UNCHANGED vars
  BY <1>26 DEF vars
<1> QED
  BY <1>1, <1>2, <1>3, <1>4, <1>5, <1>6, <1>7, <1>8, <1>9, <1>10, <1>11,
     <1>12, <1>13, <1>14, <1>15, <1>16, <1>17, <1>18, <1>19, <1>20, <1>21,
     <1>22, <1>23, <1>24, <1>25, <1>26
  DEF Next, WorkerStep

-----------------------------------------------------------------------------
(* The money invariant. *)

\* A charge and a refund are for ever.
LEMMA StripeStable ==
  ASSUME TypeOK, [Next]_vars
  PROVE  /\ \A s \in Sessions : session[s] = "paid" => session'[s] = "paid"
         /\ refunded \subseteq refunded'
<1> USE DEF TypeOK, stripe
<1>1. ASSUME NEW s \in Sessions, Pay(s) \/ Expire(s) \/ Refund(s) \/ ExpireClaim(s)
      PROVE  /\ \A t \in Sessions : session[t] = "paid" => session'[t] = "paid"
             /\ refunded \subseteq refunded'
  BY <1>1 DEF Pay, Expire, Refund, ExpireClaim
<1>2. ASSUME NEW s \in Sessions, NEW r \in Rows, Mint(s, r)
      PROVE  /\ \A t \in Sessions : session[t] = "paid" => session'[t] = "paid"
             /\ refunded \subseteq refunded'
  BY <1>2 DEF Mint
<1>3. ASSUME NEW w \in Workers, WorkerStep(w)
      PROVE  UNCHANGED <<session, refunded>>
  BY <1>3 DEF WorkerStep, Claim, Find, Flip, Stamp, Finish, RefundFind, RefundWrite,
     RestoreRead, RestoreWrite, Backfill, AbandonRead, AbandonMiss, AbandonWrite,
     HealRead, HealWrite
<1> QED
  BY <1>1, <1>2, <1>3 DEF Next, Accept, Deliver, Reap, HealPick, Crash, vars

\* A recorded row keeps its session, and is never un-recorded.
LEMMA RowStable ==
  ASSUME TypeOK, [Next]_vars, NEW r \in Rows, row[r].st # "absent"
  PROVE  row'[r].st # "absent" /\ row'[r].ses = row[r].ses
<1> USE DEF TypeOK, stripe, RowRecord
<1>1. ASSUME NEW s \in Sessions, Pay(s) \/ Expire(s) \/ Refund(s) \/ ExpireClaim(s)
      PROVE  row' = row
  BY <1>1 DEF Pay, Expire, Refund, ExpireClaim
<1>2. ASSUME NEW s \in Sessions, NEW q \in Rows, Mint(s, q)
      PROVE  row'[r] = row[r]
  <2>1. row[q] = Absent
    BY <1>2 DEF Mint
  <2>2. q # r
    BY <2>1 DEF Absent
  <2>3. row' = [row EXCEPT ![q] = [st |-> "pending", ses |-> s, pi |-> None]]
    BY <1>2 DEF Mint
  <2> QED
    BY <2>2, <2>3
<1>3. ASSUME NEW w \in Workers,
             Flip(w) \/ RefundWrite(w) \/ Backfill(w) \/ AbandonWrite(w)
      PROVE  row'[r].st # "absent" /\ row'[r].ses = row[r].ses
  <2>1. CASE Flip(w)
    BY <2>1 DEF Flip
  <2>2. CASE RefundWrite(w)
    BY <2>2 DEF RefundWrite
  <2>3. CASE Backfill(w)
    BY <2>3 DEF Backfill
  <2>4. CASE AbandonWrite(w)
    BY <2>4 DEF AbandonWrite
  <2> QED
    BY <1>3, <2>1, <2>2, <2>3, <2>4
<1>4. ASSUME NEW w \in Workers, WorkerStep(w),
             ~(Flip(w) \/ RefundWrite(w) \/ Backfill(w) \/ AbandonWrite(w))
      PROVE  row' = row
  BY <1>4 DEF WorkerStep, Claim, Find, Stamp, Finish, RefundFind, RestoreRead,
     RestoreWrite, AbandonRead, AbandonMiss, HealRead, HealWrite
<1> QED
  BY <1>1, <1>2, <1>3, <1>4 DEF Next, Accept, Deliver, Reap, HealPick, Crash, vars

\* An invocation that does not move stays sound, whatever the others do.
LEMMA OthersSound ==
  ASSUME TypeOK, RowSound, [Next]_vars, NEW v \in Workers,
         InvocationSound(v), worker'[v] = worker[v]
  PROVE  InvocationSound(v)'
<1>1. Charged(RefOf[worker[v].ses]) => Charged(RefOf[worker[v].ses])'
  BY StripeStable DEF Charged
<1>2. HasRow(v) => HasRow(v)'
  BY RowStable DEF HasRow, DealOf
<1> QED
  BY <1>1, <1>2, StripeStable DEF InvocationSound, At, Settling

LEMMA MoneyInit == Init => MoneySound
BY DEF Init, MoneySound, StripeSound, RowSound, SoundRow, WorkerSound,
   InvocationSound, At,   Idle, Absent, Settling

\* The Stripe side: events are only of charges and refunds that happened.
LEMMA StripeSoundNext == TypeOK /\ StripeSound /\ [Next]_vars => StripeSound'
<1> SUFFICES ASSUME TypeOK, StripeSound, [Next]_vars
             PROVE  StripeSound'
  OBVIOUS
<1>1. ASSUME NEW s \in Sessions, Pay(s) PROVE StripeSound'
  BY <1>1 DEF Pay, StripeSound, TypeOK
<1>2. ASSUME NEW s \in Sessions, Refund(s) PROVE StripeSound'
  BY <1>2 DEF Refund, StripeSound, TypeOK
<1>3. ASSUME inbox' \subseteq inbox, refunded' = refunded PROVE StripeSound'
  <2>1. \A ev \in inbox : ev.ses \in Sessions
    BY DEF TypeOK, Events
  <2> QED
    BY <1>3, <2>1, StripeStable DEF StripeSound, TypeOK
<1>4. ASSUME NEW w \in Workers, WorkerStep(w)
      PROVE  inbox' \subseteq inbox /\ refunded' = refunded
  BY <1>4 DEF WorkerStep, Claim, Find, Flip, Stamp, Finish, RefundFind, RefundWrite,
     RestoreRead, RestoreWrite, Backfill, AbandonRead, AbandonMiss, AbandonWrite,
     HealRead, HealWrite, Return, stripe
<1> QED
  BY <1>1, <1>2, <1>3, <1>4
  DEF Next, Expire, ExpireClaim, Mint, Accept, Deliver, Reap, HealPick, Crash,
      vars, stripe

\* The ledger: a row names only PaymentIntents of its deal, and says succeeded
\* only when some buyer of the deal was charged.
LEMMA RowSoundNext == TypeOK /\ MoneySound /\ [Next]_vars => RowSound'
<1> SUFFICES ASSUME TypeOK, MoneySound, [Next]_vars, NEW r \in Rows
             PROVE  SoundRow(r)'
  BY DEF RowSound
<1>0. SoundRow(r)
  BY DEF MoneySound, RowSound
<1>1. ASSUME NEW f PROVE Charged(f) => Charged(f)'
  BY StripeStable DEF Charged
<1>2. CASE row'[r] = row[r]
  BY <1>0, <1>1, <1>2 DEF SoundRow, DealOf
<1>3. ASSUME NEW s \in Sessions, Mint(s, r) PROVE SoundRow(r)'
  <2>1. row'[r] = [st |-> "pending", ses |-> s, pi |-> None]
    BY <1>3 DEF Mint, TypeOK
  <2> QED
    BY <2>1 DEF SoundRow, DealOf
<1>4. ASSUME NEW w \in Workers, worker[w].row = r,
             Flip(w) \/ RefundWrite(w) \/ Backfill(w) \/ AbandonWrite(w)
      PROVE  SoundRow(r)'
  <2>1. HasRow(w) /\ worker[w].ses \in Sessions
    BY <1>4 DEF MoneySound, WorkerSound, InvocationSound, Flip, RefundWrite, Backfill,
       AbandonWrite, At
  <2>2. /\ row[r].st # "absent" /\ row[r].ses \in Sessions
        /\ RefOf[worker[w].ses] = DealOf(r)
    BY <1>0, <1>4, <2>1 DEF HasRow, SoundRow
  <2>3. row[r] \in RowRecord
    BY DEF TypeOK
  <2>4. CASE Flip(w)
    <3>1. session[worker[w].ses] = "paid"
      BY <2>4 DEF Flip, At, Settling, MoneySound, WorkerSound, InvocationSound
    <3>2. Charged(DealOf(r))
      BY <2>1, <2>2, <3>1 DEF Charged
    <3>3. /\ row'[r].st = "succeeded" /\ row'[r].ses = row[r].ses
          /\ row'[r].pi \in {row[r].pi, worker[w].ses}
      BY <1>4, <2>3, <2>4 DEF Flip, RowRecord, TypeOK
    <3>4. Charged(DealOf(r))'
      BY <1>1, <3>2, <3>3 DEF DealOf
    <3> QED
      BY <1>0, <2>2, <3>3, <3>4 DEF SoundRow, DealOf
  <2>5. CASE RefundWrite(w) \/ AbandonWrite(w)
    <3>1. /\ row'[r].st \in {"refunded", "abandoned"}
          /\ row'[r].ses = row[r].ses /\ row'[r].pi = row[r].pi
      BY <1>4, <2>3, <2>5 DEF RefundWrite, AbandonWrite, RowRecord, TypeOK
    <3> QED
      BY <1>0, <2>2, <3>1 DEF SoundRow, DealOf
  <2>6. CASE Backfill(w)
    <3>1. /\ row'[r].st = row[r].st /\ row'[r].ses = row[r].ses
          /\ row'[r].pi \in {row[r].pi, worker[w].ses}
      BY <1>4, <2>3, <2>6 DEF Backfill, RowRecord, TypeOK
    <3> QED
      BY <1>0, <1>1, <2>2, <3>1 DEF SoundRow, DealOf
  <2> QED
    BY <1>4, <2>4, <2>5, <2>6
<1>5. ASSUME NEW s \in Sessions, NEW q \in Rows, Mint(s, q), q # r
      PROVE  row'[r] = row[r]
  BY <1>5 DEF Mint, TypeOK
<1>6. ASSUME NEW w \in Workers, worker[w].row # r,
             Flip(w) \/ RefundWrite(w) \/ Backfill(w) \/ AbandonWrite(w)
      PROVE  row'[r] = row[r]
  BY <1>6 DEF Flip, RefundWrite, Backfill, AbandonWrite, TypeOK
<1>7. ASSUME NEW w \in Workers, WorkerStep(w),
             ~(Flip(w) \/ RefundWrite(w) \/ Backfill(w) \/ AbandonWrite(w))
      PROVE  row' = row
  BY <1>7 DEF WorkerStep, Claim, Find, Stamp, Finish, RefundFind, RestoreRead,
     RestoreWrite, AbandonRead, AbandonMiss, HealRead, HealWrite, stripe
<1>8. CASE row' = row
  BY <1>2, <1>8
<1> QED
  BY <1>2, <1>3, <1>4, <1>5, <1>6, <1>7, <1>8
  DEF Next, WorkerStep, Pay, Expire, Refund, ExpireClaim, Accept, Deliver, Reap,
      HealPick, Crash, vars, stripe

LEMMA IdleSound ==
  ASSUME NEW w \in Workers, worker'[w] = Idle
  PROVE  InvocationSound(w)'
BY DEF InvocationSound, At, Idle, Settling

\* A row found by PaymentIntent, or pending for the deal, is a row of the deal.
LEMMA FoundRow ==
  ASSUME TypeOK, RowSound, NEW s \in Sessions, NEW r \in ByPi(s) \cup Pending(RefOf[s])
  PROVE  r \in Rows /\ row[r].st # "absent" /\ RefOf[s] = DealOf(r)
BY DEF ByPi, Pending, RowSound, SoundRow

\* Invocations: what each step relies on was true when it was taken, and still is.
LEMMA WorkerSoundNext == TypeOK /\ MoneySound /\ [Next]_vars => WorkerSound'
<1> SUFFICES ASSUME TypeOK, MoneySound, [Next]_vars, NEW v \in Workers
             PROVE  InvocationSound(v)'
  BY DEF WorkerSound
<1>0. InvocationSound(v) /\ RowSound /\ StripeSound
  BY DEF MoneySound, WorkerSound
<1>1. CASE worker'[v] = worker[v]
  BY <1>0, <1>1, OthersSound
<1>2. CASE worker'[v] = Idle
  BY <1>2, IdleSound
<1> DEFINE s == worker[v].ses
<1>3. worker[v] \in Invocation /\ worker \in [Workers -> Invocation]
  BY DEF TypeOK
<1>4. ~At(v, "idle") => s \in Sessions
  BY <1>0 DEF InvocationSound
<1>5. ASSUME NEW ev \in Events, Deliver(v, ev) PROVE InvocationSound(v)'
  <2>1. ev \in inbox /\ ev.ses \in Sessions /\ ev.kind \in {"paid", "refund"}
    BY <1>5 DEF Deliver, Events
  <2>2. worker'[v] = [pc |-> IF ev.kind = "paid" THEN "claim" ELSE "refundFind",
                      ses |-> ev.ses, row |-> None, ev |-> ev]
    BY <1>3, <1>5 DEF Deliver, Start
  <2>3. session'[ev.ses] = "paid" /\ (ev.kind = "refund" => ev.ses \in refunded')
    BY <1>0, <1>5, <2>1 DEF Deliver, StripeSound
  <2> QED
    BY <2>1, <2>2, <2>3 DEF InvocationSound, At, Settling
<1>6. ASSUME NEW r \in Rows, Reap(v, r) PROVE InvocationSound(v)'
  <2> DEFINE t == IF row[r].pi = None THEN row[r].ses ELSE row[r].pi
  <2>1. /\ row[r].st # "absent" /\ row[r].ses \in Sessions /\ t \in Sessions
        /\ RefOf[t] = DealOf(r)
    BY <1>0, <1>6 DEF Reap, RowSound, SoundRow, DealOf, TypeOK, RowRecord
  <2>2. PICK pc \in {"claim", "abandonPi", "abandonRow", "backfill"} :
          /\ worker'[v] = [pc |-> pc, ses |-> t, row |-> r, ev |-> None]
          /\ pc = "claim" => session[t] = "paid"
    BY <1>3, <1>6 DEF Reap, Start, AfterPi
  <2>3. session' = session /\ row' = row
    BY <1>6 DEF Reap, stripe
  <2> QED
    BY <2>1, <2>2, <2>3 DEF InvocationSound, At, Settling, HasRow, DealOf
<1>7. ASSUME NEW r \in Rows, HealPick(v, r) PROVE InvocationSound(v)'
  <2>1. worker'[v] = [pc |-> "healRead", ses |-> row[r].ses, row |-> r, ev |-> None]
    BY <1>3, <1>7 DEF HealPick, Start
  <2>2. row' = row /\ row[r].ses \in Sessions /\ Charged(RefOf[row[r].ses])'
    BY <1>0, <1>7 DEF HealPick, RowSound, SoundRow, DealOf, Charged, stripe
  <2>3. worker'[v].pc = "healRead" /\ worker'[v].ses = row[r].ses
    BY <2>1
  <2>4. Charged(RefOf[worker[v].ses])'
    BY <2>2, <2>3 DEF Charged
  <2> QED
    BY <2>2, <2>3, <2>4 DEF InvocationSound, At, Settling
<1>8. ASSUME Claim(v) \/ Flip(v) \/ Stamp(v), worker'[v] # Idle PROVE InvocationSound(v)'
  <2>1. /\ s \in Sessions /\ session[s] = "paid"
        /\ worker'[v] \in {[worker[v] EXCEPT !.pc = "find"],
                           [worker[v] EXCEPT !.pc = "stamp"],
                           [worker[v] EXCEPT !.pc = "finish"]}
    BY <1>0, <1>3, <1>4, <1>8 DEF Claim, Flip, Stamp, At, Go, Return,
       InvocationSound, Settling
  <2>2. session' = session
    BY <1>8 DEF Claim, Flip, Stamp, stripe
  <2> QED
    BY <1>3, <2>1, <2>2 DEF InvocationSound, At, Settling, Invocation
<1>9. ASSUME Find(v), worker'[v] # Idle PROVE InvocationSound(v)'
  <2>1. s \in Sessions /\ session[s] = "paid"
    BY <1>0, <1>4, <1>9 DEF Find, At, InvocationSound, Settling
  <2>2. session' = session /\ row' = row
    BY <1>9 DEF Find
  <2>3. \/ worker'[v] = [worker[v] EXCEPT !.pc = "stamp"]
        \/ \E r \in ByPi(s) \cup Pending(RefOf[s]), pc \in {"flip", "backflip"} :
             worker'[v] = [worker[v] EXCEPT !.pc = pc, !.row = r]
    BY <1>3, <1>9 DEF Find, Go, Return
  <2>4. CASE worker'[v] = [worker[v] EXCEPT !.pc = "stamp"]
    BY <1>3, <2>1, <2>2, <2>4 DEF InvocationSound, At, Settling, Invocation
  <2>5. ASSUME NEW r \in ByPi(s) \cup Pending(RefOf[s]), NEW pc \in {"flip", "backflip"},
               worker'[v] = [worker[v] EXCEPT !.pc = pc, !.row = r]
        PROVE  InvocationSound(v)'
    <3>1. r \in Rows /\ row[r].st # "absent" /\ RefOf[s] = DealOf(r)
      BY <1>0, <2>1, FoundRow
    <3>2. worker'[v].pc = pc /\ worker'[v].row = r /\ worker'[v].ses = s
      BY <1>3, <2>5 DEF Invocation
    <3> QED
      BY <2>1, <2>2, <3>1, <3>2 DEF InvocationSound, At, Settling, HasRow, DealOf
  <2> QED
    BY <2>3, <2>4, <2>5
<1>10. ASSUME RefundFind(v), worker'[v] # Idle PROVE InvocationSound(v)'
  <2>1. s \in Sessions /\ s \in refunded
    BY <1>0, <1>4, <1>10 DEF RefundFind, At, InvocationSound
  <2>2. PICK r \in ByPi(s) : worker'[v] = [worker[v] EXCEPT !.pc = "refundWrite", !.row = r]
    BY <1>3, <1>10 DEF RefundFind, Return
  <2>3. r \in Rows /\ row[r].st # "absent" /\ RefOf[s] = DealOf(r)
    BY <1>0, <2>1, FoundRow
  <2>4. worker'[v].pc = "refundWrite" /\ worker'[v].row = r /\ worker'[v].ses = s
    BY <1>3, <2>2 DEF Invocation
  <2>5. refunded' = refunded /\ row' = row
    BY <1>10 DEF RefundFind
  <2> QED
    BY <2>1, <2>3, <2>4, <2>5 DEF InvocationSound, At, Settling, HasRow, DealOf
<1>11. ASSUME RefundWrite(v) \/ RestoreRead(v), worker'[v] # Idle
       PROVE  InvocationSound(v)'
  <2>1. s \in refunded /\ HasRow(v) /\ s \in Sessions
    BY <1>0, <1>4, <1>11 DEF RefundWrite, RestoreRead, At, InvocationSound
  <2>2. PICK pc \in {"restoreRead", "restoreWrite"} :
          worker'[v] = [worker[v] EXCEPT !.pc = pc]
    BY <1>3, <1>11 DEF RefundWrite, RestoreRead, Go, Return
  <2>3. worker'[v].pc = pc /\ worker'[v].row = worker[v].row /\ worker'[v].ses = s
    BY <1>3, <2>2 DEF Invocation
  <2>4. HasRow(v)'
    BY <2>1, <2>3, RowStable DEF HasRow, DealOf
  <2>5. s \in refunded'
    BY <2>1, StripeStable
  <2> QED
    BY <2>1, <2>3, <2>4, <2>5 DEF InvocationSound, At, Settling
<1>12. ASSUME Backfill(v) PROVE InvocationSound(v)'
  <2>1. HasRow(v) /\ s \in Sessions
    BY <1>0, <1>4, <1>12 DEF Backfill, At, InvocationSound
  <2>2. worker'[v] = [worker[v] EXCEPT !.pc = AfterPi(s)] /\ session' = session
    BY <1>3, <1>12 DEF Backfill, Go, stripe
  <2> QED
    BY <1>3, <2>1, <2>2 DEF InvocationSound, At, Settling, AfterPi, Invocation
<1>13. ASSUME AbandonRead(v), worker'[v] # Idle PROVE InvocationSound(v)'
  <2>1. s \in Sessions
    BY <1>4, <1>13 DEF AbandonRead, At
  <2>2. PICK r \in Rows : /\ (r = worker[v].row /\ HasRow(v)) \/ r \in ByPi(s)
                          /\ worker'[v] = [worker[v] EXCEPT !.pc = "abandonWrite", !.row = r]
    <3>1. PICK r \in Rows : /\ \/ At(v, "abandonRow") /\ r = worker[v].row
                               \/ r \in ByPi(s)
                            /\ worker'[v] = [worker[v] EXCEPT !.pc = "abandonWrite", !.row = r]
      BY <1>3, <1>13 DEF AbandonRead
    <3>2. At(v, "abandonRow") => HasRow(v)
      BY <1>0 DEF At, InvocationSound
    <3> QED
      BY <3>1, <3>2
  <2>3. row[r].st # "absent" /\ RefOf[s] = DealOf(r)
    BY <1>0, <2>1, <2>2, FoundRow DEF HasRow
  <2>4. worker'[v].pc = "abandonWrite" /\ worker'[v].row = r /\ worker'[v].ses = s
    BY <1>3, <2>2 DEF Invocation
  <2>5. row' = row
    BY <1>13 DEF AbandonRead
  <2> QED
    BY <2>1, <2>3, <2>4, <2>5 DEF InvocationSound, At, Settling, HasRow, DealOf
<1>14. ASSUME HealRead(v), worker'[v] # Idle PROVE InvocationSound(v)'
  <2>1. s \in Sessions /\ Charged(RefOf[s])
    BY <1>0, <1>4, <1>14 DEF HealRead, At, InvocationSound
  <2>2. worker'[v] = [worker[v] EXCEPT !.pc = "healWrite"] /\ session' = session
    BY <1>3, <1>14 DEF HealRead, Go, stripe
  <2> QED
    BY <1>3, <2>1, <2>2 DEF InvocationSound, At, Settling, Charged, Invocation
<1>15. ASSUME Finish(v) \/ RestoreWrite(v) \/ AbandonMiss(v) \/ AbandonWrite(v)
              \/ HealWrite(v) \/ Crash(v)
       PROVE  worker'[v] = Idle
  BY <1>3, <1>15 DEF Finish, RestoreWrite, AbandonMiss, AbandonWrite, HealWrite, Crash, Return
<1>16. ASSUME NEW w \in Workers, w # v,
              \/ \E ev \in Events : Deliver(w, ev)
              \/ \E r \in Rows : Reap(w, r) \/ HealPick(w, r)
       PROVE  worker'[v] = worker[v]
  BY <1>3, <1>16 DEF Deliver, Reap, HealPick, Start
<1>17. ASSUME NEW w \in Workers, w # v, WorkerStep(w) \/ Crash(w)
       PROVE  worker'[v] = worker[v]
  BY <1>3, <1>17 DEF WorkerStep, Claim, Find, Flip, Stamp, Finish, RefundFind, RefundWrite,
     RestoreRead, RestoreWrite, Backfill, AbandonRead, AbandonMiss, AbandonWrite,
     HealRead, HealWrite, Crash, Go, Return
<1>18. ASSUME \/ \E t \in Sessions : Pay(t) \/ Expire(t) \/ Refund(t) \/ ExpireClaim(t)
              \/ \E t \in Sessions, r \in Rows : Mint(t, r)
              \/ \E f \in Referrals : Accept(f)
       PROVE  worker' = worker
  BY <1>18 DEF Pay, Expire, Refund, ExpireClaim, Mint, Accept
<1> QED
  BY <1>1, <1>2, <1>5, <1>6, <1>7, <1>8, <1>9, <1>10, <1>11, <1>12, <1>13, <1>14,
     <1>15, <1>16, <1>17, <1>18
  DEF Next, WorkerStep, vars

-----------------------------------------------------------------------------
(* Theorems. *)

LEMMA MoneyInvariant == Spec => [](TypeOK /\ MoneySound)
<1>1. Init => TypeOK /\ MoneySound
  BY InitType, MoneyInit
<1>2. TypeOK /\ MoneySound /\ [Next]_vars => (TypeOK /\ MoneySound)'
  BY NextType, StripeSoundNext, RowSoundNext, WorkerSoundNext DEF MoneySound
<1> QED
  BY <1>1, <1>2, PTL DEF Spec

\* Every record the code keeps has the shape the code writes.
THEOREM TypeCorrect == Spec => []TypeOK
BY MoneyInvariant, PTL

\* markDepositSucceeded and the reaper book a deposit only for a deal whose buyer
\* was charged, however many invocations race with stale lookups.
THEOREM LedgerIsCharged == Spec => []BookedIsCharged
<1>1. MoneySound => BookedIsCharged
  BY DEF MoneySound, RowSound, SoundRow, BookedIsCharged
<1> QED
  BY <1>1, MoneyInvariant, PTL

\* What the two stamping writes and the restore do to 'Deposit Paid At'.
LEMMA PaidAtWrites ==
  ASSUME ref \in [Referrals -> DealRecord], NEW f \in Referrals
  PROVE  /\ \/ ref' = [ref EXCEPT ![f].paidAt = TRUE]
            \/ ref' = [ref EXCEPT ![f].status = "Awaiting Payment", ![f].paidAt = TRUE]
            => \A g \in Referrals : ref'[g].paidAt = IF g = f THEN TRUE ELSE ref[g].paidAt
         /\ ref' = [ref EXCEPT ![f].paidAt = FALSE, ![f].acceptedAt = FALSE,
                               ![f].refundedAt = TRUE]
            => \A g \in Referrals : ref'[g].paidAt = IF g = f THEN FALSE ELSE ref[g].paidAt
<1>1. ASSUME ref' = [ref EXCEPT ![f].paidAt = TRUE], NEW g \in Referrals
      PROVE  ref'[g].paidAt = IF g = f THEN TRUE ELSE ref[g].paidAt
  BY <1>1 DEF DealRecord
<1>2. ASSUME ref' = [ref EXCEPT ![f].status = "Awaiting Payment", ![f].paidAt = TRUE],
             NEW g \in Referrals
      PROVE  ref'[g].paidAt = IF g = f THEN TRUE ELSE ref[g].paidAt
  BY <1>2 DEF DealRecord
<1>3. ASSUME ref' = [ref EXCEPT ![f].paidAt = FALSE, ![f].acceptedAt = FALSE,
                                ![f].refundedAt = TRUE],
             NEW g \in Referrals
      PROVE  ref'[g].paidAt = IF g = f THEN FALSE ELSE ref[g].paidAt
  BY <1>3 DEF DealRecord
<1> QED
  BY <1>1, <1>2, <1>3

\* Settlement implements MoneyTruth: 'Deposit Paid At' follows a charge of the deal,
\* and only a refund of the deal takes it back.
THEOREM SettlementImplementsMoneyTruth == Spec => ImplementsMoneyTruth
<1>1. Init => MT!Init
  BY DEF Init, MT!Init
<1>2. TypeOK /\ MoneySound /\ [Next]_vars =>
        [MT!Next]_<<{s \in Sessions : session[s] = "paid"}, refunded,
                    {f \in Referrals : ref[f].paidAt}>>
  <2> SUFFICES ASSUME TypeOK, MoneySound, [Next]_vars
               PROVE  [MT!Next]_<<{s \in Sessions : session[s] = "paid"}, refunded,
                                  {f \in Referrals : ref[f].paidAt}>>
    OBVIOUS
  <2> DEFINE paid == {s \in Sessions : session[s] = "paid"}
             stamped == {f \in Referrals : ref[f].paidAt}
  <2>0. ref \in [Referrals -> DealRecord] /\ session \in [Sessions -> SessionStates]
    BY DEF TypeOK
  <2>1. ASSUME NEW s \in Sessions, Pay(s) PROVE MT!Charge(s)
    BY <2>0, <2>1 DEF Pay, MT!Charge
  <2>2. ASSUME NEW s \in Sessions, Refund(s) PROVE MT!Return(s)
    BY <2>2 DEF Refund, MT!Return
  <2>3. ASSUME NEW s \in Sessions, Expire(s) \/ ExpireClaim(s)
        PROVE  UNCHANGED <<paid, refunded, stamped>>
    BY <2>0, <2>3 DEF Expire, ExpireClaim
  <2>4. ASSUME NEW s \in Sessions, NEW r \in Rows, Mint(s, r)
        PROVE  UNCHANGED <<paid, refunded, stamped>>
    <3>1. UNCHANGED <<paid, refunded>>
      BY <2>0, <2>4 DEF Mint
    <3>2. ASSUME NEW f \in Referrals PROVE ref'[f].paidAt = ref[f].paidAt
      <4>1. CASE ref' = ref
        BY <4>1
      <4>2. CASE ref' = [ref EXCEPT ![RefOf[s]].status = "Awaiting Payment",
                                    ![RefOf[s]].requestedAt = TRUE]
        BY <2>0, <4>2 DEF DealRecord
      <4> QED
        BY <2>4, <4>1, <4>2 DEF Mint
    <3> QED
      BY <3>1, <3>2
  <2>5. ASSUME NEW f \in Referrals, Accept(f)
        PROVE  UNCHANGED <<paid, refunded, stamped>>
    BY <2>0, <2>5 DEF Accept, DealRecord
  <2>6. ASSUME NEW w \in Workers, NEW f \in Referrals, f = RefOf[worker[w].ses],
               Stamp(w) \/ HealWrite(w)
        PROVE  MT!Stamp(f) \/ UNCHANGED <<paid, refunded, stamped>>
    <3>1. Charged(f)
      BY <2>6 DEF Stamp, HealWrite, At, Settling, Charged, MoneySound, WorkerSound,
         InvocationSound
    <3>2. MT!OfDeal(paid, f) # {}
      BY <3>1 DEF Charged, MT!OfDeal
    <3>3. UNCHANGED <<paid, refunded>>
      BY <2>6 DEF Stamp, HealWrite, stripe
    <3>4. stamped' = stamped \/ stamped' = stamped \cup {f}
      <4>1. CASE ref' = ref
        BY <4>1
      <4>2. CASE ref' # ref
        <5>1. \A g \in Referrals : ref'[g].paidAt = IF g = f THEN TRUE ELSE ref[g].paidAt
          BY <2>0, <2>6, <3>1, <4>2, PaidAtWrites DEF Stamp, HealWrite
        <5> QED
          BY <3>1, <5>1
      <4> QED
        BY <4>1, <4>2
    <3> QED
      BY <3>2, <3>3, <3>4 DEF MT!Stamp
  <2>7. ASSUME NEW w \in Workers, NEW f \in Referrals, f = DealOf(worker[w].row),
               RestoreWrite(w)
        PROVE  MT!Clear(f) \/ UNCHANGED <<paid, refunded, stamped>>
    <3>1. /\ worker[w].ses \in refunded /\ worker[w].ses \in Sessions
          /\ RefOf[worker[w].ses] = f
      BY <2>7 DEF RestoreWrite, At, MoneySound, WorkerSound, InvocationSound, HasRow
    <3>2. MT!OfDeal(refunded, f) # {}
      BY <3>1 DEF MT!OfDeal
    <3>3. UNCHANGED <<paid, refunded>>
      BY <2>7 DEF RestoreWrite
    <3>4. stamped' = stamped \/ stamped' = stamped \ {f}
      <4>1. CASE ref' = ref
        BY <4>1
      <4>2. CASE ref' # ref
        <5>1. \A g \in Referrals : ref'[g].paidAt = IF g = f THEN FALSE ELSE ref[g].paidAt
          BY <2>0, <2>7, <3>2, <4>2, PaidAtWrites DEF RestoreWrite
        <5> QED
          BY <3>2, <5>1
      <4> QED
        BY <4>1, <4>2
    <3> QED
      BY <3>2, <3>3, <3>4 DEF MT!Clear
  <2>8. ASSUME NEW w \in Workers, WorkerStep(w), ~Stamp(w), ~HealWrite(w), ~RestoreWrite(w)
        PROVE  UNCHANGED <<paid, refunded, stamped>>
    BY <2>8 DEF WorkerStep, Claim, Find, Flip, Finish, RefundFind, RefundWrite,
       RestoreRead, Backfill, AbandonRead, AbandonMiss, AbandonWrite, HealRead, stripe
  <2>9. ASSUME UNCHANGED <<session, refunded, ref>>
        PROVE  UNCHANGED <<paid, refunded, stamped>>
    BY <2>9
  <2>10. ASSUME NEW w \in Workers, WorkerStep(w)
         PROVE  MT!Next \/ UNCHANGED <<paid, refunded, stamped>>
    <3>1. Stamp(w) \/ HealWrite(w) => RefOf[worker[w].ses] \in Referrals
      BY DEF Stamp, HealWrite, At, Settling, MoneySound, WorkerSound, InvocationSound
    <3>2. RestoreWrite(w) => DealOf(worker[w].row) \in Referrals
      BY DEF RestoreWrite, At, MoneySound, WorkerSound, InvocationSound, HasRow
    <3>3. CASE Stamp(w) \/ HealWrite(w)
      <4>1. PICK f \in Referrals : f = RefOf[worker[w].ses]
        BY <3>1, <3>3
      <4>2. MT!Stamp(f) \/ UNCHANGED <<paid, refunded, stamped>>
        BY <2>6, <3>3, <4>1
      <4> QED
        BY <4>2 DEF MT!Next
    <3>4. CASE RestoreWrite(w)
      <4>1. PICK f \in Referrals : f = DealOf(worker[w].row)
        BY <3>2, <3>4
      <4>2. MT!Clear(f) \/ UNCHANGED <<paid, refunded, stamped>>
        BY <2>7, <3>4, <4>1
      <4> QED
        BY <4>2 DEF MT!Next
    <3> QED
      BY <2>8, <2>10, <3>3, <3>4
  <2>11. ASSUME NEW s \in Sessions, Pay(s) \/ Refund(s) PROVE MT!Next
    BY <2>1, <2>2, <2>11 DEF MT!Next
  <2> QED
    BY <2>3, <2>4, <2>5, <2>9, <2>10, <2>11
    DEF Next, Deliver, Reap, HealPick, Crash, vars, stripe
<1> QED
  BY <1>1, <1>2, MoneyInvariant, PTL DEF Spec, ImplementsMoneyTruth, MT!Spec

\* An invocation enters the protected region by its claim only.
LEMMA EntersByClaim ==
  ASSUME TypeOK, NEW w \in Workers,
         \/ Finish(w) \/ RefundFind(w) \/ RefundWrite(w) \/ RestoreRead(w)
         \/ RestoreWrite(w) \/ Backfill(w) \/ AbandonRead(w) \/ AbandonMiss(w)
         \/ AbandonWrite(w) \/ HealRead(w) \/ HealWrite(w) \/ Crash(w)
         \/ \E ev \in Events : Deliver(w, ev)
         \/ \E r \in Rows : Reap(w, r) \/ HealPick(w, r)
  PROVE  worker'[w].pc \notin Settling
<1> USE DEF Settling
<1>0. worker \in [Workers -> Invocation] /\ worker[w] \in Invocation
  BY DEF TypeOK
<1>1. ASSUME worker' = [worker EXCEPT ![w] = Idle] PROVE worker'[w].pc \notin Settling
  BY <1>0, <1>1 DEF Idle
<1>2. ASSUME NEW pc, pc \notin Settling, worker' = [worker EXCEPT ![w].pc = pc]
      PROVE  worker'[w].pc \notin Settling
  <2>1. worker'[w].pc = pc
    BY <1>0, <1>2 DEF Invocation
  <2> QED
    BY <1>2, <2>1
<1>3. ASSUME NEW i, i.pc \notin Settling, worker' = [worker EXCEPT ![w] = i]
      PROVE  worker'[w].pc \notin Settling
  BY <1>0, <1>3
<1>4. CASE Finish(w) \/ RestoreWrite(w) \/ AbandonMiss(w) \/ AbandonWrite(w)
           \/ HealWrite(w) \/ Crash(w)
  <2>1. worker' = [worker EXCEPT ![w] = Idle]
    BY <1>4 DEF Finish, RestoreWrite, AbandonMiss, AbandonWrite, HealWrite, Crash, Return
  <2> QED
    BY <1>1, <2>1
<1>5. CASE RefundFind(w)
  <2>1. \/ worker' = [worker EXCEPT ![w] = Idle]
        \/ \E r \in Rows : worker' = [worker EXCEPT ![w].pc = "refundWrite", ![w].row = r]
    BY <1>5 DEF RefundFind, Return, ByPi
  <2>2. ASSUME NEW r \in Rows,
               worker' = [worker EXCEPT ![w].pc = "refundWrite", ![w].row = r]
        PROVE  worker'[w].pc \notin Settling
    BY <1>0, <2>2 DEF Invocation
  <2> QED
    BY <1>1, <2>1, <2>2
<1>6. CASE AbandonRead(w)
  <2>1. \/ worker' = [worker EXCEPT ![w] = Idle]
        \/ \E r \in Rows : worker' = [worker EXCEPT ![w].pc = "abandonWrite", ![w].row = r]
    BY <1>6 DEF AbandonRead
  <2>2. ASSUME NEW r \in Rows,
               worker' = [worker EXCEPT ![w].pc = "abandonWrite", ![w].row = r]
        PROVE  worker'[w].pc \notin Settling
    BY <1>0, <2>2 DEF Invocation
  <2> QED
    BY <1>1, <2>1, <2>2
<1>7. CASE RefundWrite(w)
  BY <1>2, <1>7 DEF RefundWrite, Go
<1>8. CASE RestoreRead(w)
  BY <1>1, <1>2, <1>8 DEF RestoreRead, Go, Return
<1>9. CASE HealRead(w)
  BY <1>1, <1>2, <1>9 DEF HealRead, Go
<1>10. CASE Backfill(w)
  <2>1. PICK pc \in {"claim", "abandonPi"} : worker' = [worker EXCEPT ![w].pc = pc]
    BY <1>10 DEF Backfill, Go, AfterPi
  <2> QED
    BY <1>2, <2>1
<1>11. CASE \E ev \in Events : Deliver(w, ev)
  BY <1>3, <1>11 DEF Deliver, Start
<1>12. ASSUME NEW r \in Rows, Reap(w, r) PROVE worker'[w].pc \notin Settling
  <2> DEFINE s == IF row[r].pi = None THEN row[r].ses ELSE row[r].pi
             i == [pc |-> IF row[r].pi # None THEN AfterPi(s)
                          ELSE IF session[s] = "expired" THEN "abandonRow"
                          ELSE "backfill",
                   ses |-> s, row |-> r, ev |-> None]
  <2>1. worker' = [worker EXCEPT ![w] = i]
    BY <1>12 DEF Reap, Start
  <2>2. i.pc \notin Settling
    BY DEF AfterPi
  <2> HIDE DEF i
  <2> QED
    BY <1>0, <2>1, <2>2
<1>13. ASSUME NEW r \in Rows, HealPick(w, r) PROVE worker'[w].pc \notin Settling
  BY <1>3, <1>13 DEF HealPick, Start
<1> QED
  BY <1>4, <1>5, <1>6, <1>7, <1>8, <1>9, <1>10, <1>11, <1>12, <1>13

\* As long as Redis answers, whoever is past the claim of a PaymentIntent holds it.
LEMMA ClaimHeld ==
  RedisReliable = TRUE => (Spec => [](TypeOK /\ MoneySound /\ HoldsClaim))
<1> SUFFICES ASSUME RedisReliable = TRUE
             PROVE  Spec => [](TypeOK /\ MoneySound /\ HoldsClaim)
  OBVIOUS
<1>0. RedisReliable
  BY DepositAssumption
<1>1. Init => HoldsClaim
  BY DEF Init, HoldsClaim, Idle, Settling
<1>2. TypeOK /\ MoneySound /\ HoldsClaim /\ [Next]_vars => HoldsClaim'
  <2> SUFFICES ASSUME TypeOK, MoneySound, HoldsClaim, [Next]_vars,
                      NEW v \in Workers, worker'[v].pc \in Settling
               PROVE  claim'[worker'[v].ses] = v
    BY DEF HoldsClaim
  <2> USE DEF Settling
  <2>0. worker \in [Workers -> Invocation] /\ claim \in [Sessions -> Workers \cup {None}]
    BY DEF TypeOK
  <2>1. worker[v].pc \in Settling => claim[worker[v].ses] = v /\ worker[v].ses \in Sessions
    BY DEF HoldsClaim, MoneySound, WorkerSound, InvocationSound, At
  <2>2. ASSUME Claim(v) PROVE claim'[worker'[v].ses] = v
    <3>1. worker[v].ses \in Sessions
      BY <2>2 DEF Claim, MoneySound, WorkerSound, InvocationSound, At
    <3>2. worker'[v] # Idle
      BY DEF Idle
    <3>3. /\ claim' = [claim EXCEPT ![worker[v].ses] = v]
          /\ worker' = [worker EXCEPT ![v].pc = "find"]
      BY <2>0, <2>2, <3>2 DEF Claim, Return, Go
    <3> QED
      BY <2>0, <3>1, <3>3 DEF Invocation
  <2>3. ASSUME NEW w \in Workers, w # v, Claim(w) PROVE claim'[worker'[v].ses] = v
    <3>1. worker'[v] = worker[v]
      BY <2>0, <2>3 DEF Claim, Return, Go
    <3>2. claim[worker[v].ses] = v /\ v # None /\ worker[v].ses \in Sessions
      BY <2>1, <3>1, DepositAssumption
    <3>3. \/ claim' = claim
          \/ /\ claim[worker[w].ses] = None
             /\ claim' = [claim EXCEPT ![worker[w].ses] = w]
      BY <1>0, <2>3 DEF Claim
    <3>4. claim'[worker[v].ses] = claim[worker[v].ses]
      BY <2>0, <3>2, <3>3
    <3> QED
      BY <3>1, <3>2, <3>4
  <2>4. ASSUME NEW s \in Sessions, ExpireClaim(s) PROVE claim'[worker'[v].ses] = v
    BY <2>0, <2>1, <2>4 DEF ExpireClaim
  <2>5. CASE claim' = claim /\ worker' = worker
    BY <2>1, <2>5
  <2>6. ASSUME Find(v) \/ Flip(v) \/ Stamp(v) PROVE claim'[worker'[v].ses] = v
    <3>1. worker[v].pc \in Settling /\ claim' = claim
      BY <2>6 DEF Find, Flip, Stamp, At
    <3>2. worker' # [worker EXCEPT ![v] = Idle]
      <4>1. [worker EXCEPT ![v] = Idle][v].pc \notin Settling
        BY <2>0 DEF Idle
      <4> QED
        BY <4>1
    <3>3. CASE \E pc : worker' = [worker EXCEPT ![v].pc = pc]
      <4>1. worker'[v].ses = worker[v].ses
        BY <2>0, <3>3 DEF Invocation
      <4> QED
        BY <2>1, <3>1, <4>1
    <3>4. CASE \E pc : \E r \in Rows : worker' = [worker EXCEPT ![v].pc = pc, ![v].row = r]
      <4>1. worker'[v].ses = worker[v].ses
        BY <2>0, <3>4 DEF Invocation
      <4> QED
        BY <2>1, <3>1, <4>1
    <3>5. CASE Find(v)
      <4>1. \/ worker' = [worker EXCEPT ![v] = Idle]
            \/ worker' = [worker EXCEPT ![v].pc = "stamp"]
            \/ \E r \in Rows : worker' = [worker EXCEPT ![v].pc = "flip", ![v].row = r]
            \/ \E r \in Rows : worker' = [worker EXCEPT ![v].pc = "backflip", ![v].row = r]
        BY <3>5 DEF Find, Go, Return, ByPi, Pending
      <4> QED
        BY <3>2, <3>3, <3>4, <4>1
    <3>6. CASE Flip(v) \/ Stamp(v)
      BY <3>3, <3>6 DEF Flip, Stamp, Go
    <3> QED
      BY <2>6, <3>5, <3>6
  <2>7. ASSUME NEW w \in Workers, WorkerStep(w), ~Claim(w),
               w = v => ~(Find(w) \/ Flip(w) \/ Stamp(w))
        PROVE  claim'[worker'[v].ses] = v
    <3>1. claim' = claim
      BY <2>7 DEF WorkerStep, Find, Flip, Stamp, Finish, RefundFind, RefundWrite,
         RestoreRead, RestoreWrite, Backfill, AbandonRead, AbandonMiss, AbandonWrite,
         HealRead, HealWrite
    <3>2. w # v
      BY <2>7, EntersByClaim DEF WorkerStep
    <3>3. worker'[v] = worker[v]
      BY <2>0, <2>7, <3>2 DEF WorkerStep, Find, Flip, Stamp, Finish, RefundFind,
         RefundWrite, RestoreRead, RestoreWrite, Backfill, AbandonRead, AbandonMiss,
         AbandonWrite, HealRead, HealWrite, Go, Return
    <3> QED
      BY <2>1, <3>1, <3>3
  <2>8. ASSUME NEW w \in Workers,
               \/ \E ev \in Events : Deliver(w, ev)
               \/ \E r \in Rows : Reap(w, r) \/ HealPick(w, r)
               \/ Crash(w)
        PROVE  claim'[worker'[v].ses] = v
    <3>1. claim' = claim
      BY <2>8 DEF Deliver, Reap, HealPick, Crash
    <3>2. w # v
      BY <2>8, EntersByClaim
    <3>3. worker'[v] = worker[v]
      BY <2>0, <2>8, <3>2 DEF Deliver, Reap, HealPick, Crash, Start
    <3> QED
      BY <2>1, <3>1, <3>3
  <2> QED
    BY <2>2, <2>3, <2>4, <2>5, <2>6, <2>7, <2>8
    DEF Next, Pay, Expire, Refund, Mint, Accept, vars
<1> QED
  BY <1>1, <1>2, MoneyInvariant, PTL DEF Spec

\* As long as Redis answers, claimOnce serializes settlement: two deliveries never
\* settle one PaymentIntent at once.
THEOREM ClaimSerializes == RedisReliable = TRUE => (Spec => []SettlesAlone)
<1> SUFFICES ASSUME RedisReliable = TRUE
             PROVE  Spec => []SettlesAlone
  OBVIOUS
<1>1. HoldsClaim => SettlesAlone
  BY DEF HoldsClaim, SettlesAlone
<1> QED
  BY <1>1, ClaimHeld, PTL

=============================================================================
