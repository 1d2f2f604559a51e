----------------------------- MODULE StockProofs -----------------------------
(* Proofs about ProductStock, for every set of buyers, of quantities and of    *)
(* units in stock.                                                             *)
EXTENDS ProductStock, FiniteSetTheorems, TLAPS

\* Where an attempt may go, and what it may have read.
LEMMA GoTypes ==
  ASSUME TypeOK, NEW b \in Buyers, NEW s \in PCs, Go(b, s)
  PROVE  pc' \in [Buyers -> PCs] /\ saw' \in [Buyers -> Nat] /\ total' \in [Buyers -> Int]
  BY DEF TypeOK, Go

LEMMA SeeTypes ==
  ASSUME TypeOK, NEW b \in Buyers, NEW s \in PCs, See(b, s)
  PROVE  pc' \in [Buyers -> PCs] /\ saw' \in [Buyers -> Nat] /\ total' \in [Buyers -> Int]
  BY DEF TypeOK, See

LEMMA FaultTypes ==
  ASSUME TypeOK, Fault \/ NoFault PROVE faults' \in 0..MaxFaults /\ slack' \subseteq Slack
  BY ProductStockAssumption DEF TypeOK, Fault, NoFault

LEMMA NoteTypes ==
  ASSUME TypeOK, NEW why \in Slack, NEW c, Note(why, c) PROVE slack' \subseteq Slack
  BY DEF TypeOK, Note

LEMMA ClampTypes == \A n \in Int : AtLeastZero(n) \in Nat
  BY DEF AtLeastZero

LEMMA AcquireTypes ==
  ASSUME TypeOK, NEW b \in Buyers, Gate(b) \/ Acquire(b) PROVE TypeOK'
<1> DEFINE Fine == pc' \in [Buyers -> PCs] /\ saw' \in [Buyers -> Nat] /\ total' \in [Buyers -> Int]
<1>0. /\ {"incr", "soldOut", "expire", "judge", "mint", "rollback", "refused", "open", "gone"}
           \subseteq PCs
      /\ Qty[b] \in Nat
  BY ProductStockAssumption DEF PCs, Payable
<1>1. CASE Gate(b)
  <2>1. Fine
    BY <1>0, <1>1, GoTypes, SeeTypes DEF Gate
  <2> QED
    BY <1>1, <2>1 DEF Gate, NoFault, product, key, TypeOK
<1>2. CASE Incr(b)
  <2>1. CASE Fault /\ Go(b, "mint") /\ UNCHANGED hold
    BY <1>0, <1>2, <2>1, GoTypes, FaultTypes DEF Incr, product, TypeOK
  <2>2. CASE ~(Fault /\ Go(b, "mint") /\ UNCHANGED hold)
    <3>1. /\ hold' = hold + Qty[b] /\ total' = [total EXCEPT ![b] = hold + Qty[b]]
          /\ pc' = [pc EXCEPT ![b] = "expire"] /\ UNCHANGED <<saw, faults>>
          /\ Note("stale", left < saw[b])
      BY <1>2, <2>2 DEF Incr
    <3>2. slack' \subseteq Slack
      BY <3>1, NoteTypes DEF Slack
    <3>3. hold' \in Int /\ total' \in [Buyers -> Int] /\ pc' \in [Buyers -> PCs]
      BY <1>0, <3>1 DEF TypeOK
    <3> QED
      BY <1>2, <3>1, <3>2, <3>3 DEF Incr, product, TypeOK
  <2> QED
    BY <2>1, <2>2
<1>3. CASE Expire(b)
  <2>1. Fine
    BY <1>0, <1>3, GoTypes DEF Expire
  <2>2. ttl' \in {"yes", "no"} /\ faults' \in 0..MaxFaults /\ slack' \subseteq Slack
    BY <1>3, FaultTypes DEF Expire, TypeOK
  <2> QED
    BY <1>3, <2>1, <2>2 DEF Expire, product, TypeOK
<1>4. CASE Judge(b)
  <2>1. Fine
    BY <1>0, <1>4, GoTypes DEF Judge
  <2> QED
    BY <1>4, <2>1 DEF Judge, NoFault, product, key, TypeOK
<1>5. CASE Rollback(b)
  <2>1. Fine
    BY <1>0, <1>5, GoTypes DEF Rollback
  <2>2. hold' \in Int /\ faults' \in 0..MaxFaults /\ slack' \subseteq Slack
    BY <1>0, <1>5, FaultTypes DEF Rollback, TypeOK
  <2> QED
    BY <1>5, <2>1, <2>2 DEF Rollback, product, TypeOK
<1>6. CASE Mint(b)
  <2>1. Fine
    BY <1>0, <1>6, GoTypes DEF Mint
  <2> QED
    BY <1>6, <2>1 DEF Mint, NoFault, product, key, TypeOK
<1> QED
  BY <1>1, <1>2, <1>3, <1>4, <1>5, <1>6 DEF Acquire

LEMMA BurnTypes ==
  ASSUME TypeOK, NEW b \in Buyers, Burn(b) PROVE TypeOK'
<1> DEFINE Fine == pc' \in [Buyers -> PCs] /\ saw' \in [Buyers -> Nat] /\ total' \in [Buyers -> Int]
<1>0. {"burnWrite", "decr", "del", "sold"} \subseteq PCs /\ Qty[b] \in Nat /\ saw[b] \in Nat
  BY ProductStockAssumption DEF PCs, Payable, TypeOK
<1>1. CASE BurnRead(b)
  <2>1. Fine
    BY <1>0, <1>1, GoTypes, SeeTypes DEF BurnRead
  <2>2. rung' \subseteq Buyers /\ faults' \in 0..MaxFaults /\ slack' \subseteq Slack
    BY <1>1, FaultTypes DEF BurnRead, TypeOK
  <2> QED
    BY <1>1, <2>1, <2>2 DEF BurnRead, product, key, TypeOK
<1>2. CASE BurnWrite(b)
  <2>1. Fine
    BY <1>0, <1>2, GoTypes DEF BurnWrite
  <2>2. left' \in Nat
    BY <1>0, <1>2, ClampTypes DEF BurnWrite, TypeOK
  <2>3. faults' \in 0..MaxFaults /\ slack' \subseteq Slack
    BY <1>2, FaultTypes, NoteTypes DEF BurnWrite, Slack, TypeOK
  <2> QED
    BY <1>2, <2>1, <2>2, <2>3 DEF BurnWrite, key, TypeOK
<1>3. CASE Decr(b)
  <2>1. Fine
    BY <1>0, <1>3, GoTypes DEF Decr
  <2>2. hold' \in Int /\ faults' \in 0..MaxFaults /\ slack' \subseteq Slack
    BY <1>0, <1>3, FaultTypes DEF Decr, TypeOK
  <2> QED
    BY <1>3, <2>1, <2>2 DEF Decr, product, TypeOK
<1>4. CASE Del(b)
  <2>1. Fine
    BY <1>0, <1>4, GoTypes DEF Del
  <2>2. hold' \in Int /\ ttl' \in {"yes", "no"}
    BY <1>4 DEF Del, key, TypeOK
  <2>3. faults' \in 0..MaxFaults /\ slack' \subseteq Slack
    BY <1>4, FaultTypes, NoteTypes DEF Del, Slack, TypeOK
  <2> QED
    BY <1>4, <2>1, <2>2, <2>3 DEF Del, product, TypeOK
<1> QED
  BY <1>1, <1>2, <1>3, <1>4 DEF Burn

LEMMA BuyerTypes ==
  ASSUME TypeOK, NEW b \in Buyers,
         Abandon(b) \/ Pay(b) \/ RestoreRead(b) \/ RestoreWrite(b) \/ Crash(b)
  PROVE  TypeOK'
<1> DEFINE Fine == pc' \in [Buyers -> PCs] /\ saw' \in [Buyers -> Nat] /\ total' \in [Buyers -> Int]
<1>0. /\ {"gone", "burnRead", "restoreWrite", "back", "sold"} \subseteq PCs
      /\ Qty[b] \in Nat /\ saw[b] \in Nat
  BY ProductStockAssumption DEF PCs, Payable, TypeOK
<1>1. CASE Abandon(b) \/ Pay(b)
  <2>1. Fine
    BY <1>0, <1>1, GoTypes DEF Abandon, Pay
  <2> QED
    BY <1>1, <2>1 DEF Abandon, Pay, NoFault, product, key, TypeOK
<1>2. CASE RestoreRead(b)
  <2>1. Fine
    BY <1>0, <1>2, SeeTypes DEF RestoreRead
  <2> QED
    BY <1>2, <2>1 DEF RestoreRead, NoFault, product, key, TypeOK
<1>3. CASE RestoreWrite(b)
  <2>1. Fine
    BY <1>0, <1>3, GoTypes DEF RestoreWrite
  <2>2. left' \in Nat
    BY <1>0, <1>3 DEF RestoreWrite, TypeOK
  <2>3. faults' \in 0..MaxFaults
    BY <1>3, FaultTypes DEF RestoreWrite, TypeOK
  <2>4. slack' \subseteq Slack
    <3>1. CASE Fault
      BY <3>1, FaultTypes
    <3>2. CASE ~Fault
      BY <1>3, <3>2 DEF RestoreWrite, Slack, TypeOK
    <3> QED
      BY <3>1, <3>2
  <2> QED
    BY <1>3, <2>1, <2>2, <2>3, <2>4 DEF RestoreWrite, key, TypeOK
<1>4. CASE Crash(b)
  <2>1. Fine
    BY <1>0, <1>4, GoTypes DEF Crash
  <2> QED
    BY <1>4, <2>1, FaultTypes DEF Crash, product, key, TypeOK
<1> QED
  BY <1>1, <1>2, <1>3, <1>4

LEMMA WorldTypes == ASSUME TypeOK, Lapse \/ StoreRead \/ StoreWrite PROVE TypeOK'
<1>1. CASE Lapse
  <2>1. pc' \in [Buyers -> PCs]
    BY <1>1 DEF Lapse, TypeOK, PCs
  <2>2. slack' \subseteq Slack
    BY <1>1, NoteTypes DEF Lapse, Slack
  <2> QED
    BY <1>1, <2>1, <2>2 DEF Lapse, product, TypeOK
<1>2. CASE StoreRead
  BY <1>2 DEF StoreRead, NoFault, product, key, TypeOK
<1>3. CASE StoreWrite
  <2>1. left' \in Nat
    BY <1>3, ClampTypes, ProductStockAssumption DEF StoreWrite, TypeOK
  <2>2. slack' \subseteq Slack
    BY <1>3, NoteTypes DEF StoreWrite, Slack
  <2> QED
    BY <1>3, <2>1, <2>2 DEF StoreWrite, key, TypeOK
<1> QED
  BY <1>1, <1>2, <1>3

\* Orders Left is never negative, whatever is burned, released, restored or sold in
\* the store, and in whatever order.
THEOREM StockTypes == Spec => []TypeOK
<1>1. Init => TypeOK
  BY ProductStockAssumption DEF Init, TypeOK, PCs, Slack
<1>2. TypeOK /\ [Next]_vars => TypeOK'
  <2>1. TypeOK /\ Next => TypeOK'
    BY AcquireTypes, BurnTypes, BuyerTypes, WorldTypes DEF Next
  <2>2. TypeOK /\ UNCHANGED vars => TypeOK'
    BY DEF vars, product, key, TypeOK
  <2> QED
    BY <2>1, <2>2
<1> QED
  BY <1>1, <1>2, PTL DEF Spec

-----------------------------------------------------------------------------
(* Sums of units.                                                           *)

LEMMA UnitsFinite == ASSUME NEW S \in SUBSET Buyers PROVE IsFiniteSet(UnitsOf(S))
<1> DEFINE f == [b \in S |-> {b} \X (1..Qty[b])]
           T == {{b} \X (1..Qty[b]) : b \in S}
<1>1. IsFiniteSet(S)
  BY ProductStockAssumption, FS_Subset
<1>2. f \in Surjection(S, T)
  BY DEF Surjection
<1>3. IsFiniteSet(T)
  BY <1>1, <1>2, FS_Surjection
<1>4. ASSUME NEW X \in T PROVE IsFiniteSet(X)
  <2>1. PICK b \in S : X = {b} \X (1..Qty[b])
    OBVIOUS
  <2>2. b \in Buyers /\ Qty[b] \in Int
    BY ProductStockAssumption
  <2>3. IsFiniteSet(1..Qty[b])
    BY <2>2, FS_Interval
  <2>4. IsFiniteSet({b})
    BY FS_Singleton
  <2> QED
    BY <2>1, <2>3, <2>4, FS_Product
<1> HIDE DEF T
<1>5. IsFiniteSet(UNION T)
  BY <1>3, <1>4, FS_UNION
<1> QED
  BY <1>5 DEF UnitsOf, T

LEMMA UnitsNat == ASSUME NEW S \in SUBSET Buyers PROVE Units(S) \in Nat
  BY UnitsFinite, FS_CardinalityType DEF Units

LEMMA UnitsNone == Units({}) = 0
<1>1. UnitsOf({}) = {}
  BY DEF UnitsOf
<1> QED
  BY <1>1, FS_EmptySet DEF Units

LEMMA UnitsOne == ASSUME NEW b \in Buyers PROVE Units({b}) = Qty[b]
<1>1. UnitsOf({b}) = {b} \X (1..Qty[b])
  BY DEF UnitsOf
<1>2. Qty[b] \in Nat \ {0}
  BY ProductStockAssumption
<1>3. IsFiniteSet(1..Qty[b]) /\ Cardinality(1..Qty[b]) = Qty[b]
  BY <1>2, FS_Interval
<1>4. IsFiniteSet({b}) /\ Cardinality({b}) = 1
  BY FS_Singleton
<1>5. Cardinality({b} \X (1..Qty[b])) = 1 * Qty[b]
  BY <1>3, <1>4, FS_Product
<1>6. Units({b}) = 1 * Qty[b]
  BY <1>1, <1>5 DEF Units
<1> QED
  BY <1>2, <1>6

LEMMA UnitsSplit ==
  ASSUME NEW S \in SUBSET Buyers, NEW T \in SUBSET Buyers, S \cap T = {}
  PROVE  Units(S \cup T) = Units(S) + Units(T)
<1>1. UnitsOf(S \cup T) = UnitsOf(S) \cup UnitsOf(T)
  BY DEF UnitsOf
<1>2. UnitsOf(S) \cap UnitsOf(T) = {}
  BY DEF UnitsOf
<1>3. IsFiniteSet(UnitsOf(S)) /\ IsFiniteSet(UnitsOf(T))
  BY UnitsFinite
<1>4. /\ Cardinality(UnitsOf(S)) \in Nat /\ Cardinality(UnitsOf(T)) \in Nat
      /\ Cardinality({}) = 0
  BY <1>3, FS_CardinalityType, FS_EmptySet
<1>5. Cardinality(UnitsOf(S) \cup UnitsOf(T))
        = Cardinality(UnitsOf(S)) + Cardinality(UnitsOf(T)) - Cardinality(UnitsOf(S) \cap UnitsOf(T))
  BY <1>3, FS_Union
<1>6. Units(S \cup T) = Units(S) + Units(T) - Cardinality({})
  BY <1>1, <1>2, <1>5, Zenon DEF Units
<1>7. Units(S) \in Nat /\ Units(T) \in Nat
  BY <1>4 DEF Units
<1> QED
  BY <1>4, <1>6, <1>7

\* A buyer joins a set, or leaves it.
LEMMA UnitsAdd ==
  ASSUME NEW S \in SUBSET Buyers, NEW b \in Buyers \ S
  PROVE  Units(S \cup {b}) = Units(S) + Qty[b]
  BY UnitsSplit, UnitsOne

LEMMA UnitsRemove ==
  ASSUME NEW S \in SUBSET Buyers, NEW b \in S
  PROVE  Units(S \ {b}) = Units(S) - Qty[b]
<1>1. S = (S \ {b}) \cup {b} /\ b \in Buyers \ (S \ {b}) /\ S \ {b} \in SUBSET Buyers
  OBVIOUS
<1>2. Units(S) = Units(S \ {b}) + Qty[b]
  BY <1>1, UnitsAdd
<1> QED
  BY <1>1, <1>2, UnitsNat, ProductStockAssumption

LEMMA UnitsMonotone ==
  ASSUME NEW S \in SUBSET Buyers, NEW T \in SUBSET S PROVE Units(T) <= Units(S)
<1>1. UnitsOf(T) \in SUBSET UnitsOf(S)
  BY DEF UnitsOf
<1> QED
  BY <1>1, UnitsFinite, FS_Subset DEF Units

-----------------------------------------------------------------------------
(* The counter, the shelf and the book.                                      *)

\* What each attempt still has in the counter: it holds no more and no less, as
\* long as no unit was lost.
Counted == In({"expire", "judge", "rollback", "mint", "open", "gone",
               "burnRead", "burnWrite", "decr"})
HoldSound == "lost" \notin slack => hold = Units(Counted)

\* Buyers the valve has let through, or will: what INCRBY answered them fits what
\* they read.  Together they want no more than is left, and who is about to write
\* Orders Left read what it is.
Granted == In({"mint", "open", "burnRead", "burnWrite"})
             \cup {b \in In({"expire", "judge"}) : total[b] <= saw[b]}
ShelfSound == slack = {} => Units(Granted) <= left /\ \A b \in Writers : saw[b] = left

\* Units sold and not returned, those that rang left out.  What is left, and what
\* any writer believes is left, adds up with them to no more than the stock.
Silent == In({"decr", "del", "sold", "restoreWrite"}) \ rung
BookSound ==
  "moved" \notin slack =>
    /\ left + Units(Silent) <= Stock
    /\ \A b \in Writers : saw[b] + Units(Silent) <= Stock
    /\ \A b \in In({"burnWrite"}) \ rung : Qty[b] <= saw[b]

StockInv == TypeOK /\ HoldSound /\ ShelfSound /\ BookSound

LEMMA InBuyers == \A A : In(A) \in SUBSET Buyers
  BY DEF In

\* What a step that fails leaves in the history voids the three promises.
LEMMA FaultVoids ==
  ASSUME Fault PROVE slack' = Slack /\ "lost" \in slack' /\ slack' # {} /\ "moved" \in slack'
  BY DEF Fault, Slack

\* The step changes neither the counter, its history nor who holds units in it.
LEMMA HoldKept ==
  ASSUME TypeOK, HoldSound, hold' = hold, "lost" \in slack => "lost" \in slack',
         NEW b \in Buyers, NEW s, pc' = [pc EXCEPT ![b] = s],
         pc[b] \in {"expire", "judge", "rollback", "mint", "open", "gone", "burnRead", "burnWrite", "decr"}
         <=> s \in {"expire", "judge", "rollback", "mint", "open", "gone", "burnRead", "burnWrite", "decr"}
  PROVE  HoldSound'
<1>1. Counted' = Counted
  BY DEF TypeOK, Counted, In
<1> QED
  BY <1>1 DEF HoldSound

LEMMA AcquireHolds ==
  ASSUME TypeOK, HoldSound, NEW b \in Buyers, Gate(b) \/ Acquire(b) PROVE HoldSound'
<1>0. Counted \in SUBSET Buyers /\ Units(Counted) \in Nat /\ Qty[b] \in Nat
  BY InBuyers, UnitsNat, ProductStockAssumption DEF Counted
<1>1. CASE Fault
  BY <1>1, FaultVoids DEF HoldSound
<1>2. CASE Gate(b)
  BY <1>2, HoldKept DEF Gate, Go, See, NoFault, key, At
<1>3. CASE Incr(b) /\ ~Fault
  <2>1. /\ hold' = hold + Qty[b] /\ pc' = [pc EXCEPT ![b] = "expire"] /\ pc[b] = "incr"
        /\ "lost" \in slack => "lost" \in slack'
    BY <1>3 DEF Incr, Note, At
  <2>2. Counted' = Counted \cup {b} /\ b \notin Counted
    BY <2>1 DEF TypeOK, Counted, In
  <2>3. Units(Counted') = Units(Counted) + Qty[b]
    BY <1>0, <2>2, UnitsAdd
  <2> QED
    BY <2>1, <2>3 DEF HoldSound
<1>4. CASE Expire(b) /\ ~Fault
  BY <1>4, HoldKept DEF Expire, Go, NoFault, At
<1>5. CASE Judge(b)
  BY <1>5, HoldKept DEF Judge, Go, NoFault, key, At
<1>6. CASE Rollback(b) /\ ~Fault
  <2>1. /\ hold' = hold - Qty[b] /\ pc' = [pc EXCEPT ![b] = "refused"] /\ pc[b] = "rollback"
        /\ slack' = slack
    BY <1>6 DEF Rollback, Go, NoFault, At
  <2>2. Counted' = Counted \ {b} /\ b \in Counted
    BY <2>1 DEF TypeOK, Counted, In
  <2>3. Units(Counted') = Units(Counted) - Qty[b]
    BY <1>0, <2>2, UnitsRemove
  <2> QED
    BY <2>1, <2>3 DEF HoldSound
<1>7. CASE Mint(b)
  BY <1>7, HoldKept DEF Mint, Go, NoFault, key, At
<1> QED
  BY <1>1, <1>2, <1>3, <1>4, <1>5, <1>6, <1>7 DEF Acquire

LEMMA BurnHolds ==
  ASSUME TypeOK, HoldSound, NEW b \in Buyers, Burn(b) PROVE HoldSound'
<1>0. Counted \in SUBSET Buyers /\ Units(Counted) \in Nat /\ Qty[b] \in Nat
  BY InBuyers, UnitsNat, ProductStockAssumption DEF Counted
<1>1. CASE Fault
  BY <1>1, FaultVoids DEF HoldSound
<1>2. CASE BurnRead(b) /\ ~Fault
  BY <1>2, HoldKept DEF BurnRead, See, NoFault, key, At
<1>3. CASE BurnWrite(b) /\ ~Fault
  BY <1>3, HoldKept DEF BurnWrite, Go, Note, key, At
<1>4. CASE Decr(b) /\ ~Fault
  <2>1. PICK s \in {"del", "sold"} : pc' = [pc EXCEPT ![b] = s]
    BY <1>4 DEF Decr, Go
  <2>2. hold' = hold - Qty[b] /\ pc[b] = "decr" /\ slack' = slack
    BY <1>4 DEF Decr, NoFault, At
  <2>3. Counted' = Counted \ {b} /\ b \in Counted
    BY <2>1, <2>2 DEF TypeOK, Counted, In
  <2>4. Units(Counted') = Units(Counted) - Qty[b]
    BY <1>0, <2>3, UnitsRemove
  <2> QED
    BY <2>2, <2>4 DEF HoldSound
<1>5. CASE Del(b) /\ ~Fault
  <2>1. /\ hold' = 0 /\ pc' = [pc EXCEPT ![b] = "sold"] /\ pc[b] = "del"
        /\ slack' = (IF hold # 0 THEN slack \cup {"lost"} ELSE slack)
    BY <1>5 DEF Del, Go, Note, At
  <2>2. CASE hold # 0
    BY <2>1, <2>2 DEF HoldSound
  <2>3. CASE hold = 0
    BY <2>1, <2>3, HoldKept
  <2> QED
    BY <2>2, <2>3
<1> QED
  BY <1>1, <1>2, <1>3, <1>4, <1>5 DEF Burn

LEMMA BuyerHolds ==
  ASSUME TypeOK, HoldSound, NEW b \in Buyers,
         Abandon(b) \/ Pay(b) \/ RestoreRead(b) \/ RestoreWrite(b) \/ Crash(b)
  PROVE  HoldSound'
<1>1. CASE Fault
  BY <1>1, FaultVoids DEF HoldSound
<1>2. CASE Abandon(b) \/ Pay(b)
  BY <1>2, HoldKept DEF Abandon, Pay, Go, NoFault, key, At
<1>3. CASE RestoreRead(b)
  BY <1>3, HoldKept DEF RestoreRead, See, NoFault, key, At
<1>4. CASE RestoreWrite(b) /\ ~Fault
  BY <1>4, HoldKept DEF RestoreWrite, Go, key, At
<1> QED
  BY <1>1, <1>2, <1>3, <1>4 DEF Crash

LEMMA WorldHolds ==
  ASSUME TypeOK, HoldSound, Lapse \/ StoreRead \/ StoreWrite PROVE HoldSound'
<1>1. CASE Lapse
  <2>1. CASE In(Payable \cup {"del"}) # {}
    BY <1>1, <2>1 DEF Lapse, Note, HoldSound
  <2>2. CASE In(Payable \cup {"del"}) = {}
    <3>1. Counted' = {}
      BY <1>1, <2>2 DEF Lapse, Counted, In, Payable, At, TypeOK
    <3> QED
      BY <1>1, <3>1, UnitsNone DEF Lapse, HoldSound
  <2> QED
    BY <2>1, <2>2
<1>2. CASE StoreRead \/ StoreWrite
  <2>1. Counted' = Counted
    BY <1>2 DEF StoreRead, StoreWrite, Counted, In
  <2>2. hold' = hold /\ ("lost" \in slack => "lost" \in slack')
    BY <1>2 DEF StoreRead, StoreWrite, NoFault, Note, key
  <2> QED
    BY <2>1, <2>2 DEF HoldSound
<1> QED
  BY <1>1, <1>2

LEMMA GrantedBuyers == Granted \in SUBSET Buyers /\ Granted \subseteq Counted
  BY DEF Granted, Counted, In

\* The step lets nobody through and leaves Orders Left and its writers alone.
LEMMA ShelfKept ==
  ASSUME TypeOK, ShelfSound, left' = left, slack' = {} => slack = {},
         Granted' \subseteq Granted,
         slack' = {} => \A c \in Writers' : (c \in Writers /\ saw'[c] = saw[c]) \/ saw'[c] = left
  PROVE  ShelfSound'
<1>1. Units(Granted') <= Units(Granted) /\ Units(Granted) \in Nat /\ Units(Granted') \in Nat
  BY GrantedBuyers, UnitsMonotone, UnitsNat
<1> QED
  BY <1>1 DEF ShelfSound, TypeOK

LEMMA AcquireShelves ==
  ASSUME TypeOK, HoldSound, ShelfSound, NEW b \in Buyers, Gate(b) \/ Acquire(b)
  PROVE  ShelfSound'
<1>0. Units(Granted) \in Nat /\ Units(Counted) \in Nat /\ Qty[b] \in Nat
  BY GrantedBuyers, InBuyers, UnitsNat, ProductStockAssumption DEF Counted
<1>1. CASE Fault
  BY <1>1, FaultVoids DEF ShelfSound
<1>2. CASE Gate(b)
  <2>1. Granted' \subseteq Granted
    BY <1>2 DEF Gate, Go, See, At, Granted, In, TypeOK
  <2>2. Writers' = Writers /\ \A c \in Writers : saw'[c] = saw[c]
    BY <1>2 DEF Gate, Go, See, At, Writers, In, TypeOK
  <2> QED
    BY <1>2, <2>1, <2>2, ShelfKept DEF Gate, NoFault, product
<1>3. CASE Incr(b) /\ ~Fault
  <2>1. /\ hold' = hold + Qty[b] /\ total' = [total EXCEPT ![b] = hold + Qty[b]]
        /\ pc' = [pc EXCEPT ![b] = "expire"] /\ pc[b] = "incr" /\ saw' = saw /\ left' = left
        /\ slack' = (IF left < saw[b] THEN slack \cup {"stale"} ELSE slack)
    BY <1>3 DEF Incr, Note, At, product
  <2>2. Writers' = Writers
    BY <2>1 DEF Writers, In, TypeOK
  <2>3. slack' = {} => slack = {}
    BY <2>1
  <2>4. CASE hold + Qty[b] <= saw[b] /\ slack' = {}
    <3>1. Granted' \subseteq Granted \cup {b} /\ b \in Buyers \ Granted
      BY <2>1 DEF Granted, In, TypeOK
    <3>2. Units(Granted') <= Units(Granted \cup {b})
      BY <3>1, UnitsMonotone, GrantedBuyers
    <3>3. Units(Granted \cup {b}) = Units(Granted) + Qty[b]
      BY <3>1, UnitsAdd, GrantedBuyers
    <3>4. Units(Granted) <= Units(Counted)
      BY UnitsMonotone, GrantedBuyers, InBuyers DEF Counted
    <3>5. slack = {} /\ hold = Units(Counted)
      BY <2>3, <2>4 DEF HoldSound
    <3>6. saw[b] <= left /\ saw[b] \in Nat /\ left \in Nat
      BY <2>1, <2>4 DEF TypeOK
    <3>7. Units(Granted') \in Nat
      BY <3>1, GrantedBuyers, UnitsNat
    <3>8. Units(Granted') <= left
      BY <1>0, <2>4, <3>2, <3>3, <3>4, <3>5, <3>6, <3>7
    <3> QED
      BY <2>1, <2>2, <3>5, <3>8 DEF ShelfSound
  <2>5. CASE ~(hold + Qty[b] <= saw[b])
    <3>1. Granted' \subseteq Granted
      BY <2>1, <2>5 DEF Granted, In, TypeOK
    <3> QED
      BY <2>1, <2>2, <2>3, <3>1, ShelfKept
  <2> QED
    BY <2>4, <2>5 DEF ShelfSound
<1>4. CASE Expire(b) /\ ~Fault
  <2>1. Granted' \subseteq Granted
    BY <1>4 DEF Expire, Go, At, Granted, In, TypeOK
  <2>2. Writers' = Writers /\ \A c \in Writers : saw'[c] = saw[c]
    BY <1>4 DEF Expire, Go, At, Writers, In, TypeOK
  <2> QED
    BY <1>4, <2>1, <2>2, ShelfKept DEF Expire, NoFault, product
<1>5. CASE Judge(b)
  <2>1. Granted' \subseteq Granted
    BY <1>5 DEF Judge, Go, At, Granted, In, TypeOK
  <2>2. Writers' = Writers /\ \A c \in Writers : saw'[c] = saw[c]
    BY <1>5 DEF Judge, Go, At, Writers, In, TypeOK
  <2> QED
    BY <1>5, <2>1, <2>2, ShelfKept DEF Judge, NoFault, product
<1>6. CASE Rollback(b) /\ ~Fault
  <2>1. Granted' \subseteq Granted
    BY <1>6 DEF Rollback, Go, At, Granted, In, TypeOK
  <2>2. Writers' = Writers /\ \A c \in Writers : saw'[c] = saw[c]
    BY <1>6 DEF Rollback, Go, At, Writers, In, TypeOK
  <2> QED
    BY <1>6, <2>1, <2>2, ShelfKept DEF Rollback, NoFault, product
<1>7. CASE Mint(b)
  <2>1. Granted' \subseteq Granted
    BY <1>7 DEF Mint, Go, At, Granted, In, TypeOK
  <2>2. Writers' = Writers /\ \A c \in Writers : saw'[c] = saw[c]
    BY <1>7 DEF Mint, Go, At, Writers, In, TypeOK
  <2> QED
    BY <1>7, <2>1, <2>2, ShelfKept DEF Mint, NoFault, product
<1> QED
  BY <1>1, <1>2, <1>3, <1>4, <1>5, <1>6, <1>7 DEF Acquire

LEMMA BurnShelves ==
  ASSUME TypeOK, ShelfSound, NEW b \in Buyers, Burn(b) PROVE ShelfSound'
<1>0. Units(Granted) \in Nat /\ Qty[b] \in Nat
  BY GrantedBuyers, UnitsNat, ProductStockAssumption
<1>1. CASE Fault
  BY <1>1, FaultVoids DEF ShelfSound
<1>2. CASE BurnRead(b) /\ ~Fault
  <2>1. Granted' \subseteq Granted
    BY <1>2 DEF BurnRead, See, At, Granted, In, TypeOK
  <2>2. \A c \in Writers' : (c \in Writers /\ saw'[c] = saw[c]) \/ saw'[c] = left
    BY <1>2 DEF BurnRead, See, At, Writers, In, TypeOK
  <2> QED
    BY <1>2, <2>1, <2>2, ShelfKept DEF BurnRead, NoFault, product
<1>3. CASE BurnWrite(b) /\ ~Fault
  <2>1. /\ pc[b] = "burnWrite" /\ pc' = [pc EXCEPT ![b] = "decr"]
        /\ left' = AtLeastZero(saw[b] - Qty[b])
        /\ slack' = (IF Racing(b) THEN slack \cup {"moved"} ELSE slack)
    BY <1>3 DEF BurnWrite, Go, Note, At
  <2>2. CASE slack' = {}
    <3>1. slack = {} /\ Writers \ {b} = {} /\ b \in Writers
      BY <2>1, <2>2 DEF Racing, Writers, In
    <3>2. saw[b] = left /\ Units(Granted) <= left /\ left \in Nat
      BY <3>1 DEF ShelfSound, TypeOK
    <3>3. Writers' = {}
      BY <2>1, <3>1 DEF Writers, In, TypeOK
    <3>4. Granted' \subseteq Granted \ {b} /\ b \in Granted
      BY <1>3, <2>1 DEF BurnWrite, Go, Granted, In, TypeOK
    <3>5. Units(Granted \ {b}) = Units(Granted) - Qty[b]
      BY <3>4, GrantedBuyers, UnitsRemove
    <3>6. Units(Granted') <= Units(Granted \ {b}) /\ Units(Granted') \in Nat
      BY <3>4, GrantedBuyers, UnitsMonotone, UnitsNat
    <3>7. Units(Granted') <= left'
      BY <1>0, <2>1, <3>2, <3>5, <3>6 DEF AtLeastZero
    <3> QED
      BY <3>3, <3>7 DEF ShelfSound
  <2> QED
    BY <2>2 DEF ShelfSound
<1>4. CASE (Decr(b) \/ Del(b)) /\ ~Fault
  <2>1. Granted' \subseteq Granted
    BY <1>4 DEF Decr, Del, Go, At, Granted, In, TypeOK
  <2>2. Writers' = Writers /\ \A c \in Writers : saw'[c] = saw[c]
    BY <1>4 DEF Decr, Del, Go, At, Writers, In, TypeOK
  <2>3. left' = left /\ (slack' = {} => slack = {})
    BY <1>4 DEF Decr, Del, NoFault, Note, product
  <2> QED
    BY <2>1, <2>2, <2>3, ShelfKept
<1> QED
  BY <1>1, <1>2, <1>3, <1>4 DEF Burn

LEMMA BuyerShelves ==
  ASSUME TypeOK, ShelfSound, NEW b \in Buyers,
         Abandon(b) \/ Pay(b) \/ RestoreRead(b) \/ RestoreWrite(b) \/ Crash(b)
  PROVE  ShelfSound'
<1>1. CASE Fault
  BY <1>1, FaultVoids DEF ShelfSound
<1>2. CASE Abandon(b) \/ Pay(b)
  <2>1. Granted' \subseteq Granted
    BY <1>2 DEF Abandon, Pay, Go, At, Granted, In, TypeOK
  <2>2. Writers' = Writers /\ \A c \in Writers : saw'[c] = saw[c]
    BY <1>2 DEF Abandon, Pay, Go, At, Writers, In, TypeOK
  <2> QED
    BY <1>2, <2>1, <2>2, ShelfKept DEF Abandon, Pay, NoFault, product
<1>3. CASE RestoreRead(b)
  <2>1. Granted' \subseteq Granted
    BY <1>3 DEF RestoreRead, See, At, Granted, In, TypeOK
  <2>2. \A c \in Writers' : (c \in Writers /\ saw'[c] = saw[c]) \/ saw'[c] = left
    BY <1>3 DEF RestoreRead, See, At, Writers, In, TypeOK
  <2> QED
    BY <1>3, <2>1, <2>2, ShelfKept DEF RestoreRead, NoFault, product
<1>4. CASE RestoreWrite(b) /\ ~Fault
  <2>1. /\ pc[b] = "restoreWrite" /\ pc' = [pc EXCEPT ![b] = "back"] /\ left' = saw[b] + Qty[b]
        /\ slack' = {} => slack = {} /\ ~Racing(b)
    BY <1>4 DEF RestoreWrite, Go, At
  <2>2. CASE slack' = {}
    <3>1. slack = {} /\ Writers \ {b} = {} /\ b \in Writers
      BY <2>1, <2>2 DEF Racing, Writers, In
    <3>2. saw[b] = left /\ Units(Granted) <= left /\ left \in Nat
      BY <3>1 DEF ShelfSound, TypeOK
    <3>3. Writers' = {}
      BY <2>1, <3>1 DEF Writers, In, TypeOK
    <3>4. Granted' \subseteq Granted
      BY <1>4, <2>1 DEF RestoreWrite, Go, Granted, In, TypeOK
    <3>5. Units(Granted') <= Units(Granted) /\ Units(Granted') \in Nat
      BY <3>4, GrantedBuyers, UnitsMonotone, UnitsNat
    <3>6. Units(Granted) \in Nat /\ Qty[b] \in Nat
      BY GrantedBuyers, UnitsNat, ProductStockAssumption
    <3>7. Units(Granted') <= left'
      BY <2>1, <3>2, <3>5, <3>6
    <3> QED
      BY <3>3, <3>7 DEF ShelfSound
  <2> QED
    BY <2>2 DEF ShelfSound
<1> QED
  BY <1>1, <1>2, <1>3, <1>4 DEF Crash

LEMMA WorldShelves ==
  ASSUME TypeOK, ShelfSound, Lapse \/ StoreRead \/ StoreWrite PROVE ShelfSound'
<1>1. CASE Lapse
  <2>1. Granted' \subseteq Granted
    BY <1>1 DEF Lapse, At, Granted, In, TypeOK
  <2>2. Writers' = Writers /\ saw' = saw
    BY <1>1 DEF Lapse, At, Writers, In, TypeOK
  <2> QED
    BY <1>1, <2>1, <2>2, ShelfKept DEF Lapse, Note, product
<1>2. CASE StoreRead
  <2>1. Granted' = Granted /\ Writers' = Writers
    BY <1>2 DEF StoreRead, Granted, Writers, In
  <2> QED
    BY <1>2, <2>1, ShelfKept DEF StoreRead, NoFault, product
<1>3. CASE StoreWrite
  BY <1>3 DEF StoreWrite, Note, ShelfSound
<1> QED
  BY <1>1, <1>2, <1>3

LEMMA SilentBuyers == Silent \in SUBSET Buyers
  BY DEF Silent, In

\* The step sells nothing and returns nothing; who starts to write, and who is about to
\* burn, read Orders Left just now.
LEMMA BookKept ==
  ASSUME TypeOK, BookSound, left' = left, "moved" \in slack => "moved" \in slack',
         Silent' \subseteq Silent,
         \A c \in Writers' : (c \in Writers /\ saw'[c] = saw[c]) \/ saw'[c] = left,
         \A c \in In({"burnWrite"})' \ rung' :
           \/ c \in In({"burnWrite"}) \ rung /\ saw'[c] = saw[c]
           \/ Qty[c] <= saw'[c]
  PROVE  BookSound'
<1>1. Units(Silent') <= Units(Silent) /\ Units(Silent) \in Nat /\ Units(Silent') \in Nat
  BY SilentBuyers, UnitsMonotone, UnitsNat
<1>2. ASSUME NEW c \in Writers, BookSound, "moved" \notin slack
      PROVE  saw[c] + Units(Silent) <= Stock /\ saw[c] \in Nat
  BY <1>2 DEF BookSound, TypeOK, Writers, In
<1>3. Stock \in Nat /\ left \in Nat
  BY ProductStockAssumption DEF TypeOK
<1>4. ASSUME "moved" \notin slack', NEW c \in Writers' PROVE saw'[c] + Units(Silent') <= Stock
  <2>1. CASE c \in Writers /\ saw'[c] = saw[c]
    BY <1>1, <1>2, <1>3, <1>4, <2>1
  <2>2. CASE saw'[c] = left
    BY <1>1, <1>3, <1>4, <2>2 DEF BookSound
  <2> QED
    BY <2>1, <2>2
<1>5. ASSUME "moved" \notin slack' PROVE left' + Units(Silent') <= Stock
  BY <1>1, <1>3, <1>5 DEF BookSound
<1>6. ASSUME "moved" \notin slack', NEW c \in In({"burnWrite"})' \ rung' PROVE Qty[c] <= saw'[c]
  BY <1>6 DEF BookSound
<1> QED
  BY <1>4, <1>5, <1>6 DEF BookSound

LEMMA AcquireBooks ==
  ASSUME TypeOK, BookSound, NEW b \in Buyers, Gate(b) \/ Acquire(b) PROVE BookSound'
<1>1. CASE Fault
  BY <1>1, FaultVoids DEF BookSound
<1>2. CASE (Gate(b) \/ Acquire(b)) /\ ~Fault
  <2>1. /\ pc[b] \in {"idle", "incr", "expire", "judge", "rollback", "mint"}
        /\ pc'[b] \in {"incr", "soldOut", "expire", "judge", "mint", "rollback", "refused", "open", "gone"}
        /\ \A c \in Buyers \ {b} : pc'[c] = pc[c] /\ saw'[c] = saw[c]
        /\ left' = left /\ rung' = rung
    BY <1>2 DEF Gate, Acquire, Incr, Expire, Judge, Rollback, Mint, Go, See, At, product, TypeOK
  <2>2. "moved" \in slack => "moved" \in slack'
    BY <1>2 DEF Gate, Acquire, Incr, Expire, Judge, Rollback, Mint, Note, NoFault
  <2>3. Silent' \subseteq Silent
    BY <2>1 DEF Silent, In
  <2>4. \A c \in Writers' : c \in Writers /\ saw'[c] = saw[c]
    BY <2>1 DEF Writers, In
  <2>5. \A c \in In({"burnWrite"})' \ rung' : c \in In({"burnWrite"}) \ rung /\ saw'[c] = saw[c]
    BY <2>1 DEF In
  <2> QED
    BY <2>1, <2>2, <2>3, <2>4, <2>5, BookKept
<1> QED
  BY <1>1, <1>2

LEMMA BurnBooks ==
  ASSUME TypeOK, BookSound, NEW b \in Buyers, Burn(b) PROVE BookSound'
<1>0. Units(Silent) \in Nat /\ Qty[b] \in Nat /\ saw[b] \in Nat /\ Stock \in Nat
  BY SilentBuyers, UnitsNat, ProductStockAssumption DEF TypeOK
<1>1. CASE Fault
  BY <1>1, FaultVoids DEF BookSound
<1>2. CASE BurnRead(b) /\ ~Fault
  <2>1. /\ pc[b] = "burnRead" /\ pc' = [pc EXCEPT ![b] = "burnWrite"]
        /\ saw' = [saw EXCEPT ![b] = left] /\ left' = left /\ slack' = slack
        /\ rung' = IF left < Qty[b] THEN rung \cup {b} ELSE rung
    BY <1>2 DEF BurnRead, See, At, NoFault, product
  <2>2. Silent' \subseteq Silent
    BY <2>1 DEF Silent, In, TypeOK
  <2>3. \A c \in Writers' : (c \in Writers /\ saw'[c] = saw[c]) \/ saw'[c] = left
    BY <2>1 DEF Writers, In, TypeOK
  <2>4. ASSUME NEW c \in In({"burnWrite"})' \ rung'
        PROVE  (c \in In({"burnWrite"}) \ rung /\ saw'[c] = saw[c]) \/ Qty[c] <= saw'[c]
    <3>1. CASE c = b
      BY <1>0, <2>1, <2>4, <3>1 DEF TypeOK
    <3>2. CASE c # b
      BY <2>1, <2>4, <3>2 DEF In, TypeOK
    <3> QED
      BY <3>1, <3>2
  <2> QED
    BY <2>1, <2>2, <2>3, <2>4, BookKept
<1>3. CASE BurnWrite(b) /\ ~Fault
  <2>1. /\ pc[b] = "burnWrite" /\ pc' = [pc EXCEPT ![b] = "decr"] /\ rung' = rung
        /\ left' = AtLeastZero(saw[b] - Qty[b])
        /\ slack' = (IF Racing(b) THEN slack \cup {"moved"} ELSE slack)
    BY <1>3 DEF BurnWrite, Go, Note, At
  <2>2. CASE "moved" \notin slack'
    <3>1. "moved" \notin slack /\ Writers \ {b} = {} /\ b \in Writers
      BY <2>1, <2>2 DEF Racing, Writers, In
    <3>2. saw[b] + Units(Silent) <= Stock
      BY <3>1 DEF BookSound
    <3>3. Writers' = {} /\ In({"burnWrite"})' = {}
      BY <2>1, <3>1 DEF Writers, In, TypeOK
    <3>4. left' + Units(Silent') <= Stock
      <4>1. CASE b \in rung
        <5>1. Silent' = Silent
          BY <2>1, <4>1 DEF Silent, In, TypeOK
        <5> QED
          BY <1>0, <2>1, <3>2, <5>1 DEF AtLeastZero
      <4>2. CASE b \notin rung
        <5>1. Silent' = Silent \cup {b} /\ b \in Buyers \ Silent
          BY <2>1, <4>2 DEF Silent, In, TypeOK
        <5>2. Units(Silent') = Units(Silent) + Qty[b]
          BY <5>1, SilentBuyers, UnitsAdd
        <5>3. Qty[b] <= saw[b]
          BY <2>1, <3>1, <4>2 DEF BookSound, In
        <5> QED
          BY <1>0, <2>1, <3>2, <5>2, <5>3 DEF AtLeastZero
      <4> QED
        BY <4>1, <4>2
    <3> QED
      BY <3>3, <3>4 DEF BookSound
  <2> QED
    BY <2>2 DEF BookSound
<1>4. CASE (Decr(b) \/ Del(b)) /\ ~Fault
  <2>1. /\ pc[b] \in {"decr", "del"} /\ pc'[b] \in {"del", "sold"}
        /\ \A c \in Buyers \ {b} : pc'[c] = pc[c] /\ saw'[c] = saw[c]
        /\ left' = left /\ rung' = rung
    BY <1>4 DEF Decr, Del, Go, At, product, TypeOK
  <2>2. "moved" \in slack => "moved" \in slack'
    BY <1>4 DEF Decr, Del, Note, NoFault
  <2>3. Silent' \subseteq Silent
    BY <2>1 DEF Silent, In
  <2>4. \A c \in Writers' : c \in Writers /\ saw'[c] = saw[c]
    BY <2>1 DEF Writers, In
  <2>5. \A c \in In({"burnWrite"})' \ rung' : c \in In({"burnWrite"}) \ rung /\ saw'[c] = saw[c]
    BY <2>1 DEF In
  <2> QED
    BY <2>1, <2>2, <2>3, <2>4, <2>5, BookKept
<1> QED
  BY <1>1, <1>2, <1>3, <1>4 DEF Burn

LEMMA BuyerBooks ==
  ASSUME TypeOK, BookSound, NEW b \in Buyers,
         Abandon(b) \/ Pay(b) \/ RestoreRead(b) \/ RestoreWrite(b) \/ Crash(b)
  PROVE  BookSound'
<1>0. Units(Silent) \in Nat /\ Qty[b] \in Nat /\ saw[b] \in Nat /\ Stock \in Nat
  BY SilentBuyers, UnitsNat, ProductStockAssumption DEF TypeOK
<1>1. CASE Fault
  BY <1>1, FaultVoids DEF BookSound
<1>2. CASE Abandon(b) \/ Pay(b)
  <2>1. /\ pc[b] = "open" /\ pc'[b] \in {"gone", "burnRead"}
        /\ \A c \in Buyers \ {b} : pc'[c] = pc[c] /\ saw'[c] = saw[c]
        /\ left' = left /\ rung' = rung /\ slack' = slack
    BY <1>2 DEF Abandon, Pay, Go, At, product, NoFault, TypeOK
  <2>2. Silent' \subseteq Silent
    BY <2>1 DEF Silent, In
  <2>3. \A c \in Writers' : c \in Writers /\ saw'[c] = saw[c]
    BY <2>1 DEF Writers, In
  <2>4. \A c \in In({"burnWrite"})' \ rung' : c \in In({"burnWrite"}) \ rung /\ saw'[c] = saw[c]
    BY <2>1 DEF In
  <2> QED
    BY <2>1, <2>2, <2>3, <2>4, BookKept
<1>3. CASE RestoreRead(b)
  <2>1. /\ pc[b] = "sold" /\ pc' = [pc EXCEPT ![b] = "restoreWrite"]
        /\ saw' = [saw EXCEPT ![b] = left] /\ left' = left /\ slack' = slack /\ rung' = rung
    BY <1>3 DEF RestoreRead, See, At, NoFault, product
  <2>2. Silent' \subseteq Silent
    BY <2>1 DEF Silent, In, TypeOK
  <2>3. \A c \in Writers' : (c \in Writers /\ saw'[c] = saw[c]) \/ saw'[c] = left
    BY <2>1 DEF Writers, In, TypeOK
  <2>4. \A c \in In({"burnWrite"})' \ rung' : c \in In({"burnWrite"}) \ rung /\ saw'[c] = saw[c]
    BY <2>1 DEF In, TypeOK
  <2> QED
    BY <2>1, <2>2, <2>3, <2>4, BookKept
<1>4. CASE RestoreWrite(b) /\ ~Fault
  <2>1. /\ pc[b] = "restoreWrite" /\ pc' = [pc EXCEPT ![b] = "back"] /\ left' = saw[b] + Qty[b]
        /\ rung' = rung /\ saw' = [saw EXCEPT ![b] = 0]
        /\ "moved" \notin slack' => "moved" \notin slack /\ b \notin rung
    BY <1>4 DEF RestoreWrite, Go, At
  <2>2. CASE "moved" \notin slack'
    <3>1. Silent' = Silent \ {b} /\ b \in Silent
      BY <2>1, <2>2 DEF Silent, In, TypeOK
    <3>2. Units(Silent') = Units(Silent) - Qty[b]
      BY <3>1, SilentBuyers, UnitsRemove
    <3>3. b \in Writers
      BY <2>1 DEF Writers, In
    <3>4. saw[b] + Units(Silent) <= Stock
      BY <2>1, <2>2, <3>3 DEF BookSound
    <3>5. left' + Units(Silent') <= Stock
      BY <1>0, <2>1, <3>2, <3>4
    <3>6. ASSUME NEW c \in Writers' PROVE saw'[c] + Units(Silent') <= Stock
      <4>1. c \in Writers /\ saw'[c] = saw[c] /\ saw[c] \in Nat
        BY <2>1 DEF Writers, In, TypeOK
      <4>2. saw[c] + Units(Silent) <= Stock
        BY <2>1, <2>2, <4>1 DEF BookSound
      <4> QED
        BY <1>0, <3>2, <4>1, <4>2
    <3>7. ASSUME NEW c \in In({"burnWrite"})' \ rung' PROVE Qty[c] <= saw'[c]
      <4>1. c \in In({"burnWrite"}) \ rung /\ saw'[c] = saw[c]
        BY <2>1 DEF In, TypeOK
      <4> QED
        BY <2>1, <2>2, <4>1 DEF BookSound
    <3> QED
      BY <3>5, <3>6, <3>7 DEF BookSound
  <2> QED
    BY <2>2 DEF BookSound
<1> QED
  BY <1>1, <1>2, <1>3, <1>4 DEF Crash

LEMMA WorldBooks ==
  ASSUME TypeOK, BookSound, Lapse \/ StoreRead \/ StoreWrite PROVE BookSound'
<1>1. CASE Lapse \/ StoreRead
  <2>1. Silent' \subseteq Silent
    BY <1>1 DEF Lapse, StoreRead, At, Silent, In, TypeOK
  <2>2. Writers' = Writers /\ saw' = saw /\ rung' = rung /\ In({"burnWrite"})' = In({"burnWrite"})
    BY <1>1 DEF Lapse, StoreRead, At, Writers, In, TypeOK
  <2>3. left' = left /\ ("moved" \in slack => "moved" \in slack')
    BY <1>1 DEF Lapse, StoreRead, Note, NoFault, product
  <2> QED
    BY <2>1, <2>2, <2>3, BookKept
<1>2. CASE StoreWrite
  BY <1>2 DEF StoreWrite, Note, BookSound
<1> QED
  BY <1>1, <1>2

-----------------------------------------------------------------------------

LEMMA StockInvHolds == Spec => []StockInv
<1>1. Init => StockInv
  <2> SUFFICES ASSUME Init PROVE StockInv
    OBVIOUS
  <2>1. TypeOK
    BY ProductStockAssumption DEF Init, TypeOK, PCs, Slack
  <2>2. Counted = {} /\ Granted = {} /\ Silent = {} /\ Writers = {} /\ In({"burnWrite"}) = {}
    BY DEF Init, Counted, Granted, Silent, Writers, In
  <2>3. left = Stock /\ hold = 0 /\ Stock \in Nat
    BY ProductStockAssumption DEF Init
  <2> QED
    BY <2>1, <2>2, <2>3, UnitsNone DEF StockInv, HoldSound, ShelfSound, BookSound
<1>2. StockInv /\ [Next]_vars => StockInv'
  <2>1. StockInv /\ Next => TypeOK'
    BY AcquireTypes, BurnTypes, BuyerTypes, WorldTypes DEF Next, StockInv
  <2>2. StockInv /\ Next => HoldSound'
    BY AcquireHolds, BurnHolds, BuyerHolds, WorldHolds DEF Next, StockInv
  <2>3. StockInv /\ Next => ShelfSound'
    BY AcquireShelves, BurnShelves, BuyerShelves, WorldShelves DEF Next, StockInv
  <2>4. StockInv /\ Next => BookSound'
    BY AcquireBooks, BurnBooks, BuyerBooks, WorldBooks DEF Next, StockInv
  <2>5. StockInv /\ UNCHANGED vars => StockInv'
    BY DEF vars, product, key, TypeOK, StockInv, HoldSound, ShelfSound, BookSound, Counted,
           Granted, Silent, Writers, In
  <2> QED
    BY <2>1, <2>2, <2>3, <2>4, <2>5 DEF StockInv
<1> QED
  BY <1>1, <1>2, PTL DEF Spec

\* Whatever order gates, INCRs, roll-backs, burns and restores of any number of buyers come
\* in, the buyers the valve let through never want more than is left, as long as the
\* history holds none of the events of Slack.
THEOREM ValveNeverOversells == Spec => []NoOversell
<1>1. StockInv => NoOversell
  <2> SUFFICES ASSUME StockInv, slack = {}
               PROVE  Units(In({"mint", "open", "burnRead", "burnWrite"})) <= left
    BY DEF NoOversell
  <2>1. /\ In({"mint", "open", "burnRead", "burnWrite"}) \in SUBSET Granted
        /\ In({"mint", "open", "burnRead", "burnWrite"}) \in SUBSET Buyers
    BY DEF Granted, In
  <2>2. /\ Units(In({"mint", "open", "burnRead", "burnWrite"})) <= Units(Granted)
        /\ Units(In({"mint", "open", "burnRead", "burnWrite"})) \in Nat /\ Units(Granted) \in Nat
    BY <2>1, GrantedBuyers, UnitsMonotone, UnitsNat
  <2> QED
    BY <2>2 DEF StockInv, ShelfSound, TypeOK
<1> QED
  BY <1>1, StockInvHolds, PTL

\* Between acquires and releases the counter is the sum of the live holds: a refusal,
\* a release and a lapse leave nothing behind and take nothing away.
THEOREM CounterIsHolds == Spec => []HoldsAreMints
<1>1. StockInv => HoldsAreMints
  <2> SUFFICES ASSUME StockInv, In({"expire", "judge", "rollback", "del"}) = {}
               PROVE  Counted = In({"mint", "open", "gone", "burnRead", "burnWrite", "decr"})
    BY DEF HoldsAreMints, StockInv, HoldSound
  <2> QED
    BY DEF Counted, In
<1> QED
  BY <1>1, StockInvHolds, PTL

\* However the holds were lost or outlived, units sold without an OVERSOLD signal are
\* never more than the stock.
THEOREM SilentSalesFit == Spec => []OversellRings
<1>1. StockInv => OversellRings
  <2> SUFFICES ASSUME StockInv, "moved" \notin slack
               PROVE  Units(In({"decr", "del", "sold", "restoreWrite"}) \ rung) <= Stock
    BY DEF OversellRings
  <2>1. left + Units(Silent) <= Stock /\ left \in Nat /\ Units(Silent) \in Nat /\ Stock \in Nat
    BY SilentBuyers, UnitsNat, ProductStockAssumption DEF StockInv, BookSound, TypeOK
  <2>2. Units(Silent) <= Stock
    BY <2>1
  <2> QED
    BY <2>2 DEF Silent
<1> QED
  BY <1>1, StockInvHolds, PTL

=============================================================================
