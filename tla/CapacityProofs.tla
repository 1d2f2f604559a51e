--------------------------- MODULE CapacityProofs ---------------------------
(* Proofs about CapacityCounter: while nothing makes the counter drift, it   *)
(* covers every slot in use, and the ceiling holds for every number of       *)
(* invocations, rows and requests.                                           *)
EXTENDS CapacityCounter, FiniteSetTheorems, TLAPS

\* What keeps the counter exact: a warm key that Redis keeps, a standing deal (so
\* that no INCR ever returns 1 and bootstraps), closes one at a time, and no
\* failure between a DECR-first close's two halves.
Orderly ==
  /\ Warm /\ RedisReliable /\ Floor >= 1
  /\ Jobs \subseteq {"match", "decrFirst", "writeFirst", "view"}
  /\ "decrFirst" \in Jobs => MaxFaults = 0
  /\ \A v, w \in Closers : v = w

Busy(w)   == pc[w] # "idle"
Closing(w) == job[w] \in {"decrFirst", "writeFirst", "noSlot"}

\* Where each kind of request can be.
Place(w) ==
  \/ pc[w] = "idle"
  \/ job[w] = "match" /\ pc[w] \in {"incr", "create", "mirrorClaim", "flip"}
  \/ job[w] = "undo" /\ pc[w] \in {"exists", "decr", "mirror"}
  \/ job[w] = "decrFirst" /\ pc[w] \in {"exists", "decr", "mirror", "close"}
  \/ job[w] = "writeFirst" /\ pc[w] \in {"close", "exists", "decr", "mirror"}
  \/ job[w] = "noSlot" /\ pc[w] = "close"
  \/ job[w] = "view" /\ pc[w] \in {"exists", "get"}

\* What a request in flight knows of its row.
Knows(w) ==
  Busy(w) =>
  /\ Place(w)
  /\ job[w] # "view" => ref[w] \in Referrals
  /\ job[w] = "view" => ref[w] = None
  /\ job[w] \in {"match", "undo"} => status[ref[w]] # "held"
  /\ job[w] = "decrFirst" => status[ref[w]] = "held" /\ "decrFirst" \in Jobs
  /\ job[w] = "writeFirst" =>
       IF pc[w] = "close" THEN status[ref[w]] = "held" ELSE status[ref[w]] # "held"
  /\ Closing(w) => w \in Closers

\* Two requests are about the same row only if one of them frees no slot.
Apart(v, w) ==
  v # w /\ Busy(v) /\ Busy(w) /\ ref[v] = ref[w] /\ ref[w] \in Referrals
    => job[v] = "noSlot" \/ job[w] = "noSlot"

OrderInv ==
  /\ key = "set"
  /\ \A w \in Workers : Knows(w)
  /\ \A v, w \in Workers : Apart(v, w)

\* The slots whose deal passed the valve.
Admitted ==
  {r \in Referrals : \/ Booked(r)
                     \/ \E w \in Workers : /\ ref[w] = r /\ job[w] = "match"
                                           /\ pc[w] \in {"create", "mirrorClaim", "flip"}}
AdmittedBound == Floor + Cardinality(Admitted) <= Ceiling

LEMMA LiveType == ASSUME TypeOK PROVE Live \in Nat
<1>1. IsFiniteSet(Held)
  BY CapacityAssumption, FS_Subset DEF Held
<1>2. Cardinality(Held) \in Nat
  BY <1>1, FS_CardinalityType
<1> QED
  BY <1>2, CapacityAssumption DEF Live

LEMMA InitTypes == Init => TypeOK
  BY CapacityAssumption DEF Init, TypeOK, Steps, Kinds

\* What a claim does with its number changes only where the claimer is.
LEMMA UseClaimType ==
  ASSUME TypeOK, NEW w \in Workers, NEW k, UseClaim(w, k)
  PROVE  pc' \in [Workers -> Steps] /\ job' \in [Workers -> Kinds]
<1>1. pc \in [Workers -> Steps] /\ job \in [Workers -> Kinds]
  BY DEF TypeOK
<1>2. \E x \in {"create", "exists", "mirror"} : pc' = [pc EXCEPT ![w] = x]
  BY DEF UseClaim, Go
<1>3. job' = job \/ job' = [job EXCEPT ![w] = "undo"]
  BY DEF UseClaim
<1> QED
  BY <1>1, <1>2, <1>3 DEF Steps, Kinds

LEMMA NextTypes == TypeOK /\ [Next]_vars => TypeOK'
<1> SUFFICES ASSUME TypeOK, [Next]_vars PROVE TypeOK'
  OBVIOUS
<1> USE CapacityAssumption
<1>0. Live \in Nat
  BY LiveType
<1>1. CASE UNCHANGED vars
  BY <1>1 DEF TypeOK, vars, redis, inv
<1>2. ASSUME NEW w \in Workers, NEW r \in Referrals, Match(w, r) \/ Approve(w, r) \/ Close(w, r)
      PROVE  TypeOK'
  BY <1>2 DEF Match, Approve, Close, Begin, Go, redis, TypeOK, Steps, Kinds
<1>3. ASSUME NEW w \in Workers, View(w) \/ Heal(w) PROVE TypeOK'
  BY <1>3 DEF View, Heal, Begin, Go, SetN, redis, TypeOK, Steps, Kinds
<1>4. ASSUME NEW w \in Workers, Incr(w) \/ BootRead(w) \/ BootSet(w) PROVE TypeOK'
  <2>1. pc' \in [Workers -> Steps] /\ job' \in [Workers -> Kinds]
    <3>1. CASE \E k : UseClaim(w, k)
      BY <3>1, UseClaimType
    <3>2. CASE job' = job /\ \E x \in {"bootRead", "bootSet", "legRead"} : pc' = [pc EXCEPT ![w] = x]
      BY <3>2 DEF TypeOK, Steps
    <3> QED
      BY <1>4, <3>1, <3>2 DEF Incr, BootRead, BootSet, Go
  <2>2. n' \in [Workers -> Int]
    BY <1>0, <1>4 DEF Incr, BootRead, BootSet, SetN, TypeOK
  <2>3. key' \in {"set", "missing"} /\ count' \in Int
    <3>1. key' = "set" \/ key' = key
      BY <1>4 DEF Incr, BootRead, BootSet, redis
    <3>2. count' \in {count, count + 1, n[w]}
      BY <1>4 DEF Incr, BootRead, BootSet, redis
    <3> QED
      BY <3>1, <3>2 DEF TypeOK
  <2>4. faults' \in 0..MaxFaults
    BY <1>4 DEF Incr, BootRead, BootSet, TypeOK, RedisFault, Fault
  <2> QED
    BY <1>4, <2>1, <2>2, <2>3, <2>4 DEF Incr, BootRead, BootSet, TypeOK
<1>5. ASSUME NEW w \in Workers, Exists(w) \/ Get(w) \/ SeedRead(w) \/ SeedSet(w)
      PROVE  TypeOK'
  <2>1. PICK x \in Steps : pc' = [pc EXCEPT ![w] = x]
    BY <1>5 DEF Exists, Get, SeedRead, SeedSet, UseLive, AfterRelease, Go, Steps
  <2>2. pc' \in [Workers -> Steps]
    BY <2>1 DEF TypeOK
  <2>3. key' \in {"set", "missing"} /\ count' \in Int /\ mirror' \in Int
    <3>1. key' = "set" \/ key' = key
      BY <1>5 DEF Exists, Get, SeedRead, SeedSet, redis
    <3>2. count' \in {count, count - 1, 0, n[w]}
      BY <1>5 DEF Exists, Get, SeedRead, SeedSet, redis
    <3>3. mirror' \in {mirror, n[w], 0}
      BY <1>5 DEF Exists, Get, SeedRead, SeedSet, Clamped
    <3> QED
      BY <3>1, <3>2, <3>3 DEF TypeOK
  <2>4. n' \in [Workers -> Int]
    BY <1>0, <1>5 DEF Exists, Get, SeedRead, SeedSet, Clamped, SetN, TypeOK
  <2>5. faults' \in 0..MaxFaults
    BY <1>5 DEF Exists, Get, SeedRead, SeedSet, RedisFault, Fault, TypeOK
  <2>6. UNCHANGED <<status, job, ref, requests>>
    BY <1>5 DEF Exists, Get, SeedRead, SeedSet, SameJob
  <2> QED
    BY <2>2, <2>3, <2>4, <2>5, <2>6 DEF TypeOK
<1>6. ASSUME NEW w \in Workers, Decr(w) \/ Clamp(w) \/ Mirror(w)
      PROVE  TypeOK'
  <2>1. PICK x \in Steps : pc' = [pc EXCEPT ![w] = x]
    BY <1>6 DEF Decr, Clamp, Mirror, AfterRelease, Go, Steps
  <2>2. pc' \in [Workers -> Steps]
    BY <2>1 DEF TypeOK
  <2>3. key' \in {"set", "missing"} /\ count' \in Int /\ mirror' \in Int
    <3>1. key' = "set" \/ key' = key
      BY <1>6 DEF Decr, Clamp, Mirror, redis
    <3>2. count' \in {count, count - 1, 0, n[w]}
      BY <1>6 DEF Decr, Clamp, Mirror, redis
    <3>3. mirror' \in {mirror, n[w], 0}
      BY <1>6 DEF Decr, Clamp, Mirror, Clamped
    <3> QED
      BY <3>1, <3>2, <3>3 DEF TypeOK
  <2>4. n' \in [Workers -> Int]
    BY <1>0, <1>6 DEF Decr, Clamp, Mirror, Clamped, SetN, TypeOK
  <2>5. faults' \in 0..MaxFaults
    BY <1>6 DEF Decr, Clamp, Mirror, RedisFault, Fault, TypeOK
  <2>6. UNCHANGED <<status, job, ref, requests>>
    BY <1>6 DEF Decr, Clamp, Mirror, SameJob
  <2> QED
    BY <2>2, <2>3, <2>4, <2>5, <2>6 DEF TypeOK
<1>7. ASSUME NEW w \in Workers, LegRead(w) \/ LegWrite(w) PROVE TypeOK'
  <2>1. pc' \in [Workers -> Steps] /\ job' \in [Workers -> Kinds]
    <3>1. CASE \E k : UseClaim(w, k)
      BY <3>1, UseClaimType
    <3>2. CASE job' = job /\ \E x \in {"legWrite", "mirror"} : pc' = [pc EXCEPT ![w] = x]
      BY <3>2 DEF TypeOK, Steps
    <3> QED
      BY <1>7, <3>1, <3>2 DEF LegRead, LegWrite, AfterRelease, Go
  <2>2. n' \in [Workers -> Int] /\ mirror' \in Int
    BY <1>7 DEF LegRead, LegWrite, SetN, Clamped, TypeOK
  <2>3. faults' \in 0..MaxFaults
    BY <1>7 DEF LegRead, LegWrite, TypeOK, Fault
  <2> QED
    BY <1>7, <2>1, <2>2, <2>3 DEF LegRead, LegWrite, TypeOK, redis
<1>8. ASSUME NEW w \in Workers, Create(w) \/ MirrorClaim(w) \/ Flip(w) PROVE TypeOK'
  BY <1>8 DEF Create, MirrorClaim, Flip, Go, SameJob, Fault, redis, TypeOK, Steps, Kinds
<1>9. ASSUME NEW w \in Workers, ApproveWrite(w) \/ CloseWrite(w) PROVE TypeOK'
  BY <1>9 DEF ApproveWrite, CloseWrite, Go, SameJob, Fault, redis, TypeOK, Steps
<1>10. ASSUME NEW w \in Workers, HealHeld(w) \/ HealPeek(w) \/ HealSet(w) \/ HealMirror(w)
      PROVE  TypeOK'
  <2>1. PICK x \in Steps : pc' = [pc EXCEPT ![w] = x]
    BY <1>10 DEF HealHeld, HealPeek, HealSet, HealMirror, AfterRelease, Go, Steps
  <2>2. pc' \in [Workers -> Steps]
    BY <2>1 DEF TypeOK
  <2>3. key' \in {"set", "missing"} /\ count' \in Int /\ mirror' \in Int
    <3>1. key' = "set" \/ key' = key
      BY <1>10 DEF HealHeld, HealPeek, HealSet, HealMirror, redis
    <3>2. count' \in {count, count - 1, 0, n[w]}
      BY <1>10 DEF HealHeld, HealPeek, HealSet, HealMirror, redis
    <3>3. mirror' \in {mirror, n[w], 0}
      BY <1>10 DEF HealHeld, HealPeek, HealSet, HealMirror, Clamped
    <3> QED
      BY <3>1, <3>2, <3>3 DEF TypeOK
  <2>4. n' \in [Workers -> Int]
    BY <1>0, <1>10 DEF HealHeld, HealPeek, HealSet, HealMirror, Clamped, SetN, TypeOK
  <2>5. faults' \in 0..MaxFaults
    BY <1>10 DEF HealHeld, HealPeek, HealSet, HealMirror, RedisFault, Fault, TypeOK
  <2>6. UNCHANGED <<status, job, ref, requests>>
    BY <1>10 DEF HealHeld, HealPeek, HealSet, HealMirror, SameJob
  <2> QED
    BY <2>2, <2>3, <2>4, <2>5, <2>6 DEF TypeOK
<1>11. ASSUME NEW w \in Workers, Crash(w) PROVE TypeOK'
  BY <1>11 DEF Crash, Go, SameJob, Fault, redis, TypeOK, Steps
<1>12. CASE LoseKey
  <2>1. UNCHANGED <<status, mirror, pc, job, ref, n, requests>>
    BY <1>12 DEF LoseKey, inv
  <2>2. key' = "missing" /\ count' = 0 /\ faults' \in 0..MaxFaults
    BY <1>12 DEF LoseKey, RedisFault, Fault, TypeOK
  <2> QED
    BY <2>1, <2>2 DEF TypeOK
<1> QED
  BY <1>1, <1>2, <1>3, <1>4, <1>5, <1>6, <1>7, <1>8, <1>9, <1>10, <1>11, <1>12 DEF Next, Step

\* Whatever fails or races, every field keeps its type (the mirror and the
\* numbers in flight are integers: two DECRs before a clamp go below zero).
THEOREM CapacityTypes == Spec => []TypeOK
<1> QED
  BY InitTypes, NextTypes, PTL DEF Spec

-----------------------------------------------------------------------------
(* What an orderly step can be.                                              *)

Context == Orderly /\ TypeOK /\ OrderInv /\ CountsEverySlot

ClaimStep(w) ==
  /\ pc[w] = "incr" /\ job[w] = "match"
  /\ key' = "set" /\ count' = count + 1 /\ UNCHANGED <<status, ref>>
  /\ \/ pc' = [pc EXCEPT ![w] = "create"] /\ job' = job /\ count' <= Ceiling
     \/ pc' = [pc EXCEPT ![w] = "exists"] /\ job' = [job EXCEPT ![w] = "undo"]

ExistsStep(w) ==
  /\ UNCHANGED <<status, key, count, job, ref>>
  /\ \/ /\ pc[w] = "exists"
        /\ pc' = [pc EXCEPT ![w] = IF job[w] = "view" THEN "get" ELSE "decr"]
     \/ /\ pc[w] = "get" /\ job[w] = "view"
        /\ pc' = [pc EXCEPT ![w] = "idle"]

FreeStep(w) ==
  /\ pc[w] = "decr" /\ pc' = [pc EXCEPT ![w] = "mirror"]
  /\ key' = "set" /\ count' = count - 1 /\ UNCHANGED <<status, job, ref>>

\* A slot more or less: what the cardinality of the slots does.
LEMMA SlotsFinite ==
  ASSUME TypeOK
  PROVE  /\ IsFiniteSet(Slots) /\ Cardinality(Slots) \in Nat
         /\ IsFiniteSet(Admitted) /\ Cardinality(Admitted) \in Nat
<1>1. IsFiniteSet(Slots) /\ IsFiniteSet(Admitted)
  BY CapacityAssumption, FS_Subset DEF Slots, Admitted
<1> QED
  BY <1>1, FS_CardinalityType

LEMMA StandingDeal == ASSUME Context PROVE count >= 1
<1>1. Cardinality(Slots) \in Nat
  BY SlotsFinite DEF Context
<1> QED
  BY <1>1, CapacityAssumption DEF Context, CountsEverySlot, Orderly, TypeOK

LEMMA OrderlyStep ==
  ASSUME Context, NEW w \in Workers, Step(w)
  PROVE  \/ ClaimStep(w) \/ ExistsStep(w)
         \/ FreeStep(w)
         \/ (Create(w) \/ MirrorClaim(w) \/ Flip(w)) /\ job[w] = "match"
         \/ Mirror(w) /\ job[w] \in {"undo", "decrFirst", "writeFirst"}
         \/ CloseWrite(w) /\ Closing(w)
<1>1. Busy(w) => Place(w)
  BY DEF Context, OrderInv, Knows
<1>2. count \in Int /\ count >= 1 /\ key = "set" /\ ~RedisFault /\ Ceiling \in Nat /\ MaxRefs \in Nat
  BY StandingDeal, CapacityAssumption DEF Context, OrderInv, TypeOK, Orderly, RedisFault
<1>3. CASE Incr(w)
  <2>1. pc[w] = "incr" /\ job[w] = "match"
    BY <1>1, <1>3 DEF Incr, Place, Busy
  <2>2. /\ key' = "set" /\ count' = count + 1 /\ UNCHANGED <<status, ref>>
        /\ UseClaim(w, count + 1)
    BY <1>2, <1>3 DEF Incr
  <2>3. \/ pc' = [pc EXCEPT ![w] = "create"] /\ job' = job /\ count + 1 <= Ceiling
        \/ pc' = [pc EXCEPT ![w] = "exists"] /\ job' = [job EXCEPT ![w] = "undo"]
    BY <1>2, <2>1, <2>2, CapacityAssumption DEF UseClaim, Go
  <2> QED
    BY <2>1, <2>2, <2>3 DEF ClaimStep
<1>4. CASE Exists(w) \/ Get(w)
  <2>1. pc[w] # "get" \/ job[w] = "view"
    BY <1>1 DEF Place, Busy
  <2>2. job[w] # "approve" \/ pc[w] \notin {"exists", "get"}
    BY <1>1 DEF Place, Busy
  <2> QED
    BY <1>2, <1>4, <2>1, <2>2 DEF Exists, Get, Reading, UseLive, ExistsStep, Go, SameJob, redis
<1>5. CASE Decr(w)
  BY <1>2, <1>5 DEF Decr, FreeStep, AfterRelease, Go, SameJob
<1>6. CASE Mirror(w) \/ CloseWrite(w)
  BY <1>1, <1>6 DEF Mirror, CloseWrite, Place, Busy, Closing
<1>7. CASE Create(w) \/ MirrorClaim(w) \/ Flip(w)
  BY <1>1, <1>7 DEF Create, MirrorClaim, Flip, Place, Busy
<1>8. pc[w] \notin {"bootRead", "bootSet", "seedRead", "seedSet", "clamp", "legRead", "legWrite",
                    "approve", "healHeld", "healPeek", "healSet", "healMirror"}
  BY <1>1 DEF Place, Busy
<1> QED
  BY <1>3, <1>4, <1>5, <1>6, <1>7, <1>8 DEF Step, BootRead, BootSet, SeedRead, SeedSet, Clamp,
     LegRead, LegWrite, ApproveWrite, HealHeld, HealPeek, HealSet, HealMirror

LEMMA OrderlyNext ==
  ASSUME Context, [Next]_vars
  PROVE  \/ UNCHANGED vars
         \/ \E w \in Workers, r \in Referrals : Match(w, r) \/ Close(w, r)
         \/ \E w \in Workers : View(w) \/ Step(w) \/ Crash(w)
<1>1. ~LoseKey /\ \A w \in Workers : ~Heal(w)
  BY DEF Context, Orderly, LoseKey, RedisFault, Heal
<1>2. \A w \in Workers, r \in Referrals : ~Approve(w, r)
  BY DEF Context, Orderly, Approve, Begin
<1> QED
  BY <1>1, <1>2 DEF Next

-----------------------------------------------------------------------------
(* What requests in flight know stays true.                                  *)

LEMMA KnowsStable ==
  ASSUME NEW v \in Workers, Knows(v),
         pc'[v] = pc[v], job'[v] = job[v], ref'[v] = ref[v],
         job[v] \in {"noSlot", "view"} \/ ~Busy(v)
           \/ (status'[ref[v]] = "held" <=> status[ref[v]] = "held")
  PROVE  Knows(v)'
  BY DEF Knows, Place, Busy, Closing

LEMMA ApartStable ==
  ASSUME \A v, w \in Workers : Apart(v, w), ref' = ref,
         \A v \in Workers : /\ Busy(v)' => Busy(v)
                            /\ job[v] = "noSlot" => job'[v] = "noSlot"
  PROVE  (\A v, w \in Workers : Apart(v, w))'
  BY DEF Apart

\* A request that starts leaves the others alone.
LEMMA StartOrder ==
  ASSUME Context, NEW w \in Workers,
         \/ \E r \in Referrals : Match(w, r) \/ Close(w, r)
         \/ View(w)
  PROVE  OrderInv'
<1> USE CapacityAssumption
<1>0. /\ ~Busy(w) /\ UNCHANGED <<status, key>>
      /\ \A v \in Workers \ {w} : pc'[v] = pc[v] /\ job'[v] = job[v] /\ ref'[v] = ref[v]
  BY DEF Match, Close, View, Begin, Go, Busy, redis, Context, TypeOK
<1>1. ASSUME NEW v \in Workers, v # w PROVE Knows(v)'
  BY <1>0, <1>1, KnowsStable DEF Context, OrderInv
<1>2. ASSUME NEW u \in Workers, NEW v \in Workers, u # w, v # w PROVE Apart(u, v)'
  BY <1>0, <1>2 DEF Context, OrderInv, Apart, Busy
<1>3. CASE View(w)
  <2>1. pc'[w] = "exists" /\ job'[w] = "view" /\ ref'[w] = None
    BY <1>3 DEF View, Begin, Go, Context, TypeOK
  <2>2. Knows(w)'
    BY <2>1 DEF Knows, Place, Closing
  <2>3. \A v \in Workers : Apart(v, w)' /\ Apart(w, v)'
    BY <2>1 DEF Apart
  <2> QED
    BY <1>0, <1>1, <1>2, <2>2, <2>3 DEF OrderInv, Context
<1>4. ASSUME NEW r \in Referrals, Match(w, r) PROVE OrderInv'
  <2>1. pc'[w] = "incr" /\ job'[w] = "match" /\ ref'[w] = r /\ status[r] = "none"
    BY <1>4 DEF Match, Begin, Go, Context, TypeOK
  <2>2. Knows(w)'
    BY <1>0, <2>1 DEF Knows, Place, Closing
  <2>3. \A v \in Workers : ~Busy(v) \/ ref[v] # r
    BY <1>4 DEF Match, Busy
  <2>4. \A v \in Workers : Apart(v, w)' /\ Apart(w, v)'
    BY <1>0, <2>1, <2>3 DEF Apart, Busy
  <2> QED
    BY <1>0, <1>1, <1>2, <2>2, <2>4 DEF OrderInv, Context
<1>5. ASSUME NEW r \in Referrals, Close(w, r) PROVE OrderInv'
  <2>1. w \in Closers /\ ref'[w] = r
    BY <1>5 DEF Close, Begin, Context, TypeOK
  <2>2. \/ job'[w] = "decrFirst" /\ pc'[w] = "exists" /\ status[r] = "held" /\ "decrFirst" \in Jobs
        \/ job'[w] = "writeFirst" /\ pc'[w] = "close" /\ status[r] = "held"
        \/ job'[w] = "noSlot" /\ pc'[w] = "close"
    BY <1>5 DEF Close, Begin, Go, Context, TypeOK
  <2>3. Knows(w)'
    BY <1>0, <2>1, <2>2 DEF Knows, Place, Closing
  <2>4. ASSUME NEW v \in Workers, v # w, Busy(v), ref[v] = r, status[r] = "held"
        PROVE  job[v] = "noSlot"
    <3>1. Knows(v) /\ v \notin Closers
      BY <2>1, <2>4 DEF Context, OrderInv, Orderly
    <3> QED
      BY <2>4, <3>1 DEF Knows, Place, Closing, Busy
  <2>5. \A v \in Workers : Apart(v, w)' /\ Apart(w, v)'
    BY <1>0, <2>1, <2>2, <2>4 DEF Apart, Busy
  <2> QED
    BY <1>0, <1>1, <1>2, <2>3, <2>5 DEF OrderInv, Context
<1> QED
  BY <1>3, <1>4, <1>5

\* A step changes the status of its own row only, and nobody who counts on that
\* row is in flight.
LEMMA StepOrder ==
  ASSUME Context, NEW w \in Workers, Step(w) \/ Crash(w)
  PROVE  OrderInv'
<1> USE CapacityAssumption
<1>0. Busy(w) /\ Knows(w)
  BY DEF Context, OrderInv, Step, Crash, Busy, Incr, BootRead, BootSet, Exists, Get, SeedRead, SeedSet,
     Decr, Clamp, LegRead, LegWrite, Mirror, Create, MirrorClaim, Flip, ApproveWrite, CloseWrite,
     HealHeld, HealPeek, HealSet, HealMirror
<1>1. SUFFICES ASSUME \/ ClaimStep(w) \/ ExistsStep(w) \/ FreeStep(w)
                      \/ (Create(w) \/ MirrorClaim(w) \/ Flip(w)) /\ job[w] = "match"
                      \/ Mirror(w) /\ job[w] \in {"undo", "decrFirst", "writeFirst"}
                      \/ CloseWrite(w) /\ Closing(w)
                      \/ Crash(w)
               PROVE  OrderInv'
  BY OrderlyStep
<1>2. ref' = ref /\ key' = "set"
  BY <1>1 DEF ClaimStep, ExistsStep, FreeStep, Create, MirrorClaim, Flip, Mirror, CloseWrite, Crash,
     SameJob, redis, Context, OrderInv
<1>3. \A v \in Workers \ {w} : pc'[v] = pc[v] /\ job'[v] = job[v]
  BY <1>1 DEF ClaimStep, ExistsStep, FreeStep, Create, MirrorClaim, Flip, Mirror, CloseWrite, Crash,
     SameJob, Go, Context, TypeOK
<1>4. job[w] = "noSlot" => job'[w] = "noSlot"
  BY <1>1 DEF ClaimStep, ExistsStep, FreeStep, Create, MirrorClaim, Flip, Mirror, CloseWrite, Crash,
     SameJob
<1>5. (\A u, v \in Workers : Apart(u, v))'
  <2>1. \A v \in Workers : /\ Busy(v)' => Busy(v)
                           /\ job[v] = "noSlot" => job'[v] = "noSlot"
    BY <1>0, <1>3, <1>4 DEF Busy
  <2> QED
    BY <1>2, <2>1, ApartStable DEF Context, OrderInv
<1>6. \A r \in Referrals : \/ r # ref[w] /\ status'[r] = status[r]
                           \/ status' = status
                           \/ r = ref[w] /\ (Create(w) \/ Flip(w) \/ CloseWrite(w))
  BY <1>1 DEF ClaimStep, ExistsStep, FreeStep, Create, MirrorClaim, Flip, Mirror, CloseWrite, Crash,
     Context, TypeOK
<1>7. ASSUME NEW v \in Workers, v # w, Busy(v), job[v] \notin {"noSlot", "view"}
      PROVE  status'[ref[v]] = "held" <=> status[ref[v]] = "held"
  <2>1. Knows(v) /\ Apart(v, w) /\ ref[v] \in Referrals
    BY <1>7 DEF Context, OrderInv, Knows
  <2>2. CASE ref[v] # ref[w] \/ status' = status
    BY <1>6, <2>1, <2>2
  <2>3. CASE ref[v] = ref[w]
    <3>1. job[w] = "noSlot"
      BY <1>0, <1>7, <2>1, <2>3 DEF Apart
    <3>2. v \notin Closers
      BY <1>0, <1>7, <3>1 DEF Knows, Closing, Context, Orderly
    <3>3. status[ref[v]] # "held"
      BY <1>7, <2>1, <3>2 DEF Knows, Closing, Place, Busy
    <3>4. status' = status \/ status'[ref[w]] = "closed"
      BY <1>1, <2>1, <2>3, <3>1 DEF ClaimStep, ExistsStep, FreeStep, Mirror, CloseWrite, Crash, Context, TypeOK
    <3> QED
      BY <2>3, <3>3, <3>4
  <2> QED
    BY <2>2, <2>3
<1>8. ASSUME NEW v \in Workers, v # w PROVE Knows(v)'
  BY <1>2, <1>3, <1>7, <1>8, KnowsStable DEF Context, OrderInv
<1>9. Knows(w)'
  <2>1. ref[w] \in Referrals \/ job[w] = "view"
    BY <1>0 DEF Knows
  <2>2. CASE ClaimStep(w)
    BY <1>0, <1>2, <2>2 DEF ClaimStep, Knows, Place, Closing, Busy, Context, TypeOK
  <2>3. CASE ExistsStep(w)
    BY <1>0, <1>2, <2>3 DEF ExistsStep, Knows, Place, Closing, Busy, Context, TypeOK
  <2>4. CASE FreeStep(w)
    BY <1>0, <1>2, <2>4 DEF FreeStep, Knows, Place, Closing, Busy, Context, TypeOK
  <2>5. CASE Create(w) /\ job[w] = "match"
    BY <1>0, <1>2, <2>1, <2>5 DEF Create, Go, Knows, Place, Closing, Busy, Context, TypeOK
  <2>6. CASE MirrorClaim(w) /\ job[w] = "match"
    BY <1>0, <1>2, <2>6 DEF MirrorClaim, Go, SameJob, Knows, Place, Closing, Busy, Context, TypeOK
  <2>7. CASE Flip(w) /\ job[w] = "match"
    BY <1>0, <1>2, <2>1, <2>7 DEF Flip, Go, Knows, Place, Closing, Busy, Context, TypeOK
  <2>8. CASE Mirror(w) /\ job[w] \in {"undo", "decrFirst", "writeFirst"}
    BY <1>0, <1>2, <2>8 DEF Mirror, Go, SameJob, Knows, Place, Closing, Busy, Context, TypeOK
  <2>9. CASE CloseWrite(w) /\ Closing(w)
    BY <1>0, <1>2, <2>1, <2>9 DEF CloseWrite, Go, SameJob, Knows, Place, Closing, Busy, Context, TypeOK
  <2>10. CASE Crash(w)
    BY <2>10 DEF Crash, Go, Knows, Busy, Context, TypeOK
  <2> QED
    BY <1>1, <2>2, <2>3, <2>4, <2>5, <2>6, <2>7, <2>8, <2>9, <2>10
<1> QED
  BY <1>2, <1>5, <1>8, <1>9 DEF OrderInv

-----------------------------------------------------------------------------
(* What a step does to the set of slots.                                     *)

InSlots(r) == Booked(r) \/ \E w \in Workers : ref[w] = r /\ HoldsSlot(w)
InAdmitted(r) ==
  Booked(r) \/ \E w \in Workers : /\ ref[w] = r /\ job[w] = "match"
                                 /\ pc[w] \in {"create", "mirrorClaim", "flip"}

\* A request that starts takes no slot yet.
LEMMA StartSlots ==
  ASSUME Context, NEW w \in Workers,
         \/ \E r \in Referrals : Match(w, r) \/ Close(w, r)
         \/ View(w)
  PROVE  Slots' \subseteq Slots /\ Admitted' \subseteq Admitted /\ count' = count
<1>0. /\ pc[w] = "idle" /\ UNCHANGED <<status, count>>
      /\ \A v \in Workers \ {w} : pc'[v] = pc[v] /\ job'[v] = job[v] /\ ref'[v] = ref[v]
  BY DEF Match, Close, View, Begin, Go, redis, Context, TypeOK
<1>1. \/ pc'[w] \in {"incr", "close"}
      \/ pc'[w] = "exists" /\ job'[w] \in {"view", "decrFirst"}
  BY DEF Match, Close, View, Begin, Go, Context, TypeOK
<1>2. ~HoldsSlot(w)' /\ pc'[w] \notin {"create", "mirrorClaim", "flip"}
  BY <1>1 DEF HoldsSlot
<1>3. ASSUME NEW r \in Referrals PROVE Booked(r)' => Booked(r)
  BY <1>0 DEF Booked
<1>4. ASSUME NEW r \in Referrals PROVE (InSlots(r)' => InSlots(r)) /\ (InAdmitted(r)' => InAdmitted(r))
  BY <1>0, <1>2, <1>3 DEF InSlots, InAdmitted, HoldsSlot
<1> QED
  BY <1>0, <1>4 DEF Slots, Admitted, InSlots, InAdmitted

\* A claim takes one slot, and admits its deal only up to the ceiling.
LEMMA ClaimSlots ==
  ASSUME Context, NEW w \in Workers, ClaimStep(w)
  PROVE  /\ Slots' \subseteq Slots \cup {ref[w]} /\ count' = count + 1
         /\ \/ count' <= Ceiling /\ Admitted' \subseteq Slots'
            \/ Admitted' \subseteq Admitted
<1>0. /\ UNCHANGED <<status, ref>> /\ pc'[w] \in {"create", "exists"}
      /\ pc'[w] = "exists" => job'[w] = "undo"
      /\ \A v \in Workers \ {w} : pc'[v] = pc[v] /\ job'[v] = job[v]
  BY DEF ClaimStep, Context, TypeOK
<1>1. ASSUME NEW r \in Referrals PROVE Booked(r)' => Booked(r)
  BY <1>0 DEF Booked, ClaimStep
<1>2. ASSUME NEW r \in Referrals, r # ref[w] PROVE InSlots(r)' => InSlots(r)
  BY <1>0, <1>1, <1>2 DEF InSlots, HoldsSlot
<1>3. ASSUME NEW r \in Referrals PROVE InAdmitted(r)' => InSlots(r)'
  BY DEF InAdmitted, InSlots, HoldsSlot
<1>4. ASSUME pc'[w] = "exists", NEW r \in Referrals PROVE InAdmitted(r)' => InAdmitted(r)
  BY <1>0, <1>1, <1>4 DEF InAdmitted
<1>5. pc'[w] = "create" => count' <= Ceiling
  BY DEF ClaimStep, Context, TypeOK
<1> QED
  BY <1>0, <1>2, <1>3, <1>4, <1>5 DEF Slots, Admitted, InSlots, InAdmitted, ClaimStep

\* A DECR gives back a slot that was there.
LEMMA FreeSlots ==
  ASSUME Context, NEW w \in Workers, FreeStep(w)
  PROVE  /\ ref[w] \in Slots /\ Slots' \subseteq Slots \ {ref[w]} /\ count' = count - 1
         /\ Admitted' \subseteq Admitted
<1>0. /\ UNCHANGED <<status, ref, job>> /\ pc[w] = "decr" /\ pc'[w] = "mirror"
      /\ \A v \in Workers \ {w} : pc'[v] = pc[v]
  BY DEF FreeStep, Context, TypeOK
<1>1. Knows(w) /\ job[w] \in {"undo", "decrFirst", "writeFirst"} /\ ref[w] \in Referrals
  BY <1>0 DEF Context, OrderInv, Knows, Place, Busy
<1>2. ASSUME NEW v \in Workers, v # w, ref[v] = ref[w], Busy(v) PROVE job[v] = "noSlot"
  BY <1>0, <1>1, <1>2 DEF Context, OrderInv, Apart, Busy
<1>3. ASSUME NEW v \in Workers, v # w, ref[v] = ref[w] PROVE ~HoldsSlot(v) /\ ~HoldsSlot(v)'
  BY <1>0, <1>2, <1>3 DEF HoldsSlot, Busy
<1>4. InSlots(ref[w])
  <2>1. CASE job[w] = "decrFirst"
    <3>1. status[ref[w]] = "held"
      BY <1>0, <1>1, <2>1 DEF Knows, Busy
    <3>2. ASSUME NEW v \in Workers, ref[v] = ref[w], job[v] = "decrFirst",
                 pc[v] \in {"clamp", "mirror", "close"}
          PROVE  FALSE
      BY <1>0, <1>2, <3>2 DEF Busy
    <3> QED
      BY <3>1, <3>2 DEF InSlots, Booked
  <2>2. CASE job[w] # "decrFirst"
    BY <1>0, <1>1, <2>2 DEF InSlots, HoldsSlot
  <2> QED
    BY <2>1, <2>2
<1>5. ~InSlots(ref[w])'
  <2>1. ~Booked(ref[w])'
    <3>1. CASE job[w] = "decrFirst"
      BY <1>0, <3>1 DEF Booked
    <3>2. CASE job[w] # "decrFirst"
      BY <1>0, <1>1, <3>2 DEF Booked, Knows, Busy
    <3> QED
      BY <3>1, <3>2
  <2>2. ~HoldsSlot(w)'
    BY <1>0 DEF HoldsSlot
  <2> QED
    BY <1>0, <1>3, <2>1, <2>2 DEF InSlots
<1>6. ASSUME NEW r \in Referrals PROVE Booked(r)' => Booked(r)
  BY <1>0 DEF Booked
<1>7. ASSUME NEW r \in Referrals PROVE (InSlots(r)' => InSlots(r)) /\ (InAdmitted(r)' => InAdmitted(r))
  BY <1>0, <1>6 DEF InSlots, InAdmitted, HoldsSlot
<1> QED
  BY <1>0, <1>1, <1>4, <1>5, <1>7 DEF Slots, Admitted, InSlots, InAdmitted, FreeStep

\* Every other step takes no slot: a deal that starts being held was claimed, and
\* one that stops was freed or is about to be.
LEMMA OtherSlots ==
  ASSUME Context, NEW w \in Workers,
         \/ ExistsStep(w)
         \/ (Create(w) \/ MirrorClaim(w) \/ Flip(w)) /\ job[w] = "match"
         \/ Mirror(w) /\ job[w] \in {"undo", "decrFirst", "writeFirst"}
         \/ CloseWrite(w) /\ Closing(w)
         \/ Crash(w)
  PROVE  Slots' \subseteq Slots /\ Admitted' \subseteq Admitted /\ count' = count
<1>0. /\ ref' = ref /\ count' = count
      /\ \A v \in Workers \ {w} : pc'[v] = pc[v] /\ job'[v] = job[v]
  BY DEF ExistsStep, Create, MirrorClaim, Flip, Mirror, CloseWrite, Crash, SameJob, Go, redis,
     Context, TypeOK
<1>1. Busy(w) /\ Knows(w)
  BY DEF ExistsStep, Create, MirrorClaim, Flip, Mirror, CloseWrite, Crash, Busy, Context, OrderInv
<1>2. SUFFICES ASSUME NEW r \in Referrals
               PROVE  (InSlots(r)' => InSlots(r)) /\ (InAdmitted(r)' => InAdmitted(r))
  BY <1>0 DEF Slots, Admitted, InSlots, InAdmitted
<1>3. "decrFirst" \in Jobs => ~Fault
  BY CapacityAssumption DEF Fault, Context, TypeOK, Orderly
<1>4. CASE ExistsStep(w)
  <2>1. Booked(r)' => Booked(r)
    BY <1>0, <1>4 DEF Booked, ExistsStep
  <2>2. HoldsSlot(w)' => HoldsSlot(w)
    BY <1>1, <1>4 DEF HoldsSlot, ExistsStep, Context, TypeOK
  <2> QED
    BY <1>0, <1>4, <2>1, <2>2 DEF InSlots, InAdmitted, HoldsSlot, ExistsStep, Context, TypeOK
<1>5. CASE (Create(w) \/ MirrorClaim(w)) /\ job[w] = "match"
  <2>1. Booked(r)' => Booked(r)
    BY <1>0, <1>5 DEF Booked, Create, MirrorClaim, Go, Context, TypeOK
  <2>2. HoldsSlot(w) /\ pc[w] \in {"create", "mirrorClaim", "flip"}
    BY <1>5 DEF HoldsSlot, Create, MirrorClaim
  <2> QED
    BY <1>0, <1>5, <2>1, <2>2 DEF InSlots, InAdmitted, HoldsSlot
<1>6. CASE Flip(w) /\ job[w] = "match"
  <2>1. HoldsSlot(w) /\ pc[w] = "flip"
    BY <1>6 DEF HoldsSlot, Flip
  <2>2. r # ref[w] => (Booked(r)' => Booked(r))
    BY <1>0, <1>6 DEF Booked, Flip, Go, Context, TypeOK
  <2> QED
    BY <1>0, <1>6, <2>1, <2>2 DEF InSlots, InAdmitted, HoldsSlot
<1>7. CASE Mirror(w) /\ job[w] \in {"undo", "decrFirst", "writeFirst"}
  <2>1. /\ UNCHANGED <<status, job>> /\ pc[w] = "mirror"
        /\ pc'[w] = IF job[w] = "decrFirst" THEN "close" ELSE "idle"
    BY <1>7 DEF Mirror, Go, SameJob, Context, TypeOK
  <2>2. Booked(r)' => Booked(r)
    BY <1>0, <2>1 DEF Booked
  <2> QED
    BY <1>0, <2>1, <2>2 DEF InSlots, InAdmitted, HoldsSlot
<1>8. CASE CloseWrite(w) /\ Closing(w)
  <2>1. ASSUME status' = [status EXCEPT ![ref[w]] = "closed"]
        PROVE  Booked(r)' => Booked(r) /\ r # ref[w]
    BY <1>0, <2>1 DEF Booked, Context, TypeOK
  <2>2. CASE job[w] = "writeFirst" /\ ~Fault
    <3>1. status[ref[w]] = "held" /\ ref[w] \in Referrals
      BY <1>1, <1>8, <2>2 DEF Knows, CloseWrite
    <3>2. ASSUME NEW v \in Workers, ref[v] = ref[w], job[v] = "decrFirst",
                 pc[v] \in {"clamp", "mirror", "close"}
          PROVE  FALSE
      BY <1>1, <2>2, <3>1, <3>2 DEF Context, OrderInv, Apart, Busy
    <3>3. Booked(ref[w])
      BY <3>1, <3>2 DEF Booked
    <3>4. status' = [status EXCEPT ![ref[w]] = "closed"] /\ pc[w] = "close"
      BY <1>8, <2>2 DEF CloseWrite
    <3> QED
      BY <1>0, <2>1, <3>3, <3>4 DEF InSlots, InAdmitted, HoldsSlot
  <2>3. CASE job[w] # "writeFirst" /\ ~Fault
    <3>1. /\ status' = [status EXCEPT ![ref[w]] = "closed"] /\ pc'[w] = "idle"
      BY <1>8, <2>3 DEF CloseWrite, Go, Context, TypeOK
    <3> QED
      BY <1>0, <2>1, <3>1 DEF InSlots, InAdmitted, HoldsSlot
  <2>4. CASE Fault
    <3>1. job[w] # "decrFirst" /\ pc[w] = "close"
      BY <1>1, <1>3, <1>8, <2>4 DEF Knows, CloseWrite
    <3>2. CASE status' = status /\ pc'[w] = "idle"
      <4>1. Booked(r)' => Booked(r)
        BY <1>0, <3>1, <3>2 DEF Booked
      <4> QED
        BY <1>0, <3>2, <4>1 DEF InSlots, InAdmitted, HoldsSlot
    <3> QED
      BY <1>8, <2>4, <3>2 DEF CloseWrite, Fault, Go, Context, TypeOK
  <2> QED
    BY <2>2, <2>3, <2>4
<1>9. CASE Crash(w)
  <2>1. /\ UNCHANGED <<status, job>> /\ pc'[w] = "idle" /\ job[w] # "decrFirst"
    BY <1>1, <1>3, <1>9 DEF Crash, Go, SameJob, Knows, Context, TypeOK
  <2>2. Booked(r)' => Booked(r)
    BY <1>0, <2>1 DEF Booked
  <2> QED
    BY <1>0, <2>1, <2>2 DEF InSlots, InAdmitted, HoldsSlot
<1> QED
  BY <1>4, <1>5, <1>6, <1>7, <1>8, <1>9

-----------------------------------------------------------------------------
(* The two bounds are inductive together with OrderInv.                      *)

LEMMA FewerSlots ==
  ASSUME TypeOK, TypeOK', Slots' \subseteq Slots, Admitted' \subseteq Admitted
  PROVE  Cardinality(Slots') <= Cardinality(Slots) /\ Cardinality(Admitted') <= Cardinality(Admitted)
  BY SlotsFinite, FS_Subset

LEMMA BoundsInit == Orderly /\ Init => OrderInv /\ CountsEverySlot /\ AdmittedBound
<1> SUFFICES ASSUME Orderly, Init PROVE OrderInv /\ CountsEverySlot /\ AdmittedBound
  OBVIOUS
<1> USE CapacityAssumption
<1>1. OrderInv
  BY DEF Init, Orderly, OrderInv, Knows, Apart, Busy
<1>2. Slots = {} /\ Admitted = {}
  BY DEF Init, Slots, Admitted, Booked, HoldsSlot
<1> QED
  BY <1>1, <1>2, FS_EmptySet DEF Init, Orderly, CountsEverySlot, AdmittedBound

LEMMA BoundsNext ==
  ASSUME Context, TypeOK', AdmittedBound, [Next]_vars
  PROVE  OrderInv' /\ CountsEverySlot' /\ AdmittedBound'
<1> USE CapacityAssumption
<1>0. /\ Cardinality(Slots) \in Nat /\ Cardinality(Admitted) \in Nat
      /\ Cardinality(Slots') \in Nat /\ Cardinality(Admitted') \in Nat
      /\ IsFiniteSet(Slots) /\ IsFiniteSet(Slots') /\ count \in Int
  <2>1. IsFiniteSet(Slots') /\ IsFiniteSet(Admitted')
    BY FS_Subset DEF Slots, Admitted
  <2> QED
    BY <2>1, SlotsFinite, FS_CardinalityType DEF Context, TypeOK
<1>1. CASE UNCHANGED vars
  <2>1. UNCHANGED <<status, key, count, pc, job, ref>>
    BY <1>1 DEF vars, redis, inv
  <2>2. Slots' = Slots /\ Admitted' = Admitted
    BY <2>1 DEF Slots, Admitted, Booked, HoldsSlot
  <2>3. ASSUME NEW v \in Workers PROVE Knows(v)'
    BY <2>1, KnowsStable DEF Context, OrderInv
  <2>4. (\A v, w \in Workers : Apart(v, w))'
    BY <2>1 DEF Context, OrderInv, Apart, Busy
  <2> QED
    BY <2>1, <2>2, <2>3, <2>4 DEF Context, OrderInv, CountsEverySlot, AdmittedBound
<1>2. ASSUME Slots' \subseteq Slots, Admitted' \subseteq Admitted, count' = count
      PROVE  CountsEverySlot' /\ AdmittedBound'
  BY <1>0, <1>2, FewerSlots DEF Context, CountsEverySlot, AdmittedBound
<1>3. ASSUME NEW w \in Workers,
             View(w) \/ \E r \in Referrals : Match(w, r) \/ Close(w, r)
      PROVE  OrderInv' /\ CountsEverySlot' /\ AdmittedBound'
  BY <1>2, <1>3, StartOrder, StartSlots
<1>4. ASSUME NEW w \in Workers, ClaimStep(w) PROVE CountsEverySlot' /\ AdmittedBound'
  <2>1. /\ Slots' \subseteq Slots \cup {ref[w]} /\ count' = count + 1
        /\ \/ count' <= Ceiling /\ Admitted' \subseteq Slots'
           \/ Admitted' \subseteq Admitted
    BY <1>4, ClaimSlots
  <2>2. Cardinality(Slots') <= Cardinality(Slots) + 1
    <3>1. /\ IsFiniteSet(Slots \cup {ref[w]})
          /\ Cardinality(Slots \cup {ref[w]}) =
               IF ref[w] \in Slots THEN Cardinality(Slots) ELSE Cardinality(Slots) + 1
      BY <1>0, FS_AddElement, Zenon
    <3>2. Cardinality(Slots') <= Cardinality(Slots \cup {ref[w]})
      BY <2>1, <3>1, FS_Subset
    <3>3. Cardinality(Slots \cup {ref[w]}) \in Nat
      BY <3>1, FS_CardinalityType
    <3> QED
      BY <1>0, <3>1, <3>2, <3>3
  <2>3. CountsEverySlot'
    BY <1>0, <2>1, <2>2 DEF Context, CountsEverySlot
  <2>4. AdmittedBound'
    <3>1. CASE count' <= Ceiling /\ Admitted' \subseteq Slots'
      <4>1. Cardinality(Admitted') <= Cardinality(Slots')
        BY <1>0, <3>1, FS_Subset
      <4> QED
        BY <1>0, <2>1, <2>3, <3>1, <4>1 DEF CountsEverySlot, AdmittedBound
    <3>2. CASE Admitted' \subseteq Admitted
      <4>1. Cardinality(Admitted') <= Cardinality(Admitted)
        BY <3>2, SlotsFinite, FS_Subset DEF Context
      <4> QED
        BY <1>0, <4>1 DEF AdmittedBound
    <3> QED
      BY <2>1, <3>1, <3>2
  <2> QED
    BY <2>3, <2>4
<1>5. ASSUME NEW w \in Workers, FreeStep(w) PROVE CountsEverySlot' /\ AdmittedBound'
  <2>1. /\ ref[w] \in Slots /\ Slots' \subseteq Slots \ {ref[w]} /\ count' = count - 1
        /\ Admitted' \subseteq Admitted
    BY <1>5, FreeSlots
  <2>2. Cardinality(Slots') <= Cardinality(Slots) - 1
    <3>1. IsFiniteSet(Slots \ {ref[w]}) /\ Cardinality(Slots \ {ref[w]}) = Cardinality(Slots) - 1
      BY <1>0, <2>1, FS_RemoveElement
    <3> QED
      BY <2>1, <3>1, FS_Subset
  <2>3. Cardinality(Admitted') <= Cardinality(Admitted)
    BY <2>1, SlotsFinite, FS_Subset DEF Context
  <2> QED
    BY <1>0, <2>1, <2>2, <2>3 DEF Context, CountsEverySlot, AdmittedBound
<1>6. ASSUME NEW w \in Workers, Step(w) \/ Crash(w)
      PROVE  OrderInv' /\ CountsEverySlot' /\ AdmittedBound'
  <2>1. OrderInv'
    BY <1>6, StepOrder
  <2>2. CASE Crash(w)
    BY <1>2, <2>1, <2>2, OtherSlots
  <2>3. CASE Step(w)
    BY <1>2, <1>4, <1>5, <2>1, <2>3, OrderlyStep, OtherSlots
  <2> QED
    BY <1>6, <2>2, <2>3
<1> QED
  BY <1>1, <1>3, <1>6, OrderlyNext

LEMMA OrderlyInvariant ==
  Orderly => (Spec => [](TypeOK /\ OrderInv /\ CountsEverySlot /\ AdmittedBound))
<1> SUFFICES ASSUME Orderly
             PROVE  Spec => [](TypeOK /\ OrderInv /\ CountsEverySlot /\ AdmittedBound)
  OBVIOUS
<1>1. Init => TypeOK /\ OrderInv /\ CountsEverySlot /\ AdmittedBound
  BY InitTypes, BoundsInit
<1>2. /\ TypeOK /\ OrderInv /\ CountsEverySlot /\ AdmittedBound
      /\ [Next]_vars
      => (TypeOK /\ OrderInv /\ CountsEverySlot /\ AdmittedBound)'
  BY NextTypes, BoundsNext DEF Context
<1> QED
  BY <1>1, <1>2, PTL DEF Spec

\* For a rancher with a standing deal, while Redis keeps the key and closes come
\* one at a time, decrementCapacity and incrementCapacity never let the counter
\* fall below the slots in use, whatever crashes and write failures happen.
THEOREM CounterCoversSlots == Orderly => (Spec => []CountsEverySlot)
<1> QED
  BY OrderlyInvariant, PTL

\* Under the same conditions matching/suggest never takes a rancher past the hard
\* ceiling, for any number of buyers routed at once.
THEOREM CeilingHolds == Orderly => (Spec => []NeverOverCeiling)
<1>1. TypeOK /\ AdmittedBound => NeverOverCeiling
  <2> SUFFICES ASSUME TypeOK, AdmittedBound PROVE NeverOverCeiling
    OBVIOUS
  <2> DEFINE B == {r \in Referrals : Booked(r)}
  <2>1. B \subseteq Admitted /\ IsFiniteSet(Admitted) /\ Cardinality(Admitted) \in Nat
    BY SlotsFinite DEF Admitted
  <2>2. Cardinality(B) <= Cardinality(Admitted) /\ Cardinality(B) \in Nat
    BY <2>1, FS_Subset, FS_CardinalityType
  <2> QED
    BY <2>1, <2>2, CapacityAssumption DEF AdmittedBound, NeverOverCeiling
<1> QED
  BY <1>1, OrderlyInvariant, PTL
=============================================================================
