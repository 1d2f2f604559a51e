-------------------------- MODULE CapacityCounter --------------------------
(***************************************************************************)
(* The capacity of one rancher: the Redis counter that gates routing, its  *)
(* Airtable mirror, and the referrals that really hold the slots.          *)
(*                                                                         *)
(*   lib/rancherCapacity.ts              INCR, DECR, bootstrap, fallback   *)
(*   app/api/matching/suggest            claim, valve, bounce, roll back   *)
(*   app/api/webhooks/telegram           approve_: a slot claimed by hand  *)
(*   app/api/referrals/[id]/approve      a slot taken without a claim      *)
(*   app/api/referrals/[id],             the two orders in which a close   *)
(*   app/api/rancher/referrals/[id]      frees the slot and writes Status  *)
(*   app/api/cron/capacity-drift-check   the nightly repair                *)
(*                                                                         *)
(* Each Redis command and each Airtable request is a step; the requests of *)
(* concurrent invocations (Workers) interleave.  Floor deals of the        *)
(* rancher are held throughout.                                            *)
(***************************************************************************)
EXTENDS Integers, FiniteSets

CONSTANTS
  Referrals,      \* rows that can be created and routed to the rancher
  Workers,        \* concurrent invocations
  Closers,        \* the workers that handle closes
  Jobs,           \* the kinds of request that arrive
  None,           \* no referral
  Floor,          \* deals held before and throughout
  MaxRefs,        \* Max Active Referrals: the valve of a cold lead
  Ceiling,        \* ceil(1.2 * MaxRefs): the valve of a hot lead
  Warm,           \* the Redis key exists at the start
  RedisReliable,  \* Redis answers every command and keeps the key
  MaxFaults,      \* bound: failed commands, failed writes, crashes
  MaxRequests     \* bound: requests in a behaviour (repairs not counted)

ASSUME CapacityAssumption ==
  /\ IsFiniteSet(Referrals) /\ None \notin Referrals
  /\ Closers \subseteq Workers
  /\ Jobs \subseteq {"match", "approve", "adminApprove", "decrFirst", "writeFirst", "view", "heal"}
  /\ Floor \in Nat /\ MaxRefs \in Nat /\ Ceiling \in Nat
  /\ Floor <= Ceiling /\ MaxRefs <= Ceiling
  /\ Warm \in BOOLEAN /\ RedisReliable \in BOOLEAN
  /\ MaxFaults \in Nat /\ MaxRequests \in Nat

VARIABLES
  status,    \* Airtable Referrals: Status, as far as capacity sees it
  key,       \* Redis: the key is "set" or "missing"
  count,     \* Redis: its value
  mirror,    \* Airtable Ranchers: Current Active Referrals
  pc, job, ref, n,   \* each invocation: where, for what, on which row, with what number
  faults, requests   \* faults and requests used so far

redis == <<key, count>>
inv   == <<pc, job, ref, n>>
vars  == <<status, redis, mirror, inv, faults, requests>>

Steps == {"idle", "incr", "bootRead", "bootSet", "create", "mirrorClaim", "flip",
          "exists", "get", "seedRead", "seedSet", "decr", "clamp", "legRead", "legWrite",
          "mirror", "approve", "close", "healHeld", "healPeek", "healSet", "healMirror"}

\* liveHeldCountForRancher: what the Referrals table says.
Held == {r \in Referrals : status[r] = "held"}
Live == Floor + Cardinality(Held)

Init ==
  /\ status = [r \in Referrals |-> "none"]
  /\ key = (IF Warm THEN "set" ELSE "missing") /\ count = (IF Warm THEN Floor ELSE 0) /\ mirror = Floor
  /\ pc = [w \in Workers |-> "idle"] /\ job = [w \in Workers |-> "none"]
  /\ ref = [w \in Workers |-> None] /\ n = [w \in Workers |-> 0]
  /\ faults = 0 /\ requests = 0

Go(w, next)  == pc' = [pc EXCEPT ![w] = next]
SetN(w, k)   == n' = [n EXCEPT ![w] = k]
SameJob      == UNCHANGED <<job, ref, requests>>
Fault        == faults < MaxFaults /\ faults' = faults + 1
RedisFault   == ~RedisReliable /\ Fault
\* A number the mirror is given is never negative.
Clamped(k)   == IF k < 0 THEN 0 ELSE k
Claiming(j)  == j \in {"match", "approve"}

Begin(w, j, r, next) ==
  /\ pc[w] = "idle" /\ j \in Jobs
  /\ requests < MaxRequests /\ requests' = requests + 1
  /\ job' = [job EXCEPT ![w] = j] /\ ref' = [ref EXCEPT ![w] = r]
  /\ Go(w, next)
  /\ UNCHANGED <<status, redis, mirror, n, faults>>

-----------------------------------------------------------------------------
(* incrementCapacity.                                                       *)

\* What the caller does with the number: a match passes the valve (its own is
\* MaxRefs or Ceiling, as the lead is cold or hot) and creates the row, or
\* gives the slot back and tries the next rancher; an approval just mirrors it.
UseClaim(w, k) ==
  \/ /\ job[w] = "match"
     /\ \E valve \in {MaxRefs, Ceiling} :
          \/ k <= valve /\ Go(w, "create") /\ UNCHANGED job
          \/ k > valve /\ Go(w, "exists") /\ job' = [job EXCEPT ![w] = "undo"]
  \/ job[w] = "approve" /\ Go(w, "mirror") /\ UNCHANGED job

\* Seeded fault: the claim reads the counter and writes it back later.
IncrStale(w) ==
  /\ pc[w] = "incr" /\ SetN(w, count + 1) /\ Go(w, "bootSet")
  /\ UNCHANGED <<status, redis, mirror, job, ref, faults, requests>>

\* INCR.  1 is taken for a key that did not exist.  An error (the command may
\* have run all the same) goes to the Airtable fallback.
Incr(w) ==
  /\ pc[w] = "incr"
  /\ \/ /\ key' = "set" /\ count' = count + 1 /\ SetN(w, count + 1)
        /\ IF count + 1 = 1 THEN Go(w, "bootRead") /\ UNCHANGED job
           ELSE UseClaim(w, count + 1)
        /\ UNCHANGED faults
     \/ /\ RedisFault /\ Go(w, "legRead") /\ UNCHANGED <<n, job>>
        /\ \/ UNCHANGED redis
           \/ key' = "set" /\ count' = count + 1
  /\ UNCHANGED <<status, mirror, ref, requests>>

\* The bootstrap reads the Referrals table...
BootRead(w) ==
  /\ pc[w] = "bootRead"
  /\ \/ /\ Live >= 1 /\ SetN(w, Live + 1) /\ Go(w, "bootSet") /\ UNCHANGED <<job, faults>>
     \/ /\ Live = 0 /\ UseClaim(w, 1) /\ UNCHANGED <<n, faults>>
     \/ /\ Fault /\ UseClaim(w, 1) /\ UNCHANGED n
  /\ UNCHANGED <<status, redis, mirror, ref, requests>>

\* ... and overwrites the counter with what it read plus one.
BootSet(w) ==
  /\ pc[w] = "bootSet"
  /\ \/ /\ key' = "set" /\ count' = n[w] /\ UseClaim(w, n[w]) /\ UNCHANGED <<n, faults>>
     \/ /\ RedisFault /\ UseClaim(w, 1) /\ SetN(w, 1) /\ UNCHANGED redis
  /\ UNCHANGED <<status, mirror, ref, requests>>

-----------------------------------------------------------------------------
(* decrementCapacity, and the seed it shares with getLiveCapacity.          *)

AfterRelease(w) == Go(w, "mirror")

\* getLiveCapacity runs the same commands for a caller that only reads.  With
\* the number, approve_ goes on below the cap; an error falls back to the mirror.
Reading(j)    == j \in {"view", "approve"}
UseLive(w, k) == Go(w, IF job[w] = "approve" /\ k < MaxRefs THEN "approve" ELSE "idle")

\* EXISTS: a missing key is seeded from the Referrals table, not decremented.
Exists(w) ==
  /\ pc[w] = "exists"
  /\ \/ key = "set" /\ Go(w, IF Reading(job[w]) THEN "get" ELSE "decr") /\ UNCHANGED faults
     \/ key = "missing" /\ Go(w, "seedRead") /\ UNCHANGED faults
     \/ RedisFault /\ IF Reading(job[w]) THEN UseLive(w, mirror) ELSE Go(w, "legRead")
  /\ UNCHANGED <<status, redis, mirror, n>> /\ SameJob

Get(w) ==
  /\ pc[w] = "get"
  /\ \/ UseLive(w, count) /\ UNCHANGED faults
     \/ RedisFault /\ UseLive(w, mirror)
  /\ UNCHANGED <<status, redis, mirror, n>> /\ SameJob

SeedRead(w) ==
  /\ pc[w] = "seedRead"
  /\ \/ SetN(w, Live) /\ Go(w, "seedSet") /\ UNCHANGED faults
     \/ /\ Fault /\ UNCHANGED n
        /\ IF Reading(job[w]) THEN UseLive(w, mirror) ELSE Go(w, "legRead")
  /\ UNCHANGED <<status, redis, mirror>> /\ SameJob

SeedSet(w) ==
  /\ pc[w] = "seedSet"
  /\ \/ /\ key' = "set" /\ count' = n[w] /\ UNCHANGED faults
        /\ IF Reading(job[w]) THEN UseLive(w, n[w]) ELSE AfterRelease(w)
     \/ /\ RedisFault /\ UNCHANGED redis
        /\ IF Reading(job[w]) THEN UseLive(w, mirror) ELSE Go(w, "legRead")
  /\ UNCHANGED <<status, mirror, n>> /\ SameJob

\* DECR (of a key that may be gone by now), and the clamp of a negative result.
Decr(w) ==
  /\ pc[w] = "decr"
  /\ \/ /\ key' = "set" /\ count' = count - 1 /\ SetN(w, Clamped(count - 1))
        /\ IF count - 1 < 0 THEN Go(w, "clamp") ELSE AfterRelease(w)
        /\ UNCHANGED faults
     \/ /\ RedisFault /\ Go(w, "legRead") /\ UNCHANGED n
        /\ \/ UNCHANGED redis
           \/ key' = "set" /\ count' = count - 1
  /\ UNCHANGED <<status, mirror>> /\ SameJob

Clamp(w) ==
  /\ pc[w] = "clamp"
  /\ \/ key' = "set" /\ count' = 0 /\ AfterRelease(w) /\ UNCHANGED faults
     \/ RedisFault /\ Go(w, "legRead") /\ UNCHANGED redis
  /\ UNCHANGED <<status, mirror, n>> /\ SameJob

-----------------------------------------------------------------------------
(* legacyIncrement and legacyDecrement: read-modify-write of the mirror.    *)

LegRead(w) ==
  /\ pc[w] = "legRead"
  /\ \/ /\ Go(w, "legWrite") /\ UNCHANGED <<job, faults>>
        /\ SetN(w, IF Claiming(job[w]) THEN mirror + 1 ELSE Clamped(mirror - 1))
     \/ /\ Fault /\ SetN(w, 0)
        /\ IF Claiming(job[w]) THEN UseClaim(w, 0) ELSE AfterRelease(w) /\ UNCHANGED job
  /\ UNCHANGED <<status, redis, mirror, ref, requests>>

LegWrite(w) ==
  /\ pc[w] = "legWrite"
  /\ \/ /\ mirror' = n[w] /\ UNCHANGED <<n, faults>>
        /\ IF Claiming(job[w]) THEN UseClaim(w, n[w]) ELSE AfterRelease(w) /\ UNCHANGED job
     \/ /\ Fault /\ SetN(w, 0) /\ UNCHANGED mirror
        /\ IF Claiming(job[w]) THEN UseClaim(w, 0) ELSE AfterRelease(w) /\ UNCHANGED job
  /\ UNCHANGED <<status, redis, ref, requests>>

\* syncCapacityToAirtable: a failure is swallowed.  DECR-first closes then write
\* the status.
Mirror(w) ==
  /\ pc[w] = "mirror"
  /\ \/ mirror' = Clamped(n[w]) /\ UNCHANGED faults
     \/ Fault /\ UNCHANGED mirror
  /\ Go(w, IF job[w] = "decrFirst" THEN "close" ELSE "idle")
  /\ UNCHANGED <<status, redis, n>> /\ SameJob

-----------------------------------------------------------------------------
(* matching/suggest: the slot is claimed before the row exists.             *)

Match(w, r) ==
  /\ status[r] = "none" /\ \A v \in Workers : pc[v] = "idle" \/ ref[v] # r
  /\ Begin(w, "match", r, "incr")

\* Seeded fault: a failed create leaves a Status the base does not have.
CreateUnknown(w) ==
  /\ pc[w] = "create"
  /\ \/ status' = [status EXCEPT ![ref[w]] = "pending"] /\ UNCHANGED faults
     \/ status' = [status EXCEPT ![ref[w]] = "failed"] /\ Fault
  /\ Go(w, "mirrorClaim")
  /\ UNCHANGED <<redis, mirror, job, ref, n, requests>>

\* A failed create gives the slot back.
Create(w) ==
  /\ pc[w] = "create"
  /\ \/ /\ status' = [status EXCEPT ![ref[w]] = "pending"]
        /\ Go(w, "mirrorClaim") /\ UNCHANGED <<job, faults>>
     \/ /\ Fault /\ UNCHANGED status
        /\ Go(w, "exists") /\ job' = [job EXCEPT ![w] = "undo"]
  /\ UNCHANGED <<redis, mirror, ref, n, requests>>

MirrorClaim(w) ==
  /\ pc[w] = "mirrorClaim"
  /\ \/ mirror' = n[w] /\ UNCHANGED faults
     \/ Fault /\ UNCHANGED mirror
  /\ Go(w, "flip")
  /\ UNCHANGED <<status, redis, n>> /\ SameJob

\* Intro Sent, whatever the row says by now; a failed write gives the slot back.
Flip(w) ==
  /\ pc[w] = "flip"
  /\ \/ /\ status' = [status EXCEPT ![ref[w]] = "held"]
        /\ Go(w, "idle") /\ UNCHANGED <<job, faults>>
     \/ /\ Fault /\ UNCHANGED status
        /\ Go(w, "exists") /\ job' = [job EXCEPT ![w] = "undo"]
  /\ UNCHANGED <<redis, mirror, ref, n, requests>>

\* approve_ looks at the counter, then writes the status, then takes the slot the
\* row did not hold.  The admin route looks at the mirror and takes no slot.
Approve(w, r) ==
  /\ status[r] \in {"pending", "closed"}
  /\ \/ Begin(w, "approve", r, "exists")
     \/ mirror < MaxRefs /\ Begin(w, "adminApprove", r, "approve")

ApproveWrite(w) ==
  /\ pc[w] = "approve"
  /\ \/ /\ status' = [status EXCEPT ![ref[w]] = "held"] /\ UNCHANGED faults
        /\ Go(w, IF job[w] = "approve" THEN "incr" ELSE "idle")
     \/ Fault /\ UNCHANGED status /\ Go(w, "idle")
  /\ UNCHANGED <<redis, mirror, n>> /\ SameJob

\* getLiveCapacity seeds a missing key.
View(w) == Begin(w, "view", None, "exists")

-----------------------------------------------------------------------------
(* Closes: shouldDecrementOnClose looks at the status read at the start.    *)

\* Seeded fault: the gate takes every close for one that frees a slot.
CloseUngated(w, r) ==
  /\ w \in Closers /\ status[r] # "none"
  /\ \E j \in {"decrFirst", "writeFirst"} :
       Begin(w, j, r, IF j = "decrFirst" THEN "exists" ELSE "close")

Close(w, r) ==
  /\ w \in Closers
  /\ \/ /\ status[r] = "held"
        /\ \/ Begin(w, "decrFirst", r, "exists")
           \/ Begin(w, "writeFirst", r, "close")
     \/ /\ status[r] \in {"pending", "closed"} /\ pc[w] = "idle"
        /\ requests < MaxRequests /\ requests' = requests + 1
        /\ job' = [job EXCEPT ![w] = "noSlot"] /\ ref' = [ref EXCEPT ![w] = r]
        /\ Go(w, "close")
        /\ UNCHANGED <<status, redis, mirror, n, faults>>

CloseWrite(w) ==
  /\ pc[w] = "close"
  /\ \/ /\ status' = [status EXCEPT ![ref[w]] = "closed"] /\ UNCHANGED faults
        /\ Go(w, IF job[w] = "writeFirst" THEN "exists" ELSE "idle")
     \/ Fault /\ UNCHANGED status /\ Go(w, "idle")
  /\ UNCHANGED <<redis, mirror, n>> /\ SameJob

-----------------------------------------------------------------------------
(* capacity-drift-check: ranchers, then referrals, then a peek at Redis.    *)

Heal(w) ==
  /\ "heal" \in Jobs /\ pc[w] = "idle" /\ Go(w, "healHeld") /\ SetN(w, mirror)
  /\ job' = [job EXCEPT ![w] = "heal"] /\ ref' = [ref EXCEPT ![w] = None]
  /\ UNCHANGED <<status, redis, mirror, faults, requests>>

HealHeld(w) ==
  /\ pc[w] = "healHeld" /\ SetN(w, Live)
  /\ Go(w, IF n[w] = Live THEN "healPeek" ELSE "healSet")
  /\ UNCHANGED <<status, redis, mirror, faults>> /\ SameJob

\* Seeded fault: a counter that disagrees with the table is not drift.
HealPeekMirrorOnly(w) ==
  /\ pc[w] = "healPeek" /\ Go(w, "idle")
  /\ UNCHANGED <<status, redis, mirror, n, faults>> /\ SameJob

HealPeek(w) ==
  /\ pc[w] = "healPeek"
  /\ \/ Go(w, IF key = "set" /\ count # n[w] THEN "healSet" ELSE "idle") /\ UNCHANGED faults
     \/ RedisFault /\ Go(w, "idle")
  /\ UNCHANGED <<status, redis, mirror, n>> /\ SameJob

\* setCapacityCounter: both sides, each on its own, with the number read above.
HealSet(w) ==
  /\ pc[w] = "healSet" /\ Go(w, "healMirror")
  /\ \/ key' = "set" /\ count' = n[w] /\ UNCHANGED faults
     \/ RedisFault /\ UNCHANGED redis
  /\ UNCHANGED <<status, mirror, n>> /\ SameJob

HealMirror(w) ==
  /\ pc[w] = "healMirror" /\ Go(w, "idle")
  /\ \/ mirror' = n[w] /\ UNCHANGED faults
     \/ Fault /\ UNCHANGED mirror
  /\ UNCHANGED <<status, redis, n>> /\ SameJob

-----------------------------------------------------------------------------
(* The environment: invocations die, the Redis key is lost.                 *)

Crash(w) ==
  /\ pc[w] # "idle" /\ Fault /\ Go(w, "idle")
  /\ UNCHANGED <<status, redis, mirror, n>> /\ SameJob

LoseKey ==
  /\ key = "set" /\ RedisFault /\ key' = "missing" /\ count' = 0
  /\ UNCHANGED <<status, mirror, inv, requests>>

Step(w) ==
  \/ Incr(w) \/ BootRead(w) \/ BootSet(w)
  \/ Exists(w) \/ Get(w) \/ SeedRead(w) \/ SeedSet(w) \/ Decr(w) \/ Clamp(w)
  \/ LegRead(w) \/ LegWrite(w) \/ Mirror(w)
  \/ Create(w) \/ MirrorClaim(w) \/ Flip(w) \/ ApproveWrite(w) \/ CloseWrite(w)
  \/ HealHeld(w) \/ HealPeek(w) \/ HealSet(w) \/ HealMirror(w)

Next ==
  \/ \E w \in Workers, r \in Referrals : Match(w, r) \/ Approve(w, r) \/ Close(w, r)
  \/ \E w \in Workers : View(w) \/ Heal(w) \/ Step(w) \/ Crash(w)
  \/ LoseKey

Spec == Init /\ [][Next]_vars

\* The cron runs every night, and an invocation that does not die proceeds.
Fairness ==
  /\ \A w \in Workers : WF_vars(Step(w))
  /\ SF_vars(\E w \in Workers : Heal(w))

FairSpec == Spec /\ Fairness

-----------------------------------------------------------------------------
(* Properties. *)

Kinds == {"none", "match", "undo", "approve", "adminApprove", "decrFirst", "writeFirst", "noSlot", "view", "heal"}

\* Every record the code keeps has the shape the code writes.
TypeOK ==
  /\ status \in [Referrals -> {"none", "pending", "held", "closed"}]
  /\ key \in {"set", "missing"} /\ count \in Int /\ mirror \in Int
  /\ pc \in [Workers -> Steps] /\ job \in [Workers -> Kinds]
  /\ ref \in [Workers -> Referrals \cup {None}] /\ n \in [Workers -> Int]
  /\ faults \in 0..MaxFaults /\ requests \in 0..MaxRequests

\* A held deal whose slot a DECR-first close has not freed yet.
Booked(r) ==
  /\ status[r] = "held"
  /\ ~\E w \in Workers : /\ ref[w] = r /\ job[w] = "decrFirst"
                         /\ pc[w] \in {"clamp", "mirror", "close"}
\* An invocation that took a slot for its row, or still has to free it.
HoldsSlot(w) ==
  \/ job[w] = "match" /\ pc[w] \in {"bootRead", "bootSet", "create", "mirrorClaim", "flip"}
  \/ job[w] \in {"undo", "writeFirst"} /\ pc[w] \in {"exists", "decr"}
Slots == {r \in Referrals : Booked(r) \/ \E w \in Workers : ref[w] = r /\ HoldsSlot(w)}

\* The counter never under-reports: "errs toward 1 too high, the safe direction
\* (never over-routes)".  A stray double-decrement would break it.
CountsEverySlot == count >= Floor + Cardinality(Slots)

\* The safety valve of matching/suggest: however claims, bounces, roll-backs and
\* closes interleave, the deals a rancher holds never pass HARD_CEILING.
NeverOverCeiling == Floor + Cardinality({r \in Referrals : Booked(r)}) <= Ceiling

\* incrementCapacity: "two concurrent buyers routed to the same rancher cannot
\* both observe + write the same N+1 value".
DistinctClaims ==
  \A v, w \in Workers :
    /\ v # w /\ job[v] = "match" /\ job[w] = "match"
    /\ pc[v] \in {"create", "mirrorClaim", "flip"} /\ pc[w] \in {"create", "mirrorClaim", "flip"}
    => n[v] # n[w]

\* capacity-drift-check repairs every drift: whatever was lost, failed or raced,
\* once requests stop the counter and the mirror both settle on the truth.
DriftHeals == <>[](mirror = Live /\ (key = "set" => count = Live))

=============================================================================
