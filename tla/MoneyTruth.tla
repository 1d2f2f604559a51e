----------------------------- MODULE MoneyTruth -----------------------------
(***************************************************************************)
(* What settlement promises a deal, without the ledger, the webhooks, the  *)
(* claims or the cron: 'Deposit Paid At' appears on a deal only when one   *)
(* of its sessions was charged at Stripe, and is taken back only when one  *)
(* of its sessions was refunded there.                                     *)
(***************************************************************************)
CONSTANTS Sessions, Referrals, RefOf

VARIABLES charged, returned, stamped

OfDeal(S, f) == {s \in S : RefOf[s] = f}

Init == charged = {} /\ returned = {} /\ stamped = {}

Charge(s) ==
  /\ charged' = charged \cup {s}
  /\ UNCHANGED <<returned, stamped>>

Return(s) ==
  /\ s \in charged
  /\ returned' = returned \cup {s}
  /\ UNCHANGED <<charged, stamped>>

Stamp(f) ==
  /\ OfDeal(charged, f) # {}
  /\ stamped' = stamped \cup {f}
  /\ UNCHANGED <<charged, returned>>

Clear(f) ==
  /\ OfDeal(returned, f) # {}
  /\ stamped' = stamped \ {f}
  /\ UNCHANGED <<charged, returned>>

Next ==
  \/ \E s \in Sessions : Charge(s) \/ Return(s)
  \/ \E f \in Referrals : Stamp(f) \/ Clear(f)

Spec == Init /\ [][Next]_<<charged, returned, stamped>>

=============================================================================
