--------------------------- MODULE MCMarketplace ---------------------------
(* Marketplace for TLC: its workers, leases and handlers are treated alike  *)
(* by every action, so states that differ by their names are one.          *)
EXTENDS Marketplace, TLC

Alike == Permutations(Worker) \cup Permutations(Lease) \cup Permutations(Handler)

(* Three of the properties say nothing once a settlement has been           *)
(* disturbed, two once a balance has been overwritten: behaviours in which  *)
(* that happened are followed for the other properties, which money has no  *)
(* part in, as long as the server has neither rolled back nor ended; with a *)
(* disturbed settlement, as long as nothing was deposited or withdrawn.     *)
Worthwhile ==
  /\ disturbed \/ stale => ~undone /\ crashes = 0
  /\ disturbed => view.banked = 0 /\ ~\E h \in Handler : At(h, "log")

=============================================================================
