------------------------------ MODULE MCRental ------------------------------
(* Rental for TLC. *)
EXTENDS Rental, TLC

Alike == Permutations(Lease) \cup Permutations(Thread) \cup Permutations(Block)

(* A block is followed on the first connection and without the operator;    *)
(* the other connections and commands, only while WorkerConsistent still    *)
(* says something; and a third one, only of a worker that is being stopped. *)
Worthwhile ==
  LET events == connections + controls IN
  /\ (\E b \in Block : block[b].at # "none") => events = 1
  /\ events > 1 => ~overlapped /\ ~acked
  /\ events > 2 => ~running

=============================================================================
