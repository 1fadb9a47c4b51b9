-------------------------- MODULE MCBlockPipeline --------------------------
(***************************************************************************)
(* Model checking of BlockPipeline.  The configurations give the constants *)
(* their values; this module adds the statements the repository makes of   *)
(* itself that the code does not keep, each checked by a run of its own.   *)
(***************************************************************************)
EXTENDS BlockPipeline

\* A value for PoolErrors.
AllErrors == {Refused, GatewayTimeout}

\* Some answer at hand or on record is one of PoolErrors.
Troubled ==
    \/ hit # NoHit /\ hit.answer \in PoolErrors
    \/ \E t \in tasks : t.answer \in PoolErrors
    \/ \E k \in Key : \/ rejlog[k] \cap PoolErrors # {}
                      \/ \E r \in PoolErrors : r.status \in submitted[k]

\* Bound: a pool that refuses at will does so at one difficulty.
OneTrouble ==
    Troubled => /\ poolDiff = MemoryCost /\ difficulty = MemoryCost /\ ~settling
                /\ polled \in {NoCost, MemoryCost}
                /\ \A k \in Key : mined[k] \in {NoCost, MemoryCost}

\* Bound: at most one of the keys is found, a block or a false positive.
OneFound == \A j, k \in Key : mined[j] # NoCost /\ mined[k] # NoCost => j = k

\* handle_hit(), supervisor.py:1113-1117: a hit is let go as a "Filtered
\* false positive" only when it is one.
FilteredHitIsBogus == [][HitFiltered => hit.key \in Bogus]_vars

\* _apply_outcome(), flush.py:207: "Queued block dropped (false positive)".
\* A row is dropped only when its block is a false positive.
DroppedRowIsBogus ==
    [][\A t \in tasks : TaskFilters(t) => t.key \in Bogus]_vars
===========================================================================
