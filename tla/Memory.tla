------------------------------- MODULE Memory -------------------------------
(***************************************************************************)
(* planner/memory.py and models/kv_cache.py: does a replica fit on its     *)
(* GPUs?  Memory is counted in MiB and a memory fraction in percent, the   *)
(* two decimals the code keeps.  A model m has its weight (None when the   *)
(* size is unknown) and its source, and the kind of its KV cache, with kv  *)
(* what one token of all layers and KV heads takes, in KiB.                *)
(***************************************************************************)
EXTENDS Values, Integers, FiniteSets, FiniteSetsExt

GiB == 1024
Headroom == 8            \* percent of the total, DEFAULT_MEMORY_HEADROOM_FRACTION
EngineOverhead == 1536
CudaGraphs == GiB
CommBuffer == 256
MaxFraction == 95
MinFraction == 30
MinKvSequences == 1
UnknownKvSpare == 2 * GiB

Percent(p, x) == (p * x) \div 100

\* A token's KV cache on one rank: MLA repeats it on every rank, attention
\* shards its heads, never below one; a non-standard cache has no formula.
KvPerRank(m, tp) ==
    CASE m.kind = "mla" -> m.kv
      [] m.kind = "attention" -> IF m.kvHeads >= tp THEN m.kv \div tp ELSE m.kv \div m.kvHeads
      [] m.kind = "unknown" -> None

KvConfidence(m) == CASE m.kind = "attention" -> IF m.window = None THEN "high" ELSE "medium"
                     [] m.kind = "mla" -> "medium"
                     [] m.kind = "unknown" -> "unknown"

\* weight_bytes_is_exact: the files were measured, not their headers or the
\* configuration.
Exact(m) == m.source \in {"local_files", "huggingface_metadata"}

SafetyReserve(total) == Max({Percent(Headroom, total), GiB})

\* Mutant of MemoryFraction: counts the memory of other programs as available.
MemoryFraction_OfTotal(total, free) ==
    Max({0, Min({MaxFraction, ((total - SafetyReserve(total)) * 100) \div total})})

\* The largest fraction of the total, in full percent, that leaves the reserve.
MemoryFraction(total, free) ==
    Max({0, Min({MaxFraction, ((free - SafetyReserve(total)) * 100) \div total})})

\* Uneven shards: one percent more.
ShardedWeight(w, shards) == IF shards <= 1 THEN w ELSE (w * 101) \div (100 * shards)

\* The three conditions; without a known weight only the last two shorten.
Fits(spare, required, fraction, budget, free, forced) ==
    /\ spare >= required
    /\ ~(forced /\ budget > free)
    /\ fraction >= MinFraction

\* The fullest GPU of the group counts.
LeastFree(frees) == Min(frees)

\* What an engine needs beside weights and KV cache; activations take 2.5
\* percent of the device.
Dynamic(total, tp) == total \div 40 + CudaGraphs + EngineOverhead
                        + (IF tp > 1 THEN CommBuffer ELSE 0)

\* estimate_memory for GPUs of one size, of which "frees" is what is free on
\* each.
Estimate(m, total, frees, tp, pp, context, forced) ==
    LET free == LeastFree(frees)
        fraction == IF forced # None THEN forced ELSE MemoryFraction(total, free)
        budget == Percent(fraction, total)
        kv == IF pp = 1 \/ KvPerRank(m, tp) = None THEN KvPerRank(m, tp)
              ELSE Max({1, KvPerRank(m, tp) \div pp})
        weight == IF m.weight = None THEN 0 ELSE ShardedWeight(m.weight, tp * pp)
        spare == budget - weight - Dynamic(total, tp)
        unsized == m.weight = None \/ kv \in {None, 0}
        required == IF unsized THEN UnknownKvSpare
                    ELSE (kv * context * MinKvSequences) \div 1024
        overFree == IF forced # None THEN Max({0, budget - free}) ELSE 0
        underMin == Max({0, Percent(MinFraction - fraction, total)})
    IN [fraction |-> fraction, budget |-> budget,
        fits |-> Fits(spare, required, fraction, budget, free, forced # None),
        short |-> Max({overFree, underMin,
                       IF m.weight = None THEN 0 ELSE Max({0, required - spare})}),
        tokens |-> IF unsized \/ spare <= 0 THEN None ELSE (spare * 1024) \div kv,
        confidence |-> CASE m.weight = None -> "unknown"
                         [] m.weight # None /\ unsized -> "low"
                         [] OTHER -> IF Exact(m) THEN KvConfidence(m) ELSE "medium"]

\* check_memory: a candidate is pruned only for a shortfall, so one of unknown
\* weight is kept although nothing shows that it fits.
Pruned(e) == ~e.fits /\ e.short > 0

=============================================================================
