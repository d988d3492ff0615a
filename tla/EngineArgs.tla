----------------------------- MODULE EngineArgs -----------------------------
(***************************************************************************)
(* What engines/vllm.py and engines/sglang.py say they support, and the    *)
(* arguments they launch a replica of a plan with.  An engine e has a name *)
(* and a version, 0.x.y written 100x + y, 0 when it is unknown.  A model m *)
(* has the engines that run it expert parallel (m.ep) and that know its    *)
(* quantization (m.quant).                                                 *)
(***************************************************************************)
EXTENDS Integers, FiniteSets, FiniteSetsExt

MinVersion(e) == IF e.name = "vllm" THEN 600 ELSE 400

SupportsEP(e, m) ==
    m.moe /\ e.name \in m.ep /\ e.version >= (IF e.name = "vllm" THEN 604 ELSE 400)

SupportsDPA(e, m) ==
    IF e.name = "vllm" THEN SupportsEP(e, m) /\ e.version >= 900
    ELSE m.moe /\ m.dpa

SupportsPP(e) == e.name = "vllm" \/ e.version >= 405

SupportsRay(e) == e.name = "vllm"

Supports(e, m, p) ==
    /\ e.version = 0 \/ e.version >= MinVersion(e)
    /\ e.name \in m.quant
    /\ p.variant = "-dpa" => SupportsDPA(e, m)
    /\ p.variant # "" => SupportsEP(e, m)
    /\ p.backend = "ray" => SupportsRay(e)
    /\ e.name = "vllm" => m.arch

CeilDiv(a, b) == (a + b - 1) \div b

\* VLLMEngine.build_launch_spec, with what the GPUs of the group are called on
\* their machine.  DP attention runs the group as TP 1 x DP N, with
\* --max-num-seqs for each of the N.  A replica that spans nodes gets no
\* CUDA_VISIBLE_DEVICES.
VllmArgs(e, m, p, local) ==
    LET dpa == p.variant = "-dpa" /\ p.dp > 1 IN
    [tp |-> IF dpa THEN 1 ELSE p.tp,
     pp |-> p.pp,
     dp |-> IF e.version >= 800 THEN p.dp ELSE 1,
     fraction |-> p.fraction,
     seqs |-> IF dpa THEN Max({1, CeilDiv(p.seqs, p.dp)}) ELSE p.seqs,
     visible |-> IF p.spans THEN {} ELSE local]

\* static_memory_fraction: SGLang allocates the dynamic parts outside its
\* fraction, so they are subtracted; rounded to two decimals, at least 0.30.
StaticFraction(p) ==
    Max({30, p.fraction - (200 * p.dynamic + p.total) \div (2 * p.total)})

SglangArgs(e, m, p, local) ==
    [tp |-> p.tp, pp |-> p.pp, dp |-> p.dp, fraction |-> StaticFraction(p),
     seqs |-> p.seqs, visible |-> local]

Args(e, m, p, local) ==
    IF e.name = "vllm" THEN VllmArgs(e, m, p, local) ELSE SglangArgs(e, m, p, local)

\* The processes the engine makes of them: SGLang's DP ranks are its TP ranks.
Ranks(e, a) == IF e.name = "vllm" THEN a.tp * a.pp * a.dp ELSE a.tp * a.pp

=============================================================================
