----------------------------- MODULE Inspection -----------------------------
(***************************************************************************)
(* models/: what the planner knows of a model, from its configuration and  *)
(* the list of its files, never from its weights.                          *)
(*                                                                         *)
(* A configuration has the first present key of each of the code's lists   *)
(* of names, None when there is none, and c.text, the nested decoder       *)
(* configuration of a multimodal model.  Parameters are counted in Ki,     *)
(* weights in MiB, a token's KV cache in KiB and bytes per parameter in    *)
(* hundredths.  A file has the format its suffix says, or an excluded name *)
(* (optimizer, adapter, consolidated, ...), and its size; f.sub says that  *)
(* it lies in a subdirectory.                                              *)
(***************************************************************************)
EXTENDS Integers, Sequences, FiniteSets, FiniteSetsExt

CONSTANT None

NotInspected == None  \* ModelInspectionError

\* _first: of several names for one thing the first that is given.
FirstOf(s) == LET Given == {i \in DOMAIN s: s[i] # None}
              IN IF Given = {} THEN None ELSE s[Min(Given)]

When(condition, x) == IF condition THEN x ELSE None

----------------------------------------------------------------------------
(* The profile of a configuration                                          *)

\* The wrapper of a multimodal model keeps the last word only on what its
\* decoder does not say.
TextConfig(raw) ==
    IF raw.text = None THEN raw
    ELSE LET c == raw.text IN
         IF c.hidden = None /\ c.layers = None THEN raw
         ELSE [c EXCEPT !.dtype = FirstOf(<<c.dtype, raw.dtype>>),
                        !.quant = FirstOf(<<c.quant, raw.quant>>)]

KvHeads(c) == FirstOf(<<c.kvHeads, When(c.multiQuery, 1), c.heads>>)

HeadDim(c) == FirstOf(<<c.headDim, When(None \notin {c.hidden, c.heads}, c.hidden \div c.heads)>>)

AttentionKind(c) ==
    CASE c.lora # None -> "mla"
      [] c.lora = None /\ None \notin {c.heads, c.kvHeads} -> "attention"
      [] OTHER -> "unknown"

IsMoe(c) == c.experts # None /\ c.experts > 1

\* normalize_config of the decoder's configuration c of the model raw.
Profile(raw, c) ==
    [c EXCEPT !.kvHeads = KvHeads(c), !.headDim = HeadDim(c),
              !.type = FirstOf(<<raw.type, c.type>>), !.named = raw.named \/ c.named,
              !.experts = When(IsMoe(c), c.experts),
              !.moeInter = When(IsMoe(c), c.moeInter),
              !.shared = When(IsMoe(c), c.shared)]

----------------------------------------------------------------------------
(* Bytes                                                                   *)

TypeBytes == [float64 |-> 800, float32 |-> 400, float16 |-> 200, bfloat16 |-> 200,
              fp8 |-> 100, int8 |-> 100, int4 |-> 50, nf4 |-> 50]

DtypeBytes(d) == IF d \in DOMAIN TypeBytes THEN TypeBytes[d] ELSE None

\* Packed weights carry a tenth for their scales.
Packed(bits) == IF bits = None THEN None ELSE (bits * 110) \div 8

\* quantized_bytes_per_parameter: explicit bits, else what the method implies.
QuantBytes(z) ==
    IF z = None THEN None
    ELSE FirstOf(<<Packed(z.bits),
                   When(z.method = "fp8", 102),
                   When(z.method \in {"awq", "gptq", "compressed-tensors"}, Packed(z.groupBits)),
                   When(z.method \in {"awq", "gptq"}, Packed(4)),
                   When(z.method = "bnb" /\ z.load = 4, Packed(4)),
                   When(z.method = "bnb" /\ z.load = 8, 105)>>)

Ki(x) == x \div 1024

\* Experts and the router, or one MLP; a gated one has three matrices.
MlpParameters(p) ==
    LET mats == IF p.gated THEN 3 ELSE 2
        Inter(given) == mats * p.hidden * FirstOf(given)
    IN IF IsMoe(p)
       THEN (p.experts + FirstOf(<<p.shared, 0>>)) * Ki(Inter(<<p.moeInter, p.inter, 0>>))
              + Ki(p.hidden * p.experts)
       ELSE Ki(Inter(<<p.inter, 4 * p.hidden>>))

\* MLA's projections take about nine tenths of the standard ones.
AttentionParameters(p) ==
    LET standard == 2 * p.hidden * p.headDim * (p.heads + p.kvHeads)
    IN Ki(IF p.lora # None THEN standard - standard \div 10 ELSE standard)

\* estimate_parameter_count: embeddings, a head unless it is tied, and layers.
Parameters(p) ==
    IF None \in {p.hidden, p.layers, p.heads} THEN None
    ELSE Ki(FirstOf(<<p.vocab, 0>>) * p.hidden) * (IF p.tie THEN 1 ELSE 2)
           + p.layers * (AttentionParameters(p) + MlpParameters(p) + Ki(2 * p.hidden))
           + Ki(p.hidden)

Weight(bytes, source) == [bytes |-> bytes, source |-> source]
UnknownWeight == Weight(None, "unknown")

\* estimate_weight_bytes, from the number of parameters.
EstimatedWeight(p, parameters) ==
    IF parameters = None THEN UnknownWeight
    ELSE Weight((Ki(parameters) * FirstOf(<<QuantBytes(p.quant), DtypeBytes(p.dtype), 200>>))
                  \div 100, "estimated")

----------------------------------------------------------------------------
(* The weights a repository holds                                          *)

OfFormat(files, fmt) == {f \in files: f.fmt = fmt /\ ~f.excluded}

\* select_weight_files: one representation, so that none is counted twice.
Selected(files) ==
    LET formats == <<"safetensors", "torch", "gguf">>
        Held == {i \in 1..3: OfFormat(files, formats[i]) # {}}
    IN IF Held = {} THEN {} ELSE OfFormat(files, formats[Min(Held)])

Bytes(F) == MapThenSumSet(LAMBDA f: f.size, F)

\* The files in a directory itself, of which the size is always known.
MeasuredLocally(F) ==
    IF F = {} THEN UnknownWeight
    ELSE Weight(Bytes(F), "local_files")

\* One file without a size leaves the whole unknown.
MeasuredOnHub(F) ==
    IF F = {} \/ \E f \in F: f.size = None THEN UnknownWeight
    ELSE Weight(Bytes(F), "huggingface_metadata")

\* The counts of the safetensors headers, in Mi parameters for each dtype; an
\* unknown dtype counts for two bytes.
FromCounts(counts) ==
    LET total == MapThenSumSet(LAMBDA n: (n.n * FirstOf(<<DtypeBytes(n.dtype), 200>>)) \div 100,
                               counts)
    IN IF total <= 0 THEN UnknownWeight ELSE Weight(total, "safetensors_metadata")

----------------------------------------------------------------------------
(* KV cache                                                                *)

NonStandard == {"mamba", "jamba", "rwkv", "zamba"}

\* An explicit KV dtype wins over the model's.
KvElementBytes(forced, dtype) == FirstOf(<<DtypeBytes(forced), DtypeBytes(dtype), 200>>)

\* select_kv_estimator, and what the formula needs to say anything.
KvKind(p) ==
    CASE p.type \in NonStandard \/ p.layers = None -> "unknown"
      [] p.type \notin NonStandard /\ p.layers # None /\ p.lora # None -> "mla"
      [] OTHER -> IF None \in {p.kvHeads, p.headDim} THEN "unknown" ELSE "attention"

\* What one token takes in all layers, of "per" hundredths of a byte each.
KvBytes(p, kind, per) ==
    CASE kind = "mla" -> Ki((p.layers * (p.lora + FirstOf(<<p.rope, 0>>)) * per) \div 100)
      [] kind = "attention" -> Ki((2 * p.layers * p.kvHeads * p.headDim * per) \div 100)
      [] kind = "unknown" -> None

----------------------------------------------------------------------------
(* Inspection                                                              *)

\* What the planner takes of the profile p with the weight w.
Inspected(p, w, kind, kv) ==
    [heads |-> p.heads, kvHeads |-> p.kvHeads, experts |-> p.experts, moe |-> IsMoe(p),
     limit |-> p.limit, window |-> p.window, weight |-> w.bytes, source |-> w.source,
     arch |-> AttentionKind(p) # "unknown" \/ p.named, kind |-> kind, kv |-> kv]

\* apply_weight_size: what could not be measured is estimated.
Applied(p, w) == IF w.bytes = None THEN EstimatedWeight(p, Parameters(p)) ELSE w

Sized(p, w, forced) ==
    Inspected(p, Applied(p, w), KvKind(p),
              KvBytes(p, KvKind(p), KvElementBytes(forced, p.dtype)))

\* A directory is measured by its own files; the Hub by what it says of all
\* files, else by the safetensors headers, which it may not have (None).
Measure(r) ==
    IF r.place = "dir" THEN MeasuredLocally(Selected({f \in r.files: ~f.sub}))
    ELSE LET w == MeasuredOnHub(Selected(r.files)) IN
         IF w.bytes # None \/ r.counts = None THEN w ELSE FromCounts(r.counts)

\* ModelInspector.inspect: a directory, a path that is none, or a name on the
\* Hub, which may refuse to answer; the configuration may be unreadable.  An
\* instance remembers its answers, which nothing changes.
Inspect(r) ==
    IF r.place = "path" \/ (r.place = "hub" /\ r.error) \/ r.config = None THEN NotInspected
    ELSE Sized(Profile(r.config, TextConfig(r.config)), Measure(r), r.kvDtype)

=============================================================================
