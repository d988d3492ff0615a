----------------------------- MODULE MCPlanning -----------------------------
(***************************************************************************)
(* The questions of Planning.tla: machines of up to six GPUs with 80 GiB   *)
(* and how they are wired, commands and files, models of 14 to 200 GiB,    *)
(* and sweeps of three points around the thresholds of the plateau rule.   *)
(***************************************************************************)
EXTENDS Planning, TLC

PairsOf(n) == kSubset(2, 1..n)
Free(n) == [i \in 1..n |-> 80 * GiB]

\* A machine as it is wired: the direct links of each pair, the links of each GPU
\* to a switch, the PCIe level of every pair, and what is free.  Bus and uuid of a
\* GPU are its number.
Wires(direct, switch, level, free) ==
    [direct |-> direct, switch |-> switch, level |-> level, free |-> free]

Plain(n, level) == Wires([p \in PairsOf(n) |-> 0], [i \in 1..n |-> 0], level, Free(n))

To(bus) == [active |-> TRUE, switch |-> FALSE, remote |-> bus]
Copies(k, x) == [j \in 1..k |-> x]

\* What the driver says of it when every query succeeds.
Nvml(w) ==
    LET n == Len(w.free) IN
    [count |-> n,
     device |-> [i \in 1..n |-> [ok |-> TRUE, uuid |-> i, bus |-> i, total |-> 80 * GiB,
                                 free |-> w.free[i]]],
     ancestor |-> [p \in PairsOf(n) |-> w.level],
     nvlink |-> [i \in 1..n |->
                   FoldLeft(LAMBDA s, j: s \o Copies(IF j = i THEN 0 ELSE w.direct[{i, j}], To(j)),
                            Copies(w.switch[i], [To(None) EXCEPT !.switch = TRUE]), [j \in 1..n |-> j])]]

Alone(w) == HardwareOf([cluster |-> None, nvml |-> Nvml(w), visible |-> None])

RayNode(w, address, head) ==
    [alive |-> TRUE, gpus |-> Len(w.free), head |-> head, address |-> address, nvml |-> Nvml(w)]

\* The machines ws[1], ws[2], ... under Ray; the last one is the head.
UnderRay(ws) ==
    HardwareOf([cluster |-> {RayNode(ws[k], k, k = Len(ws)): k \in DOMAIN ws},
                nvml |-> None, visible |-> None])

\* An answer of one machine is not complete: the far end of the links of GPU 1
\* cannot be read, its list of links breaks off, one of its links is down, one GPU
\* has no bus, no PCIe level can be read, or a GPU or the driver does not answer.
Troubles == {"none", "far end", "breaks off", "down", "no bus", "no level", "device", "driver"}

Troubled(m, t) ==
    LET first == m.nvlink[1] IN
    CASE t = "none" -> m
      [] t = "far end" -> [m EXCEPT !.nvlink[1] = [k \in DOMAIN first |->
                                                     [first[k] EXCEPT !.remote = None]]]
      [] t = "breaks off" -> [m EXCEPT !.nvlink[1] = SubSeq(first, 1, Len(first) \div 2)]
      [] t = "down" -> [m EXCEPT !.nvlink[1] = [k \in DOMAIN first |->
                                                  [first[k] EXCEPT !.active = k > 1]]]
      [] t = "no bus" -> [m EXCEPT !.device[1].bus = None]
      [] t = "no level" -> [m EXCEPT !.ancestor = [p \in DOMAIN m.ancestor |-> None]]
      [] t = "device" -> [m EXCEPT !.device[1].ok = FALSE]
      [] t = "driver" -> [m EXCEPT !.count = None]

Site(cluster, nvml, visible, wires, trouble) ==
    [cluster |-> cluster, nvml |-> nvml, visible |-> visible, wires |-> wires,
     named |-> ~(trouble \in {"far end", "no bus"}), clear |-> trouble \in {"none", "no level"}]

Wirings ==
    LET free == <<80 * GiB, 60 * GiB, 40 * GiB>> IN
    {Wires(d, s, level, free):
        d \in [PairsOf(3) -> {0, 1, 4}], s \in {<<0, 0, 0>>, <<2, 0, 3>>, <<2, 3, 3>>},
        level \in {10, 50}}

MCSites ==
    LET Local(w, t, v) == Site(None, Troubled(Nvml(w), t), v, <<w>>, t)
        Small == {w \in Wirings: w.level = 50 /\ w.switch # <<2, 3, 3>>}
        Hidden == {None, {}, {[index |-> 3], [uuid |-> 1], [index |-> 7]}}
        Asleep(w) == [RayNode(w, 9, FALSE) EXCEPT !.alive = FALSE]
        Ray(w, x, t) ==
            Site({RayNode(w, 2, TRUE), Asleep(w),
                  [RayNode(x, 1, FALSE) EXCEPT !.nvml = Troubled(@, t)]},
                 None, None, [k \in 1..2 |-> IF k = 2 THEN w ELSE x], t)
    IN {Local(w, t, None): w \in Wirings, t \in Troubles}
       \cup {Local(w, t, v): w \in Small, t \in {"none", "breaks off"}, v \in Hidden}
       \cup {Local(Plain(n, None), "none", None): n \in 0..2}
       \cup {Ray(w, x, t): w \in {y \in Small: y.direct[{1, 2}] = 4}, x \in Small \cup {Plain(1, 20)},
                           t \in {"none", "down", "no level", "driver"}}
       \cup {Site({}, None, None, <<>>, "none")}

MCGroupings ==
    LET L(n, s) == Alone(Wires([p \in PairsOf(n) |-> IF p \in s THEN 1 ELSE 0],
                               [i \in 1..n |-> 0], 50, Free(n)))
        Linked == {L(4, s): s \in SUBSET PairsOf(4)}
                  \cup {UnderRay(<<Plain(2, 10), Plain(3, 10)>>)}
                  \cup {L(5, s): s \in {{{1, 2}, {3, 4}}, {{1, 5}, {2, 4}, {4, 5}}, {{2, 3}, {3, 5}}}}
        Unknown == {Alone(Plain(3, None))}
    IN [hw: Linked \cup Unknown, tp: 1..3, n: 1..3]

\* The configurations of tests/fixtures/model_configs, with the weights in MiB
\* and the KV cache in KiB per token that the published models have.
Llama8B ==
    [heads |-> 32, kvHeads |-> 8, multiQuery |-> FALSE, hidden |-> 4096, layers |-> 32,
     headDim |-> None, inter |-> 14336, moeInter |-> None, vocab |-> 128256, limit |-> 8192,
     experts |-> None, shared |-> None, lora |-> None, rope |-> None, window |-> None,
     dtype |-> "bfloat16", quant |-> None, tie |-> FALSE, gated |-> TRUE, named |-> TRUE,
     type |-> "llama", text |-> None]

Awq == [bits |-> 4, method |-> "awq", groupBits |-> None, load |-> None]
Fp8 == [Awq EXCEPT !.bits = None, !.method = "fp8"]
Llama70B == [Llama8B EXCEPT !.heads = 64, !.hidden = 8192, !.layers = 80, !.inter = 28672,
                            !.limit = 131072]
Mixtral == [Llama8B EXCEPT !.vocab = 32000, !.limit = 32768, !.experts = 8, !.type = "mixtral"]
DeepSeek == [Llama8B EXCEPT !.heads = 128, !.kvHeads = 128, !.hidden = 7168, !.layers = 61,
                            !.inter = 18432, !.moeInter = 2048, !.vocab = 129280,
                            !.limit = 163840, !.experts = 256, !.shared = 1, !.lora = 512,
                            !.rope = 64, !.quant = Fp8, !.type = "deepseek_v3"]
Qwen32B == [Llama8B EXCEPT !.heads = 64, !.hidden = 5120, !.layers = 64, !.headDim = 128,
                           !.inter = 25600, !.vocab = 151936, !.limit = 40960]
Falcon7B == [Llama8B EXCEPT !.heads = 71, !.kvHeads = None, !.multiQuery = TRUE,
                            !.hidden = 4544, !.inter = None, !.vocab = 65024, !.limit = 2048]
Gpt2 == [Llama8B EXCEPT !.heads = 12, !.kvHeads = None, !.hidden = 768, !.layers = 12,
                        !.inter = None, !.vocab = 50257, !.limit = 1024, !.dtype = None,
                        !.tie = TRUE, !.gated = FALSE, !.type = "gpt2"]
Mystery == [Llama8B EXCEPT !.heads = None, !.kvHeads = None, !.hidden = None, !.layers = None,
                           !.inter = None, !.vocab = 32000, !.limit = None, !.type = "mystery"]
Gemma == [Mystery EXCEPT !.type = "gemma3",
             !.text = [Llama8B EXCEPT !.kvHeads = 16, !.hidden = 5376, !.layers = 62,
                          !.headDim = 128, !.inter = 21504, !.vocab = 262208, !.limit = 131072,
                          !.window = 1024, !.dtype = None, !.gated = FALSE, !.type = None]]

Known(config, real, kv) == [config |-> config, real |-> real, kv |-> kv]
Published ==
    {Known(Llama8B, 15316, 128), Known(Llama70B, 134563, 320), Known(Mixtral, 89075, 128),
     Known([Llama70B EXCEPT !.quant = Awq, !.dtype = "float16"], 37910, 320),
     Known(DeepSeek, 640000, 68), Known(Qwen32B, 62490, 256), Known(Falcon7B, 13765, 8),
     Known(Gpt2, 522, 36), Known(Gemma, 51525, 496), Known(Mystery, 20000, 64),
     Known([Llama8B EXCEPT !.type = "jamba", !.vocab = 65536, !.experts = 16], 98300, 16)}

\* Shards of one representation, and what else may lie beside it.
Shards(fmt, real, copy, sub) ==
    {[fmt |-> fmt, name |-> i, size |-> IF i = 1 THEN real \div 2 ELSE real - real \div 2,
      copy |-> copy, sub |-> sub, excluded |-> FALSE]: i \in 1..2}
Beside(fmt, name, size) ==
    [fmt |-> fmt, name |-> name, size |-> size, copy |-> 1, sub |-> FALSE, excluded |-> fmt # "other"]

Contents(real) ==
    LET S(fmt) == Shards(fmt, real, 1, FALSE)
        Meta == {Beside("other", 3, 1)}
        \* optimizer.pt, consolidated.00.pth and adapter_model.safetensors
        Training == {Beside("torch", 4, real), Beside("torch", 5, real), Beside("safetensors", 6, 300)}
        NoSize(F) == {IF f.name = 1 THEN [f EXCEPT !.size = None] ELSE f: f \in F}
    IN {Meta, Meta \cup Training, S("safetensors") \cup Meta, S("torch") \cup Training,
        S("safetensors") \cup S("torch") \cup Training, S("gguf") \cup Meta,
        S("safetensors") \cup Shards("safetensors", real, 2, TRUE),
        NoSize(S("safetensors")) \cup S("torch"), S("safetensors") \cup NoSize(S("torch"))}

Stored(known, place, files, counts, kvDtype) ==
    [place |-> place, error |-> FALSE, config |-> known.config, files |-> files, counts |-> counts,
     kvDtype |-> kvDtype, real |-> known.real,
     realKv |-> IF kvDtype = "fp8" THEN known.kv \div 2 ELSE known.kv]

\* The headers of bfloat16 weights.
Counts(real) == {None, {}, {[dtype |-> "bfloat16", n |-> real \div 4],
                            [dtype |-> "int8", n |-> real - 2 * (real \div 4)]}}

MCRepositories ==
    LET Hub == UNION {{Stored(k, "hub", F, counts, kvDtype): F \in Contents(k.real),
                           counts \in Counts(k.real), kvDtype \in {None, "fp8"}}: k \in Published}
        Dir == UNION {{Stored(k, "dir", F, None, None):
                           F \in {x \in Contents(k.real): \A f \in x: f.size # None}}: k \in Published}
        One == CHOOSE r \in Hub: r.files # {}
    IN Hub \cup Dir \cup {[One EXCEPT !.place = "path"], [One EXCEPT !.error = TRUE],
                          [One EXCEPT !.config = None]}

\* What the inspection says of a directory with the weights "real".
InDirectory(config, real) ==
    Inspect(Stored(Known(config, real, None), "dir", Shards("safetensors", real, 1, FALSE), None, None))

Models ==
    LET flags == [ep |-> {}, dpa |-> FALSE, quant |-> {"vllm", "sglang"}]
        base == [InDirectory(Llama8B, 15 * GiB) EXCEPT !.limit = 32768] @@ flags
    IN {base,
        InDirectory(Llama70B, 140 * GiB) @@ flags,
        [base EXCEPT !.weight = 200 * GiB, !.kv = 1024, !.limit = 4096],
        [base EXCEPT !.weight = None, !.source = "unknown", !.limit = None],
        [InDirectory([Llama8B EXCEPT !.type = "jamba", !.heads = 6], 15 * GiB) @@ flags
            EXCEPT !.quant = {"vllm"}],
        [InDirectory([DeepSeek EXCEPT !.heads = 32, !.experts = 8], 90 * GiB) @@ flags
            EXCEPT !.ep = {"vllm", "sglang"}, !.dpa = TRUE]}

Machines ==
    LET P(n) == Plain(n, 10)
        Half(n) == [P(n) EXCEPT !.free[1] = 40 * GiB]
    IN {Alone(P(2)), Alone(Half(4)), Alone(P(3)), UnderRay(<<P(2), P(2)>>),
        UnderRay(<<P(2), P(4)>>), UnderRay(<<P(1), Half(1)>>)}

\* No key, and the model on the command line.
NoKeys == [k \in Lengths \cup {"model", "name", "maxContext", "expected", "lat", "ttft", "objective",
                                "gpus", "engine", "tp", "replicas", "context", "seqs", "fraction",
                                "override"} |-> None]
Plainly == [NoKeys EXCEPT !.model = "model"]

AllQueries ==
    [hw: Machines, model: Models,
     work: {Understood([file |-> NoKeys, flags |-> [Plainly EXCEPT !.out95 = 3072]]).work},
     engines: {{[name |-> "vllm", version |-> 1700], [name |-> "sglang", version |-> 500]},
               {[name |-> "vllm", version |-> 805]}},
     cons: [gpus: {None, {1, 2}}, engine: {None, "sglang"}, tp: {None, 2, 4},
            replicas: {None, 1, 2}, context: {None, 65536}, override: BOOLEAN,
            fraction: {None, 60}, seqs: {None, 10}]]

\* A forced concurrency meets no other constraint.
MCQueries ==
    {x \in AllQueries: x.cons.seqs # None => x.cons.gpus = None /\ x.cons.tp = None
                         /\ x.cons.replicas = None /\ ~x.cons.override}

MCCommands ==
    LET Keys(names, in50, in95, out50, out95, context) ==
            {[NoKeys EXCEPT !.name = x[1], !.in50 = x[2], !.in95 = x[3], !.out50 = x[4],
                            !.out95 = x[5], !.context = x[6]]:
                x \in names \X in50 \X in95 \X out50 \X out95 \X context}
        Flags == Keys({None, "long-context"}, {None, 0, 100, 4000}, {None, 600}, {None, 300},
                      {None, 2000}, {None, 2048, 65536})
        Files == {[f EXCEPT !.maxContext = m]:
                    f \in Keys({None, "decode-heavy", "mystery"}, {None, 1000}, {None}, {None, 2000},
                               {None, 3000}, {None, 4096}),
                    m \in {None, 8192}}
        Others == {[Plainly EXCEPT !.tp = tp, !.fraction = x, !.seqs = n, !.override = TRUE,
                                   !.gpus = {1}, !.engine = e]:
                     tp \in {None, 0, 2}, x \in {None, 60, 100}, n \in {None, 10}, e \in {"auto", "vllm"}}
    IN {[file |-> [f EXCEPT !.model = "model"], flags |-> g]: f \in Files, g \in Flags}
       \cup {[file |-> NoKeys, flags |-> g]: g \in Flags \cup Others}

Result(c, tps, lat, ttft, err, none) ==
    [c |-> c, tps |-> tps, lat |-> lat, ttft |-> ttft, err |-> err, none |-> none]

NoSlo == [lat |-> None, ttft |-> None]
Limits == {NoSlo, [lat |-> 21, ttft |-> None], [lat |-> None, ttft |-> 5]}

MCContests ==
    LET R(c) == {Result(c, tps, lat, ttft, err, FALSE):
                 tps \in {100, 103}, lat \in {20, 30}, ttft \in {None, 5, 9}, err \in {0, 1, 2}}
                \cup {Result(c, 0, 0, None, 100, TRUE)}
    IN {[rs |-> {a, b}, objective |-> o, slo |-> s]:
        a \in R(8), b \in R(16), o \in Objectives, s \in Limits}

MCSweeps ==
    LET R(c) == {Result(c, tps, lat, None, err, FALSE):
                 tps \in {94, 100, 101, 103}, lat \in {20, 21, 30}, err \in {0, 2}}
    IN {[h |-> <<x, y, z>>, objective |-> o, slo |-> s]:
        x \in {r \in R(8): r.lat < 30 /\ r.tps < 103}, y \in R(16), z \in R(32),
        o \in {"throughput", "latency"}, s \in {NoSlo, [lat |-> 21, ttft |-> None]}}

\* An engine at concurrency 4, 8, 12 and 32: what each step gains, in
\* percent, from where on the latency rises by half, and a point that fails.
Engine(gains, rise, bad) ==
    LET Tps[i \in 1..4] == IF i = 1 THEN 1000 ELSE (Tps[i - 1] * (100 + gains[i - 1])) \div 100
        Lat[i \in 1..4] == IF i = 1 THEN 10 ELSE IF i >= rise THEN (Lat[i - 1] * 3) \div 2 ELSE 10
        R(i) == CASE bad = <<i, "fails">> -> None
                  [] bad = <<i, "errors">> -> Result(0, Tps[i], Lat[i], None, 5, FALSE)
                  [] OTHER -> Result(0, Tps[i], Lat[i], None, 0, FALSE)
    IN [c \in {4, 8, 12, 32} |-> CASE c = 4 -> R(1) [] c = 8 -> R(2) [] c = 12 -> R(3) [] c = 32 -> R(4)]

\* A plan's concurrency is that of its replicas together.
MCSearches ==
    LET engines == {Engine(gains, rise, bad):
                      gains \in [1..3 -> {-10, 1, 10}], rise \in {2, 4, 5},
                      bad \in {<<0, "fails">>, <<2, "fails">>, <<3, "errors">>}}
    IN {[engine |-> e, objective |-> o, slo |-> s, max |-> r[1] * r[2], replicas |-> r[1],
         seqs |-> r[2], expected |-> x]:
        e \in engines, o \in {"throughput", "latency"}, s \in {NoSlo, [lat |-> 21, ttft |-> None]},
        r \in {<<1, 12>>, <<2, 16>>, <<8, 1>>, <<1, 1024>>}, x \in {None, 4}}

=============================================================================
