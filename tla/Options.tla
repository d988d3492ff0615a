------------------------------ MODULE Options ------------------------------
(***************************************************************************)
(* cli/common.py, settings.py and schemas/workload.py: from the flags of a *)
(* command and the configuration file to the workload and the constraints  *)
(* that plans are made for.                                                *)
(*                                                                         *)
(* A configuration has a value or None for each key; fractions are in      *)
(* percent, lengths in tokens.  The flags have the same keys, except that  *)
(* --context-length sets two of them.                                      *)
(***************************************************************************)
EXTENDS Integers, FiniteSetsExt

CONSTANT None

ConfigurationError == None

Presets ==
    [x \in {"chat", "long-context", "decode-heavy"} |->
        CASE x = "chat" -> [in50 |-> 512, in95 |-> 2048, out50 |-> 256, out95 |-> 768,
                            context |-> 8192]
          [] x = "long-context" -> [in50 |-> 8192, in95 |-> 32768, out50 |-> 256, out95 |-> 1024,
                                    context |-> 65536]
          [] x = "decode-heavy" -> [in50 |-> 256, in95 |-> 1024, out50 |-> 1024, out95 |-> 4096,
                                    context |-> 8192]]

Lengths == {"in50", "in95", "out50", "out95"}

\* A flag for the typical length sets the long one with it, as in the presets.
LongTail(p95, p50, times) == IF p95 = None /\ p50 # None THEN times * p50 ELSE p95

\* PlanFlags.overrides: a flag for a length makes the profile a custom one.
Overrides(f) ==
    [f EXCEPT !.name = IF @ = None /\ \E k \in Lengths: f[k] # None THEN "custom" ELSE @,
              !.in95 = LongTail(@, f.in50, 4),
              !.out95 = LongTail(@, f.out50, 3),
              !.maxContext = f.context]

\* ServePilotConfig.merged
Merged(file, f) ==
    [k \in DOMAIN file |-> IF Overrides(f)[k] # None THEN Overrides(f)[k] ELSE file[k]]

ProfileNames == {None, "custom"} \cup DOMAIN Presets

AtLeast(c, k, least) == c[k] # None => c[k] >= least

\* The fields of ServePilotConfig that have a range.
ConfigValid(c) ==
    /\ c.name \in ProfileNames
    /\ c.engine \in {None, "auto", "vllm", "sglang"}
    /\ AtLeast(c, "tp", 1) /\ AtLeast(c, "replicas", 1) /\ AtLeast(c, "seqs", 1)
    /\ AtLeast(c, "context", 16)
    /\ AtLeast(c, "fraction", 1) /\ (c.fraction # None => c.fraction < 100)

\* build_workload: the preset, what is given instead, and a context that grows
\* with the lengths unless it is given.
Values(c) ==
    LET base == Presets[IF c.name \in {None, "custom"} THEN "chat" ELSE c.name]
        V == [k \in Lengths |-> IF c[k] # None THEN c[k] ELSE base[k]]
    IN [in50 |-> V["in50"], in95 |-> V["in95"], out50 |-> V["out50"], out95 |-> V["out95"],
        context |-> IF c.maxContext # None THEN c.maxContext
                    ELSE Max({base.context, V["in95"] + V["out95"]})]

\* WorkloadProfile
WorkloadValid(c, v) ==
    /\ \A k \in Lengths: v[k] >= 1
    /\ v.context >= 16
    /\ v.in50 <= v.in95 /\ v.out50 <= v.out95
    /\ v.in95 + v.out95 <= v.context
    /\ AtLeast(c, "expected", 1) /\ AtLeast(c, "lat", 1) /\ AtLeast(c, "ttft", 1)

Workload(c, v) ==
    [name |-> CASE c.name # None -> c.name
                [] c.name = None /\ (\E k \in Lengths: c[k] # None) -> "custom"
                [] OTHER -> "chat",
     context |-> v.context, p50 |-> v.in50 + v.out50, p95 |-> v.in95 + v.out95,
     objective |-> IF c.objective = None THEN "throughput" ELSE c.objective,
     expected |-> c.expected, slo |-> [lat |-> c.lat, ttft |-> c.ttft]]

\* constraints_from_config
ConstraintsOf(c) ==
    [gpus |-> c.gpus, engine |-> IF c.engine = "auto" THEN None ELSE c.engine, tp |-> c.tp,
     replicas |-> c.replicas, context |-> c.context, override |-> c.override = TRUE,
     fraction |-> c.fraction, seqs |-> c.seqs]

\* ConfigurationError from build_config or build_workload.  o has the file, with
\* None for each key it does not give, and the flags.
Refused(o) ==
    LET c == Merged(o.file, o.flags)
    IN ~ConfigValid(o.file) \/ ~ConfigValid(c) \/ c.model = None \/ ~WorkloadValid(c, Values(c))

\* build_config, then build_workload and constraints_from_config.
Understood(o) ==
    LET c == Merged(o.file, o.flags) IN
    IF Refused(o) THEN ConfigurationError
    ELSE [work |-> Workload(c, Values(c)), cons |-> ConstraintsOf(c)]

=============================================================================
