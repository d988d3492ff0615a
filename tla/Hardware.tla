------------------------------ MODULE Hardware ------------------------------
(***************************************************************************)
(* hardware/nvml.py, hardware/topology.py and cluster/ray_provider.py: from *)
(* what the driver answers to the hw that plans are made for.              *)
(*                                                                         *)
(* A machine m has m.count GPUs (None when the driver does not answer),    *)
(* numbered from 1.  m.device[i] says whether the queries of GPU i         *)
(* succeed, its uuid and bus, and its memory; m.ancestor[{i, j}] is the    *)
(* level of their closest common PCIe ancestor, None when the query fails; *)
(* m.nvlink[i] lists the links of i up to the first unsupported one, each  *)
(* active or not, to an NVSwitch or to the bus "remote", None when that    *)
(* query fails.                                                            *)
(***************************************************************************)
EXTENDS Orders, Sequences, FiniteSetsExt

CONSTANT None

HardwareError == None

PcieScore(level) ==
    CASE level \in {0, 10} -> 40  \* PIX
      [] level = 20 -> 30         \* PXB
      [] level = 30 -> 20         \* PHB
      [] level = 40 -> 10         \* NODE
      [] level = 50 -> 5          \* SYS
      [] OTHER -> 1               \* UNKNOWN

NetworkScore == 0

ActiveLinks(m, i) == {k \in DOMAIN m.nvlink[i]: m.nvlink[i][k].active}

\* A link goes to an NVSwitch also when its end is no GPU the driver named.
ToSwitch(m, l) == l.switch \/ l.remote = None \/ ~(\E j \in 1..m.count: m.device[j].bus = l.remote)

SwitchLinks(m, i) == Cardinality({k \in ActiveLinks(m, i): ToSwitch(m, m.nvlink[i][k])})

LinkEnds(m, i, j) ==
    Cardinality({k \in ActiveLinks(m, i): /\ ~ToSwitch(m, m.nvlink[i][k])
                                          /\ m.nvlink[i][k].remote = m.device[j].bus})

\* Mutant of DirectLinks: counts each direct link at both of its ends.
DirectLinks_BothEnds(m, i, j) == LinkEnds(m, i, j) + LinkEnds(m, j, i)

\* Each direct link is seen from both ends.
DirectLinks(m, i, j) ==
    LET ends == LinkEnds(m, i, j) + LinkEnds(m, j, i)
    IN IF ends = 0 THEN 0 ELSE Max({1, ends \div 2})

\* build_topology: GPUs with links to an NVSwitch are connected through it.
Links(m, i, j) == Max({DirectLinks(m, i, j), Min({SwitchLinks(m, i), SwitchLinks(m, j)})})

EdgeScore(m, i, j) ==
    IF Links(m, i, j) > 0 THEN 100 + Links(m, i, j) ELSE PcieScore(m.ancestor[{i, j}])

GpuPairs(m) == kSubset(2, 1..m.count)

\* any_success
Answers(m) == (\E p \in GpuPairs(m): m.ancestor[p] # None)
              \/ (\E i \in 1..m.count: ActiveLinks(m, i) # {})

\* NVMLHardwareProvider.snapshot.  One machine alone is node 1.
Snapshot(m) ==
    IF m.count = None THEN HardwareError
    ELSE IF \E i \in 1..m.count: ~m.device[i].ok THEN HardwareError
    ELSE LET known == m.count <= 1 \/ Answers(m) IN
         [gpus |-> 1..m.count,
          node |-> [i \in 1..m.count |-> 1], local |-> [i \in 1..m.count |-> i],
          total |-> [i \in 1..m.count |-> m.device[i].total],
          free |-> [i \in 1..m.count |-> m.device[i].free],
          known |-> known,
          link |-> [p \in IF known THEN GpuPairs(m) ELSE {} |-> EdgeScore(m, Min(p), Max(p))]]

\* apply_cuda_visible_devices: entries are indices or uuids, others are ignored.
Restricted(hw, m, visible) ==
    IF hw = HardwareError \/ visible = None THEN hw
    ELSE LET kept == {i \in hw.gpus: \/ [index |-> i] \in visible
                                     \/ [uuid |-> m.device[i].uuid] \in visible}
             Keep(f) == [i \in kept |-> f[i]]
         IN [gpus |-> kept, node |-> Keep(hw.node), local |-> Keep(hw.local),
             total |-> Keep(hw.total), free |-> Keep(hw.free), known |-> hw.known,
             link |-> [p \in {x \in DOMAIN hw.link: x \subseteq kept} |-> hw.link[p]]]

\* _gpu_nodes: the head first, then by address.
GpuNodes(cluster) ==
    LET nodes == {n \in cluster: n.alive /\ n.gpus > 0}
        before == {p \in nodes \X nodes: \/ p[1].head /\ ~p[2].head
                                         \/ p[1].head = p[2].head /\ p[1].address < p[2].address}
    IN InOrder(nodes, before)

\* merge_node_snapshots, for one more node: its GPUs get the next indices, and
\* an edge over the network to each one before.
Joined(all, id, hw) ==
    LET base == Cardinality(all.gpus)
        gpus == 1..(base + Cardinality(hw.gpus))
        Both(f, g) == [i \in gpus |-> IF i <= base THEN f[i] ELSE g[i - base]]
        Here(p) == {i - base: i \in p}
        own == {{i + base: i \in p}: p \in DOMAIN hw.link}
        net == {{i, j}: i \in 1..base, j \in gpus \ 1..base}
    IN [gpus |-> gpus, node |-> Both(all.node, [i \in hw.gpus |-> id]),
        local |-> Both(all.local, hw.local), total |-> Both(all.total, hw.total),
        free |-> Both(all.free, hw.free), known |-> all.known /\ hw.known,
        link |-> [p \in DOMAIN all.link \cup own \cup net |->
                    CASE p \in DOMAIN all.link -> all.link[p]
                      [] p \in own -> hw.link[Here(p)]
                      [] p \in net -> NetworkScore]]

NoGpus == [gpus |-> {}, node |-> <<>>, local |-> <<>>, total |-> <<>>, free |-> <<>>,
           known |-> TRUE, link |-> <<>>]

\* merge_node_snapshots
AllJoined(nodes) ==
    LET After[k \in 0..Len(nodes)] ==
            IF k = 0 THEN NoGpus
            ELSE Joined(After[k - 1], nodes[k].address, Snapshot(nodes[k].nvml))
    IN After[Len(nodes)]

\* RayHardwareProvider.snapshot: every node is asked, without CUDA_VISIBLE_DEVICES.
ClusterSnapshot(cluster) ==
    LET nodes == GpuNodes(cluster)
    IN IF nodes = <<>> \/ \E k \in DOMAIN nodes: Snapshot(nodes[k].nvml) = HardwareError
       THEN HardwareError
       ELSE AllJoined(nodes)

\* make_hardware_provider and its snapshot; s is where servepilot runs.
HardwareOf(s) ==
    IF s.cluster # None THEN ClusterSnapshot(s.cluster)
    ELSE Restricted(Snapshot(s.nvml), s.nvml, s.visible)

\* ReplicaSet._node_for: what a group's GPUs are called on their machine.
LocalIds(hw, group) == {hw.local[i]: i \in group}

=============================================================================
