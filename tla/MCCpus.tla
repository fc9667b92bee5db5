------------------------------- MODULE MCCpus -------------------------------
(***************************************************************************)
(* CpuLimit, CpuCount and CpuSet together: a container is described by     *)
(* lists of CPUs, quotas and mounts; the kernel writes its files; the      *)
(* constructor of k2env.so reads them, decides what the process is told    *)
(* and adjusts its affinity.                                               *)
(***************************************************************************)
EXTENDS CpuSet, CpuLimit

CONSTANTS
  Machines,  \* what a container may be given
  Paths      \* of the groups that have files, its own apart

\* The CPUs that the kernel lists.
PartOf(part) == IF Len(part) = 1 THEN {part[1]} ELSE part[1] .. part[2]
CpusOf(list) == UNION {PartOf(list[i]) : i \in DOMAIN list}

\* It lists them in their order, each of them once.
Ordered(list) ==
  /\ \A i \in DOMAIN list :
       /\ Len(list[i]) \in {1, 2} /\ PartOf(list[i]) \subseteq CPUs
       /\ Len(list[i]) = 2 => list[i][1] <= list[i][2]
  /\ \A i \in DOMAIN list : \A j \in 1 .. i - 1 : \A c \in PartOf(list[i]) : \A d \in PartOf(list[j]) : d < c

Lists == {list \in Seq(Seq(CPUs)) : Ordered(list)}

ASSUME MachinesAssumption ==
  /\ Words * Bits <= CpuMax
  /\ \A m \in Machines :
       /\ {m.online, m.possible, m.present} \subseteq Lists \ {<<>>} /\ m.cpuset \in Lists
       /\ m.affinity \in (SUBSET CPUs) \ {{}}
       /\ m.quota \in Int /\ m.period \in Nat \ {0} /\ m.version \in {1, 2} /\ m.env \in Env
       /\ m.shares \in {0} \cup {s \in Nat : s > SharesUnit}
       /\ ~Outside(m.root)

VARIABLE machine   \* the description; it does not change

Mount(type, at, root, options) ==
  [fs_type |-> type, mount_point |-> at, root |-> root, super_options |-> options]
Group(n, controllers, path) == [id |-> n, controllers |-> controllers, path |-> path]
File(at, path, has) == [mount |-> at, path |-> path, has |-> has]

\* Own limits are in the directory that shows m's own group, if the mount
\* shows it; the mount's other groups have other limits.
Tree(m, at, has) ==
  LET own == IF m.root = TheRoot THEN {m.path} ELSE IF m.root = m.path THEN {<<>>} ELSE {}
  IN  {File(at, p, has) : p \in own} \cup
      {File(at, p, [NoFiles EXCEPT !.cpus = << <<0>> >>, !.quota = 1, !.period = 1]) : p \in Paths \ own}

KernelOf(m) ==
  LET cpuset == [NoFiles EXCEPT !.cpus = m.cpuset]
      cpu    == [NoFiles EXCEPT !.quota = m.quota, !.period = m.period, !.shares = m.shares]
      both   == [cpuset EXCEPT !.quota = m.quota, !.period = m.period]
  IN  [lists    |-> <<m.online, m.possible, m.present>>,
       affinity |-> Cardinality(m.affinity),
       mounts   |->
         IF m.version = 1
         THEN <<Mount("proc", <<"proc">>, TheRoot, {"rw"}),
                Mount("cgroup", <<"cg", "cpu">>, m.root, {"rw", "cpu", "cpuacct"}),
                Mount("cgroup", <<"cg", "cpuset">>, m.root, {"rw", "cpuset"}),
                Mount("cgroup2", <<"cg", "unified">>, m.root, {"rw"})>>
         ELSE <<Mount("proc", <<"proc">>, TheRoot, {"rw"}),
                Mount("cgroup2", <<"cg">>, m.root, {"rw"})>>,
       groups   |->
         IF m.version = 1
         THEN <<Group(3, {"cpu", "cpuacct"}, m.path), Group(2, {"cpuset"}, m.path), Group(0, {}, m.path)>>
         ELSE <<Group(0, {}, m.path)>>,
       files    |->
         IF m.version = 1
         THEN Tree(m, <<"cg", "cpu">>, cpu) \cup Tree(m, <<"cg", "cpuset">>, cpuset)
         ELSE Tree(m, <<"cg">>, both)]

MCInit ==
  /\ Init /\ machine \in Machines /\ allowed = machine.affinity
  /\ told = Count(Limit(KernelOf(machine)), machine.env)

MCNext == Next /\ UNCHANGED machine

\* rand() comes to each number sooner or later, and the process runs.
MachineSpec == MCInit /\ [][MCNext]_<<vars, machine>> /\ WF_vars(Work)

-----------------------------------------------------------------------------
(* Properties. *)

\* The CPUs that a time of "quota" in each "period" keeps busy.
Needed(quota, period) == CHOOSE n \in 1 .. quota : n * period >= quota /\ (n - 1) * period < quota

\* What a machine allows its container, as the container can see it.
Allows(m) ==
  {Cardinality(c) : c \in {CpusOf(m.online), CpusOf(m.possible), CpusOf(m.present), m.affinity}} \cup
  (IF m.root \notin {TheRoot, m.path} THEN {}
   ELSE (IF m.cpuset # <<>> THEN {Cardinality(CpusOf(m.cpuset))} ELSE {}) \cup
        (IF m.quota > 0 THEN {Needed(m.quota, m.period)} ELSE {}) \cup
        (IF m.version = 1 /\ m.shares > 0 THEN {Needed(m.shares, SharesUnit)} ELSE {}))

\* ToldIsLeast: from the texts of the kernel, under both versions of
\* cgroups, whichever part of their trees is mounted, and with shares of more
\* than one CPU or none (MachinesAssumption), a process without
\* NPROC is told the least of what the machine allows its own group, never
\* that of another, and with NPROC no more than that unless it is forced
\* (nproc.h get_container_cpus, procfs/cgroup-v1.h, procfs/cgroup-v2.h).
ToldIsLeast ==
  /\ machine.env.nproc = 0 => told \in Allows(machine)
  /\ machine.env.kind = "normal" => \A n \in Allows(machine) : told <= n

-----------------------------------------------------------------------------
(* Constants of the runs. *)

Plain ==
  [online |-> << <<0, 11>> >>, possible |-> << <<0, 11>> >>, present |-> << <<0, 11>> >>,
   affinity |-> 0 .. 11, cpuset |-> << <<0, 11>> >>,
   quota |-> 0, period |-> 5, shares |-> 0, version |-> 2, path |-> <<>>, root |-> TheRoot,
   env |-> [nproc |-> 0, kind |-> "normal"]]

\* Machines whose groups and limits differ: CPUs 0 to 5 may be online.
Containers ==
  {[Plain EXCEPT !.online = << <<0, 2>>, <<4>> >>, !.affinity = {0, 1, 4}, !.cpuset = c, !.quota = q,
                 !.shares = s, !.version = v, !.path = p, !.root = r, !.env = e] :
     c \in {<<>>, << <<0>> >>, << <<0, 2>>, <<4>> >>}, q \in {0, 4, 5, 6, 11}, s \in {0, 33}, v \in {1, 2},
     p \in {<<>>, <<"a">>}, r \in {TheRoot, <<"a">>, <<"b">>},
     e \in {[nproc |-> 0, kind |-> "normal"], [nproc |-> 2, kind |-> "normal"],
            [nproc |-> 5, kind |-> "force"]}}

\* Machines whose affinities differ, for programs that ask for some CPUs.
Affinities ==
  {[Plain EXCEPT !.affinity = a, !.env = [nproc |-> n, kind |-> "normal"]] :
     a \in Masks, n \in {1, 2, 3}}

SomePaths == {<<>>, <<"a">>, <<"b">>}

AllMasks ==
  ((SUBSET (0 .. 5)) \ {{}}) \cup {{6, 7}, {0, 6, 7}, {2, 5, 9}, {0, 1, 6, 11}, 0 .. 11, 3 .. 8}

SomeChanges == {{0}, {3, 5}, {2, 6, 7}}

AllCounts == 1 .. 12

SomeMachines == Containers \cup Affinities
=============================================================================
