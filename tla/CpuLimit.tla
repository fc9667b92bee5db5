------------------------------ MODULE CpuLimit ------------------------------
(***************************************************************************)
(* What the kernel says about the number of CPUs: lists of CPUs in sysfs   *)
(* and in the cpuset controllers, quotas and shares in the cgroup of the   *)
(* process, and the affinity (incontainer/nproc.h, procfs/cgroup*.h,       *)
(* procfs/mountinfo.h).  A limit of 0 is none.                             *)
(*                                                                         *)
(* A kernel is a record: "lists" has the texts of online, possible and     *)
(* present; "mounts" and "groups" the lines of /proc/self/mountinfo and    *)
(* /proc/self/cgroup; "files" what is in the directories of the cgroup     *)
(* trees; "affinity" a set of CPUs.  A path is a sequence of names.        *)
(***************************************************************************)
EXTENDS CpuCount, Sequences

CONSTANT SharesUnit   \* the cpu.shares of one CPU, 1024

ASSUME SharesAssumption == SharesUnit \in Nat \ {0}

\* The least of the limits there are, 0 if there is none.
Least(limits) ==
  LET least[n \in 0 .. Len(limits)] ==
        IF n = 0 THEN 0 ELSE MinPositive(least[n - 1], limits[n])
  IN  least[Len(limits)]

ClampCpuCount(n) == IF n > 0 THEN Smaller(n, CpuMax) ELSE 0

CeilDiv(a, b) == a \div b + IF a % b # 0 THEN 1 ELSE 0

-----------------------------------------------------------------------------
(* Lists, "0-2,5": of parts <<a>> or <<a, b>>.                               *)

PartCount(part) == IF Len(part) = 1 THEN 1 ELSE part[2] - part[1] + 1

CpuListCount(list) ==
  LET sum[n \in 0 .. Len(list)] ==
        IF n = 0 THEN 0 ELSE sum[n - 1] + PartCount(list[n])
  IN  sum[Len(list)]

-----------------------------------------------------------------------------
(* The directory of the process's own cgroup; Nowhere if it is not found.   *)

Nowhere == [mount |-> <<>>, path |-> <<>>, found |-> FALSE]

LinesOf(lines) == {lines[i] : i \in DOMAIN lines}

\* The callbacks of the walks stop at the first line they take.
FirstSuch(lines, such) ==
  {lines[i] : i \in {j \in DOMAIN lines : lines[j] \in such /\ \A h \in 1 .. j - 1 : lines[h] \notin such}}

TheRoot == <<>>

\* A mutant of Directory: the path is always joined.
DirectoryJoined(m, g) == [mount |-> m.mount_point, path |-> g.path, found |-> TRUE]

Directory(m, g) ==
  [mount |-> m.mount_point, path |-> IF m.root = TheRoot THEN g.path ELSE <<>>, found |-> TRUE]

\* get_cgroup_v1_path, get_cgroup_v2_path: the mount first, then the group;
\* own[m] are the groups that a mount may show.
CgroupPath(k, own) ==
  LET dirs == UNION {{Directory(m, g) : g \in FirstSuch(k.groups, own[m])} : m \in FirstSuch(k.mounts, DOMAIN own)}
  IN  IF dirs = {} THEN Nowhere ELSE CHOOSE d \in dirs : TRUE

CgroupV1Path(k, controller) ==
  LET mounts == {m \in LinesOf(k.mounts) : m.fs_type = "cgroup" /\ controller \in m.super_options}
  IN  CgroupPath(k, [m \in mounts |->
        {g \in LinesOf(k.groups) : controller \in g.controllers /\ m.root \in {g.path, TheRoot}}])

Outside(path) == Len(path) > 1 /\ path[1] = ".."

CgroupV2Path(k) ==
  LET mounts == {m \in LinesOf(k.mounts) : m.fs_type = "cgroup2"}
  IN  CgroupPath(k, [m \in mounts |->
        {g \in LinesOf(k.groups) : /\ g.id = 0 /\ g.controllers = {}
                                   /\ m.root \in {TheRoot, g.path} \/ Outside(m.root)}])

-----------------------------------------------------------------------------
(* The files there.  A number that cannot be read, as in "max 100000", is    *)
(* one below 1.                                                              *)

NoFiles == [cpus |-> <<>>, quota |-> 0, period |-> 0, shares |-> 0]

FilesOf(k, dir) ==
  LET there == {f \in k.files : dir.found /\ f.mount = dir.mount /\ f.path = dir.path}
  IN  IF there = {} THEN NoFiles ELSE (CHOOSE f \in there : TRUE).has

CpuSetLimit(files) == ClampCpuCount(CpuListCount(files.cpus))

\* get_quota_v1, get_quota_v2
QuotaLimit(files) ==
  ClampCpuCount(IF files.quota > 0 /\ files.period > 0
                THEN Larger(1, CeilDiv(files.quota, files.period)) ELSE 0)

\* get_shares_v1: a share of one CPU or less is taken as it is.
SharesLimit(files) ==
  ClampCpuCount(IF files.shares > SharesUnit THEN Larger(1, CeilDiv(files.shares, SharesUnit))
                ELSE files.shares)

-----------------------------------------------------------------------------
SysfsLimit(k) == Least([i \in DOMAIN k.lists |-> ClampCpuCount(CpuListCount(k.lists[i]))])

CgroupsLimit(k) ==
  LET cpuset == FilesOf(k, CgroupV1Path(k, "cpuset"))
      cpu    == FilesOf(k, CgroupV1Path(k, "cpu"))
      v2     == FilesOf(k, CgroupV2Path(k))
  IN  Least(<<CpuSetLimit(cpuset), QuotaLimit(cpu), SharesLimit(cpu), CpuSetLimit(v2), QuotaLimit(v2)>>)

\* What get_container_cpus() starts from.
Limit(k) == Least(<<SysfsLimit(k), CgroupsLimit(k), ClampCpuCount(k.affinity)>>)
=============================================================================
