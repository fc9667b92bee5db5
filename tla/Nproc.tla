------------------------------- MODULE Nproc -------------------------------
(***************************************************************************)
(* incontainer/nproc.h: how many CPUs a container has, as k2env.so tells   *)
(* every process of it.  The constructor of the library runs in each       *)
(* process, and again at each exec of process 1: what is in /run/lock/nproc *)
(* or, failing that, what the kernel says is the limit; NPROC and          *)
(* NPROC_KIND in the environment change it and are set for the children;   *)
(* process 1 writes the file anew.                                         *)
(***************************************************************************)
EXTENDS CpuCount

CONSTANTS
  Limits,    \* what the kernel may say, 0 when it says nothing
  RootEnvs,  \* environments process 1 may be given
  MaxPid,    \* bound: processes
  MaxExecs   \* bound: execs of process 1

ASSUME ProcessAssumption ==
  /\ MaxPid \in Nat \ {0} /\ MaxExecs \in Nat
  /\ Limits \subseteq 0 .. CpuMax /\ RootEnvs \subseteq Env

VARIABLES
  limit,   \* min_positive of sysfs, cgroups and affinity
  file,    \* what /run/lock/nproc holds
  named,   \* whether what process 1 has open still has that name
  execs,   \* execs of process 1 so far
  pc,      \* where each process is
  env,     \* its environment
  x,       \* its x in get_container_cpus()
  \* History of each process:
  born,    \* the environment it was started with
  own,     \* that is what process 1 set, handed down as it was
  found    \* everybody on the way to it, and itself, has found the file

history == <<born, own, found>>
process == <<pc, env, x, history>>
vars    == <<limit, file, named, execs, process>>

Pids  == 1 .. MaxPid
Root  == 1
Gone  == -1    \* no file
Blank == 0     \* an empty one: no number can be read

-----------------------------------------------------------------------------
(* Processes. *)

Where == {"unborn", "read", "unlink", "decide", "truncate", "write", "done"}

NoEnv == [nproc |-> 0, kind |-> "normal"]

Init ==
  /\ limit \in Limits /\ file = Gone /\ named = FALSE /\ execs = 0
  /\ \E e \in RootEnvs : env = [p \in Pids |-> IF p = Root THEN e ELSE NoEnv]
  /\ born = env
  /\ pc = [p \in Pids |-> IF p = Root THEN "decide" ELSE "unborn"]
  /\ x = [p \in Pids |-> 0]
  /\ own = [p \in Pids |-> p = Root]
  /\ found = [p \in Pids |-> p = Root]

To(p, there) == pc' = [pc EXCEPT ![p] = there]

\* Others than process 1 look at the file first.
Read(p) ==
  /\ pc[p] = "read"
  /\ \/ /\ file \in 1 .. CpuMax
        /\ x' = [x EXCEPT ![p] = file]
        /\ To(p, "decide")
        /\ UNCHANGED found
     \/ /\ file \notin 1 .. CpuMax
        /\ found' = [found EXCEPT ![p] = FALSE]
        /\ To(p, "unlink")
        /\ UNCHANGED x
  /\ UNCHANGED <<limit, file, named, execs, env, born, own>>

\* What had no number in it goes, whatever it holds by now; not every
\* process may remove it.
Unlink(p) ==
  /\ pc[p] = "unlink"
  /\ \/ file' = Gone /\ named' = FALSE
     \/ UNCHANGED <<file, named>>
  /\ To(p, "decide")
  /\ UNCHANGED <<limit, execs, env, x, history>>

Decide(p) ==
  /\ pc[p] = "decide"
  /\ x' = [x EXCEPT ![p] = IF x[p] = 0 THEN limit ELSE x[p]]
  /\ env' = [env EXCEPT ![p] = Left(x'[p], env[p])]
  /\ To(p, IF p = Root THEN "truncate" ELSE "done")
  /\ UNCHANGED <<limit, file, named, execs, history>>

\* set_nproc_file_value(): open(O_CREAT | O_TRUNC), then write(2) to what was
\* opened; either may fail, and nobody looks.
Truncate ==
  /\ pc[Root] = "truncate"
  /\ \/ file' = Blank /\ named' = TRUE /\ To(Root, "write")
     \/ To(Root, "done") /\ UNCHANGED <<file, named>>
  /\ UNCHANGED <<limit, execs, env, x, history>>

\* A mutant of Write: the limit is written, not the count.
WriteLimit ==
  /\ pc[Root] = "write"
  /\ file' = IF named THEN x[Root] ELSE file
  /\ To(Root, "done") /\ UNCHANGED <<limit, named, execs, env, x, history>>

Write ==
  /\ pc[Root] = "write"
  /\ \/ named /\ file' = env[Root].nproc
     \/ UNCHANGED file
  /\ To(Root, "done")
  /\ UNCHANGED <<limit, named, execs, env, x, history>>

\* A program starts in p, with an environment.
Start(p, there, e, mine, finder) ==
  /\ To(p, there)
  /\ env' = [env EXCEPT ![p] = e]
  /\ born' = [born EXCEPT ![p] = e]
  /\ x' = [x EXCEPT ![p] = 0]
  /\ own' = [own EXCEPT ![p] = mine]
  /\ found' = [found EXCEPT ![p] = finder]
  /\ UNCHANGED <<limit, file, named>>

\* Process 1 becomes another program.
Exec ==
  /\ pc[Root] = "done" /\ execs < MaxExecs
  /\ execs' = execs + 1
  /\ Start(Root, "decide", env[Root], TRUE, TRUE)

\* A process starts another: with its environment, with none, or with a
\* number of its own choice (ep.d/00-default/*.envsh: NPROC=... nproc).
Spawn(p, q) ==
  /\ pc[p] = "done" /\ pc[q] = "unborn" /\ q # Root
  /\ \/ Start(q, "read", env[p], own[p], found[p])
     \/ Start(q, "read", NoEnv, FALSE, found[p])
     \/ \E n \in 1 .. CpuMax :
          Start(q, "read", [nproc |-> n, kind |-> env[p].kind], FALSE, found[p])
  /\ UNCHANGED execs

Rest ==
  /\ \A p \in Pids : pc[p] = "done"
  /\ execs = MaxExecs /\ UNCHANGED vars

Next ==
  \/ \E p \in Pids : Read(p) \/ Unlink(p) \/ Decide(p)
  \/ \E p, q \in Pids : Spawn(p, q)
  \/ Truncate \/ Write \/ Exec \/ Rest

Spec == Init /\ [][Next]_vars

-----------------------------------------------------------------------------
(* Properties. *)

TypeOK ==
  /\ limit \in Limits /\ file \in -1 .. CpuMax /\ named \in BOOLEAN /\ execs \in 0 .. MaxExecs
  /\ pc \in [Pids -> Where] /\ env \in [Pids -> Env] /\ x \in [Pids -> 0 .. CpuMax]
  /\ born \in [Pids -> Env] /\ own \in [Pids -> BOOLEAN] /\ found \in [Pids -> BOOLEAN]

Done(p) == pc[p] = "done"

Told(p) == env[p].nproc

\* What NPROC_KIND means: at most n, exactly n, or at least n, when there is
\* an n, and never none.
Meant(n, e) ==
  LET normal == IF n = 0 THEN e.nproc ELSE Smaller(n, e.nproc)
  IN  Larger(1, IF e.nproc = 0 THEN n
                ELSE IF e.kind = "normal" THEN normal
                ELSE IF e.kind = "force" THEN e.nproc ELSE Larger(n, e.nproc))

\* CountIsMeant: whatever the order in which get_container_cpus() looks at
\* limit, number and kind and rewrites the kind, each process is told what
\* the environment it was started with means.
CountIsMeant == \A p \in Pids : Done(p) => Told(p) = Meant(x[p], born[p])

Unforced == \A p \in Pids : born[p].kind = "normal"

\* WithinLimit: as long as nothing is forced, no process is told more than
\* the kernel allows, by whichever way it got its number: file, environment
\* or a number somebody chose (nproc.h get_container_cpus).
WithinLimit ==
  Unforced /\ limit > 0 => \A p \in Pids : Done(p) => Told(p) <= limit

\* AllAgree: processes that run in process 1's environment are told what
\* process 1 was told, at all times while it rewrites the file and whoever
\* unlinks it; where a number was forced this needs the file.
AllAgree ==
  \A p \in Pids :
    Done(p) /\ own[p] /\ (Unforced \/ found[p]) => Told(p) = Told(Root)

\* Handed: a process that has found the file, in an environment without
\* NPROC, is told what process 1 was told, which is all that the file is for
\* (nproc.h set_nproc_file_value).
Handed ==
  \A p \in Pids \ {Root} :
    Done(p) /\ found[p] /\ born[p].nproc = 0 => Told(p) = Told(Root)

\* OwnCount: each process is told what its own environment means, and never
\* more than the limit unless forced (nproc.h get_container_cpus).
OwnCount == CountIsMeant /\ WithinLimit

\* OneCount: there is one number for the container, process 1's, for all that
\* run in its environment or have found its file (nproc.h
\* set_nproc_file_value).
OneCount == AllAgree /\ Handed
=============================================================================
