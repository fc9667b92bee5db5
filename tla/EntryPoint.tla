---------------------------- MODULE EntryPoint -----------------------------
(***************************************************************************)
(* ep.sh and ep.d/00-default: the way from the start of a container to its *)
(* program, and again when the program runs ep.sh (as ep.env does).  ep.sh *)
(* sees to it that k2env.so is preloaded, starting itself again if need    *)
(* be; runs its parts, those of the image and foreign ones; and becomes    *)
(* the program.  At each exec the constructor of k2env.so decides on NPROC. *)
(***************************************************************************)
EXTENDS CpuCount, Sequences, SequencesExt, FiniteSets

CONSTANTS
  K2,         \* "k2env.so", and
  Libs,       \* other libraries in LD_PRELOAD
  Preloads,   \* values of LD_PRELOAD
  Numbers,    \* values of GOMAXPROCS, OMP_THREAD_LIMIT and MALLOC_ARENA_MAX
  Parts,      \* what may be in the list of parts: a name and a kind
  Containers, \* what a container is started with
  MaxRuns     \* bound: times ep.sh is run

Unset    == 0
Nonsense == -1   \* a value that is no number

\* LD_PRELOAD: the libraries, and whether colons alone are between them.
Preload(libs, colons) == [libs |-> libs, colons |-> colons]

\* A part of the image is "arenas", "gomaxprocs" or "omp"; a foreign one is
\* "sourced", "program", or "plain" when it is neither.
PartKinds == {"arenas", "gomaxprocs", "omp", "sourced", "program", "plain"}

\* Numbers of threads, and of arenas, which no number of CPUs bounds.
Threads == {Nonsense} \cup 0 .. CpuMax

Environment ==
  [preload : [libs : Seq(Libs \cup {K2}), colons : BOOLEAN], nproc : 0 .. CpuMax, kind : Kinds,
   arenas : {Nonsense} \cup Nat, gomaxprocs : Threads, omp : Threads, force_gomaxprocs : Threads,
   ep_env : {"unset", "0", "1"}]

\* A file that process 1 cannot write has not been left by one either.
IsContainer(c) ==
  /\ c.env \in Environment /\ c.parts \in Seq(Parts)
  /\ c.file \in 0 .. CpuMax /\ c.limit \in 0 .. CpuMax /\ {c.pid1, c.writable} \subseteq BOOLEAN
  /\ c.pid1 /\ ~c.writable => c.file = Unset

\* Assumed of the constants by whoever takes an instance.
EntryAssumption ==
  /\ K2 \notin Libs /\ MaxRuns \in Nat
  /\ \A p \in Preloads : p \in [libs : Seq(Libs \cup {K2}), colons : BOOLEAN]
  /\ Numbers \subseteq Threads
  /\ \A part \in Parts : part.kind \in PartKinds
  /\ \A c \in Containers : IsContainer(c)

VARIABLES
  given,   \* what the container was started with; it does not change
  env,     \* LD_PRELOAD, NPROC and its kind, the three numbers, EP_ENV
  file,    \* what /run/lock/nproc holds, Unset when nothing
  pid1,    \* whether ep.sh is process 1
  image,   \* what is being started, "ep.sh" or "program"
  step,
  kept,    \* EP_GLIBC_MALLOC_ARENAS
  todo,    \* what is left of the list of parts
  \* History:
  ran,     \* the parts sourced or run
  touched, \* a foreign part has changed what the parts of the image set
  ate,     \* a part has read the list, in this run or another
  runs,    \* of ep.sh
  execs,   \* ep.sh starting itself again, in this run
  before   \* the environments of the programs so far

evars == <<given, env, file, pid1, image, step, kept, todo, ran, touched, ate, runs, execs, before>>

-----------------------------------------------------------------------------
(* LD_PRELOAD. *)

\* What is at some of the places of a sequence, in order.
Picked(s, places) ==
  LET upto[i \in 0 .. Len(s)] ==
        IF i = 0 THEN <<>> ELSE IF i \in places THEN Append(upto[i - 1], s[i]) ELSE upto[i - 1]
  IN  upto[Len(s)]

IsFirst(p) == p.libs # <<>> /\ Head(p.libs) = K2 /\ (Len(p.libs) = 1 \/ p.colons)

\* The second expression of sed: a match takes the colon after it along, so
\* that of several behind one another every other one stays; the first in the
\* value has no colon before it.
Matched(libs) ==
  {i \in 2 .. Len(libs) : \E k \in 2 .. i :
     /\ (i - k) % 2 = 0 /\ \A j \in k .. i : libs[j] = K2
     /\ k = 2 \/ libs[k - 1] # K2}

Stripped(libs) == Picked(libs, DOMAIN libs \ Matched(libs))

\* A mutant of ReparseLdPreload: other libraries are forgotten.
ReparseAlone(p) == Preload(<<K2>>, TRUE)

ReparseLdPreload(p) == Preload(<<K2>> \o Stripped(p.libs), TRUE)

EnforceK2env(p) == IF IsFirst(p) THEN p ELSE ReparseLdPreload(p)

-----------------------------------------------------------------------------
(* NPROC. *)

\* What a process finds in the file, or else from the kernel; process 1 does
\* not look at the file.
Found == IF file = Unset THEN given.limit ELSE file
Limit == IF pid1 THEN given.limit ELSE Found

EnvOf(e) == [nproc |-> e.nproc, kind |-> e.kind]

Preloaded(e) == \E i \in DOMAIN e.preload.libs : e.preload.libs[i] = K2

\* nproc, started with a number as NPROC: the constructor decides, and then
\* the program does.
NprocSays(e, number) ==
  LET asked == [nproc |-> IF number = Nonsense THEN Unset ELSE number, kind |-> e.kind]
  IN  Count(Found, IF Preloaded(e) THEN Left(Found, asked) ELSE asked)

-----------------------------------------------------------------------------
EInit ==
  /\ given \in Containers
  /\ env = given.env /\ file = given.file /\ pid1 = given.pid1
  /\ image = "ep.sh" /\ step = "load" /\ kept = Unset /\ todo = <<>>
  /\ ran = <<>> /\ touched = FALSE /\ ate = FALSE /\ runs = 1 /\ execs = 0 /\ before = <<>>

\* The constructor of k2env.so, where it is preloaded; process 1 writes what
\* it decides to the file, if it can.
Load ==
  /\ step = "load"
  /\ LET left == Left(Limit, EnvOf(env))
     IN  IF Preloaded(env)
         THEN /\ env' = [env EXCEPT !.nproc = left.nproc, !.kind = left.kind]
              /\ file' = IF pid1 /\ given.writable THEN left.nproc ELSE file
         ELSE UNCHANGED <<env, file>>
  /\ step' = IF image = "ep.sh" THEN "check" ELSE "program"
  /\ before' = IF image = "ep.sh" THEN before ELSE Append(before, env')
  /\ UNCHANGED <<given, pid1, image, kept, todo, ran, touched, ate, runs, execs>>

\* exec "$0" "$@"
StartAgain ==
  /\ step = "check" /\ ~IsFirst(env.preload)
  /\ env' = [env EXCEPT !.preload = EnforceK2env(@)]
  /\ step' = "load" /\ execs' = execs + 1
  /\ UNCHANGED <<given, file, pid1, image, kept, todo, ran, touched, ate, runs, before>>

\* MALLOC_ARENA_MAX is put aside, EP_ENV decided on if it is not 0 or 1
\* already, and the list of parts made.
Setup ==
  /\ step = "check" /\ IsFirst(env.preload)
  /\ kept' = IF env.arenas = Unset THEN 2 ELSE env.arenas
  /\ env' = [env EXCEPT !.arenas = 2,
               !.ep_env = IF @ # "unset" THEN @ ELSE IF given.command = "env" THEN "1" ELSE "0"]
  /\ todo' = given.parts /\ step' = "parts"
  /\ UNCHANGED <<given, file, pid1, image, ran, touched, ate, runs, execs, before>>

Next1(kind) == step = "parts" /\ todo # <<>> /\ Head(todo).kind = kind

\* The fixups after a sourced part.
Fixed(e) == [e EXCEPT !.arenas = 2, !.preload = EnforceK2env(@)]

Sourced(e, rest) ==
  /\ env' = Fixed(e) /\ todo' = rest /\ ran' = Append(ran, Head(todo).name)
  /\ UNCHANGED <<given, file, pid1, image, step, runs, execs, before>>

\* A mutant of ArenasFor: what was put aside, as it was.
ArenasAsTheyWere(n, nproc) == IF n = Nonsense THEN 2 ELSE n

\* A mutant of ArenasFor: as many per CPU.
ArenasPerCpu(n, nproc) == (IF n = Nonsense THEN 2 ELSE n) * nproc

\* 00-glibc-malloc-max-arenas.envsh; a number of the user's may not be one.
ArenasFor(n, nproc) == Larger(IF n = Nonsense THEN 2 ELSE n, nproc)

Arenas ==
  /\ Next1("arenas")
  /\ kept' = ArenasFor(kept, env.nproc)
  /\ Sourced(env, Tail(todo)) /\ UNCHANGED <<touched, ate>>

\* A mutant of ThreadsFor: what the user has set is not asked about.
ThreadsAsked(e, number, forced) ==
  IF forced # Unset THEN forced
  ELSE IF number = Unset THEN e.nproc
  ELSE number

\* 01-gomaxprocs.envsh and 02-omp_thread_limit.envsh, which are the same for
\* two variables.
ThreadsFor(e, number, forced) ==
  IF forced # Unset THEN forced
  ELSE IF number = Unset THEN e.nproc
  ELSE NprocSays(e, number)

Gomaxprocs ==
  /\ Next1("gomaxprocs")
  /\ Sourced([env EXCEPT !.gomaxprocs = ThreadsFor(env, @, env.force_gomaxprocs), !.force_gomaxprocs = Unset],
             Tail(todo))
  /\ UNCHANGED <<kept, touched, ate>>

OmpThreadLimit ==
  /\ Next1("omp")
  /\ Sourced([env EXCEPT !.omp = ThreadsFor(env, @, Unset)], Tail(todo))
  /\ UNCHANGED <<kept, touched, ate>>

\* A foreign part may set variables, or read the list, which is its input.
Foreign ==
  /\ Next1("sourced") /\ UNCHANGED kept
  /\ \/ Sourced(env, Tail(todo)) /\ UNCHANGED <<touched, ate>>
     \/ \E p \in Preloads :
          Sourced([env EXCEPT !.preload = p], Tail(todo)) /\ touched' = TRUE /\ UNCHANGED ate
     \/ \E n \in Numbers :
          Sourced([env EXCEPT !.arenas = n], Tail(todo)) /\ UNCHANGED <<touched, ate>>
     \/ \E n \in Numbers :
          Sourced([env EXCEPT !.gomaxprocs = n], Tail(todo)) /\ touched' = TRUE /\ UNCHANGED ate
     \/ Sourced(env, <<>>) /\ ate' = TRUE /\ UNCHANGED touched

\* A mutant of Skipped: programs run although only the environment is wanted.
SkippedPlain == Head(todo).kind = "plain"

\* A part that is not executable, or a program where only the environment is
\* wanted.
Skipped == Head(todo).kind = "plain" \/ env.ep_env = "1"

RunPart ==
  /\ Next1("program") \/ Next1("plain")
  /\ IF Skipped
     THEN todo' = Tail(todo) /\ UNCHANGED <<ran, ate>>
     ELSE /\ ran' = Append(ran, Head(todo).name)
          /\ \/ todo' = Tail(todo) /\ UNCHANGED ate
             \/ todo' = <<>> /\ ate' = TRUE
  /\ UNCHANGED <<given, env, file, pid1, image, step, kept, touched, runs, execs, before>>

\* MALLOC_ARENA_MAX is put back, and ep.sh becomes the program, by way of
\* run-prio, run-as, env and an init, or of none of them.
Become ==
  /\ step = "parts" /\ todo = <<>>
  /\ env' = [env EXCEPT !.arenas = kept]
  /\ image' = "program" /\ step' = "load"
  /\ UNCHANGED <<given, file, pid1, kept, todo, ran, touched, ate, runs, execs, before>>

\* The program, or one that it starts, runs ep.sh, as ep.env does; whatever the
\* command is now, EP_ENV has been decided on.
RunAgain ==
  /\ step = "program" /\ runs < MaxRuns
  /\ runs' = runs + 1 /\ pid1' = FALSE /\ image' = "ep.sh" /\ step' = "load" /\ kept' = Unset
  /\ ran' = <<>> /\ execs' = 0
  /\ UNCHANGED <<given, env, file, todo, touched, ate, before>>

Started == step = "program" /\ runs = MaxRuns /\ UNCHANGED evars

ENext ==
  \/ Load \/ StartAgain \/ Setup \/ Arenas \/ Gomaxprocs \/ OmpThreadLimit
  \/ Foreign \/ RunPart \/ Become \/ RunAgain \/ Started

ESpec == EInit /\ [][ENext]_evars

-----------------------------------------------------------------------------
(* Properties. *)

Others(p) == Picked(p.libs, {i \in DOMAIN p.libs : p.libs[i] # K2})

IsNumber(n) == n \notin {Unset, Nonsense}

\* PreloadKept: each part and the program run with k2env.so before all other
\* libraries, which are those that were there, in their order, whatever the
\* separators and whatever a sourced part has done to LD_PRELOAD; ep.sh starts
\* itself again at most once for that (ep.sh enforce_k2env_so).
PreloadKept ==
  /\ execs <= 1
  /\ step \in {"parts", "program"} =>
       /\ IsFirst(env.preload)
       /\ ~touched => Others(env.preload) = Others(given.env.preload)

\* ArenasKept: parts run with two arenas, and the program with the number the
\* user has set or with as many as CPUs, the larger, whatever a part has set
\* meanwhile (ep.sh, 00-glibc-malloc-max-arenas.envsh).
ArenasKept ==
  LET Has(kind) == \E i \in DOMAIN given.parts : given.parts[i].kind = kind
      user == IF IsNumber(given.env.arenas) THEN given.env.arenas ELSE 2
  IN  /\ step = "parts" => env.arenas = 2
      /\ step = "program" /\ runs = 1 /\ ~ate /\ Has("arenas") =>
           env.arenas = Larger(user, env.nproc)

\* Where nothing is forced on any level.
Free == given.env.kind = "normal" /\ given.env.force_gomaxprocs = Unset /\ ~touched /\ ~ate

\* The number that ep.sh has been told is what nproc goes by.
Known == Found = env.nproc

\* ThreadsFit: the program may run as many threads as the user has asked for,
\* but no more than it has CPUs, and as many as it has CPUs when he has asked
\* for nothing that is a number, unless NPROC, which nproc is asked without,
\* is not what the file holds either (01-gomaxprocs.envsh, 02-omp_thread_limit.envsh,
\* nproc.h get_container_cpus).
ThreadsFit ==
  LET Has(kind) == \E i \in DOMAIN given.parts : given.parts[i].kind = kind
      Meant(n)  == IF IsNumber(n) THEN Smaller(n, env.nproc) ELSE env.nproc
  IN  step = "program" /\ Free /\ Known =>
        /\ Has("gomaxprocs") => env.gomaxprocs = Meant(given.env.gomaxprocs)
        /\ Has("omp") => env.omp = Meant(given.env.omp)

Wanted(part, mode) == part.kind # "plain" /\ (part.kind = "program" => mode = "0")

\* PartsInTurn: every part of the list is sourced or run once, in its order,
\* programs left out when only the environment is wanted, up to one that reads
\* the list itself (ep.sh).
PartsInTurn ==
  LET wanted == {i \in DOMAIN given.parts : Wanted(given.parts[i], env.ep_env)}
      names  == Picked([i \in DOMAIN given.parts |-> given.parts[i].name], wanted)
  IN  /\ step \in {"parts", "program"} => IsPrefix(ran, names)
      /\ step = "program" /\ ~ate => ran = names

\* AgainTheSame: where nothing is forced, a program that runs ep.sh once more
\* comes by the environment it has (ep.env; .envsh parts of ep.d).
AgainTheSame ==
  step = "program" /\ Free => \A i \in DOMAIN before : before[i] = before[1]

\* NumbersFit: arenas and threads of the program fit its CPUs (ep.d/00-default).
NumbersFit == ArenasKept /\ ThreadsFit
=============================================================================
