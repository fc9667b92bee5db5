------------------------------ MODULE MCNproc ------------------------------
(***************************************************************************)
(* Instances of Nproc and of EntryPoint, which has its list of parts from  *)
(* OverlayDir.  Nproc: up to five CPUs, three processes, two execs of the  *)
(* first.  EntryPoint: containers whose environments differ, and some whose *)
(* /ep.d and /ep.ovl do.  A behaviour is of one of the two.                *)
(***************************************************************************)
EXTENDS Container, OverlayDir

AllLimits == {0, 1, 2, 4}
AllEnvs   == [nproc : {0, 1, 3, 5}, kind : Kinds]

-----------------------------------------------------------------------------
(* Directories. *)

NameAt(place, text, number) == [text |-> text, place |-> place, number |-> number, blank |-> FALSE]

Default  == NameAt(1, 1, NoNumber)   \* 00-default
Glibc    == NameAt(1, 2, NoNumber)
Gomax    == NameAt(2, 3, NoNumber)
Omp      == NameAt(3, 4, NoNumber)
Script   == NameAt(4, 6, NoNumber)   \* a foreign *.envsh
Program  == NameAt(5, 7, NoNumber)
Unusual  == {NameAt(5, 8, NoNumber), [Program EXCEPT !.blank = TRUE], NameAt(6, 9, 1), NameAt(7, 10, 1)}

KindOf(name) ==
  CASE name = Glibc -> "arenas" [] name = Gomax -> "gomaxprocs" [] name = Omp -> "omp"
    [] name = Script -> "sourced" [] name.place = 7 -> "plain" [] OTHER -> "program"

File(path) == Entry(path, "file", FALSE)
Dir(path)  == Entry(path, "dir", FALSE)
Skip(path) == Entry(path, "file", TRUE)

ImageParts == {Dir(<<Default>>), File(<<Default, Gomax>>), File(<<Default, Omp>>), File(<<Default, Glibc>>)}

\* What a layer may have under a name.
Shapes(n) ==
  {{}, {File(<<n>>)}, {Entry(<<n>>, "other", TRUE)}, {Skip(<<n>>)}, {Dir(<<n>>), Skip(<<n>>)},
   {Dir(<<n>>), File(<<n, Program>>)}, {Dir(<<n>>), Skip(<<n, Program>>)},
   {Dir(<<n>>), File(<<n, Omp>>), Dir(<<n, Program>>), File(<<n, Program, Program>>)}}

Layers ==
  [1 .. 2 -> {s \cup t : s \in Shapes(Program), t \in Shapes(Omp)}] \cup [1 .. 3 -> Shapes(Program)]
  \cup {<<ImageParts \cup {File(<<n>>)}, {File(<<m>>), File(<<Program>>)}>> : m, n \in Unusual}

Depth == 3

PartsOf(layers) ==
  LET list == OverlayList(layers, Depth)
  IN  [i \in DOMAIN list |-> [name |-> list[i], kind |-> KindOf(Last(list[i][2]))]]

-----------------------------------------------------------------------------
(* Containers. *)

SomePreloads ==
  {[libs |-> l, colons |-> c] :
     l \in {<<>>, <<K2>>, <<K2, "a">>, <<"a", K2, "b">>, <<"b", K2, K2, "a">>}, c \in BOOLEAN}

SetPreloads == {[libs |-> l, colons |-> TRUE] : l \in {<<>>, <<"a", K2, "b">>}}

SomeNumbers == {0, -1, 1, 3}

Plain ==
  [env |-> [preload |-> [libs |-> <<>>, colons |-> TRUE], nproc |-> 0, kind |-> "normal", arenas |-> 0,
            gomaxprocs |-> 0, omp |-> 0, force_gomaxprocs |-> 0, ep_env |-> "unset"],
   file |-> 0, pid1 |-> TRUE, limit |-> 2, writable |-> TRUE, command |-> "other",
   layers |-> <<{}>>, parts |-> <<>>]

WithLayers(c, layers) == [c EXCEPT !.layers = layers, !.parts = PartsOf(layers)]

\* Environments, for the parts of the image and foreign ones.
ImageLayers == <<ImageParts, {File(<<Script>>), File(<<Program>>), Dir(<<Default>>)}>>
Early       == <<ImageParts, {Dir(<<Default>>), File(<<Default, Script>>), Dir(<<Glibc>>), File(<<Glibc, Script>>)}>>

OfEnvironments ==
  LET c == WithLayers(Plain, ImageLayers)
      Numbered ==
        {[c EXCEPT !.env.nproc = n, !.env.kind = k, !.env.gomaxprocs = g, !.env.force_gomaxprocs = f,
                   !.pid1 = one, !.writable = w, !.file = IF one /\ ~w THEN 0 ELSE old] :
           n \in {0, 1, 3}, k \in {"normal", "force"}, g \in SomeNumbers, f \in {0, 4},
           one \in BOOLEAN, w \in BOOLEAN, old \in {0, 4}}
      Allotted ==
        {[c EXCEPT !.env.arenas = a, !.env.omp = n, !.command = m, !.pid1 = (n = 0), !.file = n] :
           a \in SomeNumbers, n \in {0, 1, 2}, m \in {"env", "other"}}
  IN  Numbered \cup Allotted

OfPreloads ==
  {[WithLayers(Plain, Early) EXCEPT !.env.preload = p, !.env.ep_env = e, !.file = n, !.pid1 = (n = 0)] :
     p \in SomePreloads, e \in {"0", "1", "unset"}, n \in {0, 1}}

OfDirectories == {WithLayers(Plain, l) : l \in Layers}

\* Plain is the container in which Nproc's processes run.
SomeContainers == {Plain} \cup OfEnvironments \cup OfPreloads \cup OfDirectories

SomeNames == {Default, Glibc, Gomax, Omp, Script, Program} \cup Unusual

SomeKinds == {"arenas", "gomaxprocs", "omp", "sourced", "program", "plain"}

SomeParts ==
  [name : (1 .. 3) \X UNION {[1 .. n -> SomeNames] : n \in 1 .. Depth}, kind : SomeKinds]

ASSUME InstanceAssumption == E!EntryAssumption

OfEntryPoint == <<given, ep_env, ep_file, pid1, image, step, kept, todo, ran, touched, ate, runs, restarts, before>>

OneNproc == limit = 0 /\ env[Root] = NoEnv
MCInit == E!EInit /\ Init /\ (OneNproc \/ given = Plain)

MCNext ==
  \/ given = Plain /\ Next /\ UNCHANGED OfEntryPoint
  \/ given # Plain /\ E!ENext /\ UNCHANGED vars

MCSpec == MCInit /\ [][MCNext]_<<vars, OfEntryPoint>>

-----------------------------------------------------------------------------
(* Properties. *)

\* PartsAreMeant: of directories whose names no tool takes for one another the
\* list has every file that nothing in a later layer covers or skips, once, in
\* the order of sort -V, and no other (overlay-dir-list).
PartsAreMeant ==
  step = "load" /\ runs = 1 /\ restarts = 0 /\ Usual(given.layers) =>
    IsMeant(given.layers, Depth, OverlayList(given.layers, Depth))
=============================================================================
