----------------------------- MODULE Container -----------------------------
(***************************************************************************)
(* The processes of a container (Nproc) and the entry point (EntryPoint),  *)
(* which have NPROC and the file with the number of CPUs in common.  They  *)
(* are stated side by side: EntryPoint has an environment and a file of its *)
(* own, and of the processes of Nproc those that ep.sh starts.             *)
(***************************************************************************)
EXTENDS Nproc

CONSTANTS K2, Libs, Preloads, Numbers, Parts, Containers, MaxRuns

VARIABLES given, ep_env, ep_file, pid1, image, step, kept, todo, ran, touched, ate, runs, restarts, before

E == INSTANCE EntryPoint WITH env <- ep_env, file <- ep_file, execs <- restarts

\* PreloadKept: parts and programs run with k2env.so in front (ep.sh
\* enforce_k2env_so).
PreloadKept == E!PreloadKept

\* NumbersFit: arenas and threads fit the CPUs (ep.d/00-default).
NumbersFit == E!NumbersFit

\* PartsInTurn: each part is sourced or run once and in its order (ep.sh).
PartsInTurn == E!PartsInTurn

\* AgainTheSame: ep.sh, run again, makes the same environment (ep.env).
AgainTheSame == E!AgainTheSame
=============================================================================
