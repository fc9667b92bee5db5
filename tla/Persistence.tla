---------------------------- MODULE Persistence ----------------------------
(***************************************************************************)
(* lib/k2/persistence/ca-bundle-openssl.sh, and the same for Java: a       *)
(* bundle of certificates outlives the package that made it.  The script   *)
(* keeps a checksum and a packed copy of the bundle; it runs as a hook of  *)
(* update-ca-certificates, by dpkg's triggers and by hand, one run at a    *)
(* time, and may be stopped, or find the disk full, between any two steps. *)
(***************************************************************************)
EXTENDS Integers

CONSTANTS
  MaxBundles,  \* bound: bundles update-ca-certificates makes
  MaxDrops,    \* bound: times the bundle goes with its package
  MaxCommands, \* bound: runs of the script by hand
  MaxCuts      \* bound: runs cut short

ASSUME BoundsAssumption == {MaxBundles, MaxDrops, MaxCommands, MaxCuts} \subseteq Nat

VARIABLES
  orig,     \* the bundle
  state,    \* what the checksum was made of
  backup,   \* what was packed
  pending,  \* triggers that wait for the script
  job,      \* the run of the script: what it falls back to, and where it is
  made, drops, commands,
  cut       \* history: saves and restores cut short, and hooks that did not run

files  == <<orig, state, backup>>
counts == <<made, drops, commands>>
vars   == <<files, pending, job, counts, cut>>

\* What a file holds: the n-th bundle, whole or as the k-th cut has left it,
\* or nothing, which is all one to test -s.
Whole(n)   == [bundle |-> n, cut |-> 0]
Torn(n, k) == [bundle |-> n, cut |-> k]
Blank      == [bundle |-> 0, cut |-> 0]

Empty(file) == file = Blank

Ways == {"save", "restore"}

\* "watched": /etc/ssl and the others; "refine": the script's own.
Triggers == {"watched", "refine"}

At == {"idle", "verify", "checksum", "checksumming", "pack", "packing", "unpack", "unpacking"}

Idle == job.at = "idle"

Cuts == cut.save + cut.restore + cut.hook

Init ==
  /\ orig = Blank /\ state = Blank /\ backup = Blank
  /\ pending = {} /\ made = 0 /\ drops = 0 /\ commands = 0
  /\ job = [way |-> "save", at |-> "idle"]
  /\ cut = [save |-> 0, restore |-> 0, hook |-> 0]

Run(way) == job' = [way |-> way, at |-> "verify"]
Goto(at) == job' = [job EXCEPT !.at = at]

-----------------------------------------------------------------------------
(* verify || save, verify || restore. *)

\* A mutant of Verified: the checksum is there, and that is enough.
AnyChecksum == ~Empty(state)

Verified == ~Empty(state) /\ state = orig

\* A mutant of Verify: what there is is saved.
VerifyBlindly ==
  /\ job.at = "verify"
  /\ IF Verified THEN Goto("idle")
     ELSE IF job.way = "save" THEN Goto("checksum")
     ELSE IF Empty(backup) THEN Goto("idle") ELSE Goto("unpack")
  /\ UNCHANGED <<files, pending, counts, cut>>

Verify ==
  /\ job.at = "verify"
  /\ \/ Verified /\ Goto("idle")
     \/ ~Verified /\ job.way = "save" /\ (IF Empty(orig) THEN Goto("idle") ELSE Goto("checksum"))
     \/ ~Verified /\ job.way = "restore" /\ (IF Empty(backup) THEN Goto("idle") ELSE Goto("unpack"))
  /\ UNCHANGED <<files, pending, counts, cut>>

\* The shell truncates what sha256sum and gzip are to write before they run.
Checksum ==
  /\ job.at = "checksum"
  /\ state' = Blank /\ Goto("checksumming")
  /\ UNCHANGED <<orig, backup, pending, counts, cut>>

Checksummed ==
  /\ job.at = "checksumming"
  /\ state' = orig /\ Goto("pack")
  /\ UNCHANGED <<orig, backup, pending, counts, cut>>

Pack ==
  /\ job.at = "pack"
  /\ backup' = Blank /\ Goto("packing")
  /\ UNCHANGED <<orig, state, pending, counts, cut>>

Packed ==
  /\ job.at = "packing"
  /\ backup' = orig /\ Goto("idle")
  /\ UNCHANGED <<orig, state, pending, counts, cut>>

Unpack ==
  /\ job.at = "unpack"
  /\ orig' = Blank /\ Goto("unpacking")
  /\ UNCHANGED <<state, backup, pending, counts, cut>>

\* From a torn copy comes what is in it.
Unpacked ==
  /\ job.at = "unpacking"
  /\ orig' = backup /\ Goto("idle")
  /\ UNCHANGED <<state, backup, pending, counts, cut>>

-----------------------------------------------------------------------------
(* Runs cut short. *)

Counted(way) == cut' = [cut EXCEPT ![way] = @ + 1]

Remains(file) == {Blank, Torn(file.bundle, Cuts + 1)}

\* The script is killed, the machine stops, or gzip finds no room.
Killed ==
  /\ ~Idle /\ Cuts < MaxCuts
  /\ Goto("idle") /\ Counted(job.way)
  /\ \/ job.at \notin {"packing", "unpacking"} /\ UNCHANGED files
     \/ job.at = "packing" /\ backup' \in Remains(orig) /\ UNCHANGED <<orig, state>>
     \/ job.at = "unpacking" /\ orig' \in Remains(backup) /\ UNCHANGED <<state, backup>>
  /\ UNCHANGED <<pending, counts>>

\* sha256sum could not write, which nobody looks at.
NoRoom ==
  /\ job.at = "checksumming" /\ Cuts < MaxCuts
  /\ Goto("pack") /\ Counted("save")
  /\ UNCHANGED <<files, pending, counts>>

-----------------------------------------------------------------------------
(* Who runs it. *)

\* A mutant of Triggered: the script sets off its trigger whatever it is for.
TriggeredAgain ==
  /\ Idle /\ pending # {}
  /\ Run(IF "refine" \in pending THEN "restore" ELSE "save") /\ pending' = {"refine"}
  /\ UNCHANGED <<files, counts, cut>>

\* dpkg runs the script for all triggers that wait.
Triggered ==
  /\ Idle /\ pending # {}
  /\ \/ "refine" \in pending /\ Run("restore") /\ pending' = {}
     \/ "refine" \notin pending /\ Run("save") /\ pending' = {"refine"}
  /\ UNCHANGED <<files, counts, cut>>

\* k2-ca-bundle-openssl-update and -restore.
Command(way) ==
  /\ Idle /\ commands < MaxCommands
  /\ commands' = commands + 1 /\ Run(way)
  /\ UNCHANGED <<files, pending, made, drops, cut>>

\* update-ca-certificates puts a bundle in place by rename and runs the
\* hook; from a package it is triggered as well.
Make ==
  /\ Idle /\ made < MaxBundles
  /\ made' = made + 1 /\ orig' = Whole(made + 1)
  /\ \E t \in SUBSET {"watched"} : pending' = pending \cup t
  /\ \/ Run("save") /\ UNCHANGED cut
     \/ Cuts < MaxCuts /\ Counted("hook") /\ UNCHANGED job
  /\ UNCHANGED <<state, backup, drops, commands>>

\* The package that owns the bundle is removed.
Drop ==
  /\ Idle /\ drops < MaxDrops
  /\ drops' = drops + 1 /\ orig' = Blank
  /\ pending' = pending \cup {"watched"}
  /\ UNCHANGED <<state, backup, job, made, commands, cut>>

Steps ==
  \/ Verify \/ Checksum \/ Checksummed \/ Pack \/ Packed \/ Unpack \/ Unpacked
  \/ Triggered

Next ==
  \/ Steps
  \/ Killed \/ NoRoom
  \/ \E way \in Ways : Command(way)
  \/ Make \/ Drop

Spec == Init /\ [][Next]_vars

\* A run goes on, and dpkg gets round to its triggers.
FairSpec == Spec /\ WF_vars(Steps)

-----------------------------------------------------------------------------
(* Properties. *)

Content ==
  {Blank} \cup {[bundle |-> n, cut |-> k] : n \in 1 .. MaxBundles, k \in 0 .. MaxCuts}

TypeOK ==
  /\ {orig, state, backup} \subseteq Content
  /\ pending \subseteq Triggers /\ job \in [way : Ways, at : At]
  /\ made \in 0 .. MaxBundles /\ drops \in 0 .. MaxDrops /\ commands \in 0 .. MaxCommands
  /\ cut \in [Ways \cup {"hook"} -> 0 .. MaxCuts]

\* Vouched: between runs, a checksum that is right means that the copy is
\* the bundle, so that there is nothing to save
\* (debian/control.in:63, "to ensure that stored CA bundles are in sync").
Vouched == Idle /\ Verified => backup = orig

\* VouchedUnlessCut: the same, as long as no save was cut short, whatever
\* has become of restores and hooks.
VouchedUnlessCut == cut.save = 0 => Vouched

\* LatestReturns: when nothing was cut short and dpkg has no trigger left,
\* the bundle is the latest made, whoever has removed it in whatever order
\* (ca-bundle-openssl.sh, "triggered").
LatestReturns == Idle /\ Cuts = 0 /\ pending = {} /\ made > 0 => orig = Whole(made)

\* Settles: the trigger that the script sets off for itself does not keep it
\* running: at last nothing is pending.
Settles == <>[](pending = {} /\ Idle)
=============================================================================
