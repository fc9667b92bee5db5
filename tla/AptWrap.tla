------------------------------ MODULE AptWrap ------------------------------
(***************************************************************************)
(* bin/apt-wrap: packages are installed for the time of one command and    *)
(* removed after it, except what the command writes to the keep list.  A   *)
(* session is known only by the lists it took of the packages before,      *)
(* between and after; the command may be, or run, a session of its own,    *)
(* and another may be started beside it.                                   *)
(***************************************************************************)
EXTENDS Integers, FiniteSets

CONSTANTS
  Packages,
  Systems,   \* what may be installed at first, and marked manual
  Needs,     \* the packages each package depends on
  Sessions,  \* bound: runs of apt-wrap
  Wishes,    \* lists of packages apt-wrap and apt-install may be given
  Keeps,     \* lists of packages a command may want to keep
  MaxOwn,    \* bound: packages commands install themselves
  NoSession

ASSUME PackagesAssumption ==
  /\ Needs \in [Packages -> SUBSET Packages]
  /\ Wishes \subseteq SUBSET Packages /\ Keeps \subseteq SUBSET Packages
  /\ MaxOwn \in Nat
  /\ Systems \subseteq [installed : SUBSET Packages, manual : SUBSET Packages]
  /\ \A sys \in Systems :
       /\ sys.manual \subseteq sys.installed
       /\ \A p \in sys.installed : Needs[p] \subseteq sys.installed
  /\ NoSession \notin Sessions

VARIABLES
  installed,   \* dpkg: the packages installed
  manual,      \* apt: those of them not marked as automatic
  at,          \* where each session is
  by,          \* the session whose command runs this one
  deps, keep,  \* its first argument, and its keep list
  list,        \* the lists in its directory, by their names
  base,        \* history: what was installed at first
  own,         \* history: what commands installed themselves
  overlapped,  \* history: sessions were started side by side
  trouble      \* history: apt, dpkg or a session failed

dpkg == <<installed, manual>>
past == <<base, own, overlapped, trouble>>
vars == <<dpkg, at, by, deps, keep, list, past>>

InstalledLists == {"installed.0", "installed.1", "installed.2"}
ManualLists    == {"manual.0", "manual.1", "manual.2"}
Lists          == InstalledLists \cup ManualLists

Over == {"done", "failed"}

Running(s) == at[s] \notin {"idle"} \cup Over

\* No list is there yet, which is all one to an empty list.
NoLists == [l \in Lists |-> {}]

Init ==
  /\ \E sys \in Systems : installed = sys.installed /\ manual = sys.manual
  /\ base = installed
  /\ at = [s \in Sessions |-> "idle"] /\ by = [s \in Sessions |-> NoSession]
  /\ deps = [s \in Sessions |-> {}] /\ keep = [s \in Sessions |-> {}]
  /\ list = [s \in Sessions |-> NoLists]
  /\ own = {} /\ overlapped = FALSE /\ trouble = FALSE

Goto(s, where) == at' = [at EXCEPT ![s] = where]

\* rm -rf "$w"
Leave(s, how) == Goto(s, how) /\ list' = [list EXCEPT ![s] = NoLists]

-----------------------------------------------------------------------------
(* apt and dpkg. *)

Sound(some) == \A p \in some : Needs[p] \subseteq some

\* The packages given with all that they need.
With(some) ==
  {p \in Packages : \A all \in SUBSET Packages : some \subseteq all /\ Sound(all) => p \in all}

\* apt installs what is asked for with what it needs, marks what was asked
\* for, and never leaves a package without what it needs.
AptInstall(some, marks) ==
  /\ Sound(installed \cup With(some))
  /\ installed' = installed \cup With(some)
  /\ manual' = manual \cup marks

\* It fails with some of it installed, or none.
AptFails(some) ==
  /\ \E part \in SUBSET (With(some) \ installed) :
       /\ part = {} \/ Sound(installed \cup part)
       /\ installed' = installed \cup part
       /\ manual' = manual \cup (some \cap part)
  /\ trouble' = TRUE

\* apt-install -f.
AptRepairs ==
  /\ installed' = With(installed) /\ UNCHANGED manual

\* dpkg --force-all asks nobody whether the package is needed.
DpkgRemoves(some) ==
  /\ installed' = installed \ some
  /\ manual' = manual \ some

-----------------------------------------------------------------------------
(* apt-wrap --begin. *)

\* apt-wrap is run by hand, or by the command of another session.
Start(s) ==
  /\ at[s] = "idle"
  /\ \E d \in Wishes : deps' = [deps EXCEPT ![s] = d]
  /\ \/ /\ UNCHANGED by
        /\ overlapped' = (overlapped \/ \E t \in Sessions : Running(t))
     \/ /\ \E t \in Sessions :
             /\ at[t] = "command" /\ \A c \in Sessions : by[c] = t => ~Running(c)
             /\ by' = [by EXCEPT ![s] = t]
        /\ UNCHANGED overlapped
  /\ Goto(s, "installed.0")
  /\ UNCHANGED <<dpkg, keep, list, base, own, trouble>>

\* What follows each list, in --begin and in --end.
Following(s, l) ==
  CASE l = "installed.0" -> "manual.0"
    [] l = "manual.0"    -> IF deps[s] = {} THEN "command" ELSE "install"
    [] l = "installed.1" -> "manual.1"
    [] l = "manual.1"    -> "command"
    [] l = "installed.2" -> "manual.2"
    [] l = "manual.2"    -> "purge"

\* dpkg-list-installed, dpkg-list-manual.
TakeList(s) ==
  /\ at[s] \in Lists
  /\ list' = [list EXCEPT ![s] = [@ EXCEPT ![at[s]] = IF at[s] \in InstalledLists THEN installed ELSE manual]]
  /\ Goto(s, Following(s, at[s]))
  /\ UNCHANGED <<dpkg, by, deps, keep, past>>

\* With APT_WRAP_INSTALL_METHOD=satisfy the marks are apt's.
Install(s) ==
  /\ at[s] = "install"
  /\ \/ /\ \E marks \in {deps[s], {}} : AptInstall(deps[s], marks)
        /\ Goto(s, "installed.1") /\ UNCHANGED <<list, trouble>>
     \/ AptFails(deps[s]) /\ Leave(s, "failed")
  /\ UNCHANGED <<by, deps, keep, base, own, overlapped>>

-----------------------------------------------------------------------------
(* The command. *)

Commanding(s) == at[s] = "command" /\ \A c \in Sessions : by[c] = s => ~Running(c)

\* It installs something itself.
OwnInstall(s) ==
  /\ Commanding(s) /\ Cardinality(own) < MaxOwn
  /\ \E some \in Wishes : AptInstall(some, some) /\ own' = own \cup some
  /\ UNCHANGED <<at, by, deps, keep, list, base, overlapped, trouble>>

\* The keep list of a command that fails is emptied.
Return(s) ==
  /\ Commanding(s)
  /\ \E some \in Keeps : keep' = [keep EXCEPT ![s] = some]
  /\ Goto(s, "keep")
  /\ UNCHANGED <<dpkg, by, deps, list, past>>

-----------------------------------------------------------------------------
(* apt-wrap --end. *)

\* What is there to keep that was not there before.
ToKeep(s) == (keep[s] \cap installed) \ list[s]["installed.0"]

Mark(s) ==
  /\ at[s] = "keep"
  /\ list[s]["installed.0"] # {} /\ list[s]["manual.0"] # {}
  /\ keep' = [keep EXCEPT ![s] = ToKeep(s)]
  /\ manual' = manual \cup ToKeep(s)
  /\ Goto(s, "installed.2")
  /\ UNCHANGED <<installed, by, deps, list, past>>

\* The state is wrong, or apt-mark fails: all stays as it is, the directory
\* and the packages too.
WrongState(s) ==
  /\ at[s] = "keep"
  /\ list[s]["installed.0"] = {} \/ list[s]["manual.0"] = {} \/ ToKeep(s) # {}
  /\ Goto(s, "failed") /\ trouble' = TRUE
  /\ UNCHANGED <<dpkg, by, deps, keep, list, base, own, overlapped>>

\* A list, or another where it is empty.
Either(s, l, otherwise) == IF list[s][l] # {} THEN list[s][l] ELSE list[s][otherwise]

\* A mutant of Came: what was not marked before is new.
CameUnmarked(s) == Either(s, "installed.1", "installed.2") \ list[s]["manual.0"]

\* A mutant of Came: all that is there is new.
CameAll(s) == Either(s, "installed.1", "installed.2")

\* A mutant of Marked: the marks of the session's own packages count.
MarkedSince0(s) == list[s]["manual.2"] \ list[s]["manual.0"]

Came(s)   == Either(s, "installed.1", "installed.2") \ list[s]["installed.0"]
Marked(s) == list[s]["manual.2"] \ Either(s, "manual.1", "manual.0")

\* A mutant of ToRemove: what is marked by now stays.
ToRemoveAuto(s) == Came(s) \ list[s]["manual.2"]

ToRemove(s) == Came(s) \ Marked(s)

Purge(s) ==
  /\ at[s] = "purge"
  /\ \/ DpkgRemoves(ToRemove(s)) /\ Goto(s, "keep again") /\ UNCHANGED <<list, trouble>>
     \/ /\ \E part \in SUBSET (ToRemove(s) \cap installed) : DpkgRemoves(part)
        /\ Leave(s, "failed") /\ trouble' = TRUE
  /\ UNCHANGED <<by, deps, keep, base, own, overlapped>>

\* A mutant of KeepAgain: what is marked manual is taken to be there.
KeepAgainNot(s) ==
  /\ at[s] = "keep again"
  /\ Leave(s, "done")
  /\ UNCHANGED <<dpkg, by, deps, keep, past>>

\* Some of what is to be kept has just been removed.
KeepAgain(s) ==
  /\ at[s] = "keep again"
  /\ \/ keep[s] = {} /\ Leave(s, "done") /\ UNCHANGED <<dpkg, trouble>>
     \/ keep[s] # {} /\ AptInstall(keep[s], keep[s]) /\ Leave(s, "done") /\ UNCHANGED trouble
     \/ keep[s] # {} /\ AptFails(keep[s]) /\ Goto(s, "repair") /\ UNCHANGED list
  /\ UNCHANGED <<by, deps, keep, base, own, overlapped>>

Repair(s) ==
  /\ at[s] = "repair"
  /\ \/ AptRepairs /\ Leave(s, "done") /\ UNCHANGED trouble
     \/ AptFails(With(installed)) /\ Leave(s, "failed")
  /\ UNCHANGED <<by, deps, keep, base, own, overlapped>>

AllOver == \A s \in Sessions : at[s] \in Over

Ended == AllOver /\ UNCHANGED vars

Next ==
  \/ \E s \in Sessions :
       \/ Start(s) \/ TakeList(s) \/ Install(s)
       \/ OwnInstall(s) \/ Return(s)
       \/ Mark(s) \/ WrongState(s) \/ Purge(s) \/ KeepAgain(s) \/ Repair(s)
  \/ Ended

Spec == Init /\ [][Next]_vars

-----------------------------------------------------------------------------
(* Properties. *)

TypeOK ==
  /\ installed \subseteq Packages /\ manual \subseteq installed
  /\ at \in [Sessions -> {"idle", "install", "command", "keep", "purge", "keep again", "repair"} \cup Lists \cup Over]
  /\ by \in [Sessions -> Sessions \cup {NoSession}]
  /\ {deps, keep} \subseteq [Sessions -> SUBSET Packages]
  /\ list \in [Sessions -> [Lists -> SUBSET Packages]]
  /\ {base, own} \subseteq SUBSET Packages
  /\ {overlapped, trouble} \subseteq BOOLEAN

\* BaseStays: what was installed before any session is never removed,
\* however the sessions overlap and fail.
BaseStays == base \subseteq installed

\* InPlace: while a command runs, what its session installed for it is
\* there, whatever sessions the command has run, in any depth.
InPlace == \A s \in Sessions : at[s] = "command" /\ ~overlapped => With(deps[s]) \subseteq installed

\* KeptStays: what a session has kept is still there after the sessions
\* around it have removed theirs.
KeptStays ==
  \A s \in Sessions : at[s] = "done" /\ ~overlapped /\ ~trouble => keep[s] \subseteq installed

Idle == \A s \in Sessions : ~Running(s)

Inner == {s \in Sessions : by[s] # NoSession}

\* NothingLeft: what is left when all sessions are over was there, was
\* kept, was installed by a command itself, or is needed by one of these;
\* or a session inside another was asked for what the outer one had brought,
\* which marks it as manual.
NothingLeft ==
  Idle /\ ~overlapped /\ ~trouble =>
    installed \subseteq With(base \cup own \cup UNION ({keep[s] : s \in Sessions} \cup {deps[s] : s \in Inner}))

\* The sessions that a session is inside of, in any depth.
Around(s) ==
  {t \in Sessions : \A up \in SUBSET Sessions :
     (\A u \in up \cup {s} : by[u] \in up \cup {NoSession}) => t \in up}

\* The system is left to the sessions: no command installed anything, or
\* ran, in any depth, a session that kept something or was asked for what was
\* there for the command.
LeftToSessions ==
  /\ own = {}
  /\ \A s \in Inner : keep[s] = {} /\ \A t \in Around(s) : deps[s] \cap With(deps[t]) = {}

\* SoundAfter: dpkg --force-all leaves no package without what it needs,
\* as long as the system is left to the sessions.
SoundAfter == Idle /\ ~overlapped /\ ~trouble /\ LeftToSessions => Sound(installed)

\* KeptAlone: of what sessions have brought, what was kept stays, and no more
\* (apt-wrap end).
KeptAlone == KeptStays /\ NothingLeft
=============================================================================
