--------------------------- MODULE AptWrap_proofs ---------------------------
(* Proofs about AptWrap, for any packages, dependencies, lists and number    *)
(* of sessions: what holds however they overlap, and, from an invariant of   *)
(* the stack that sessions inside one another form, what holds while none is *)
(* started beside another.                                                   *)
EXTENDS AptWrap, TLAPS

-----------------------------------------------------------------------------
(* apt and dpkg. *)

LEMMA WithHolds ==
  ASSUME NEW some \in SUBSET Packages
  PROVE  some \subseteq With(some) /\ With(some) \subseteq Packages
BY DEF With

LEMMA InstallAdds ==
  ASSUME NEW some \in SUBSET Packages, NEW marks \in SUBSET some, AptInstall(some, marks),
         installed \subseteq Packages, manual \subseteq installed
  PROVE  /\ installed \subseteq installed' /\ installed' \subseteq Packages
         /\ manual' \subseteq installed'
BY WithHolds DEF AptInstall

LEMMA FailureAdds ==
  ASSUME NEW some \in SUBSET Packages, AptFails(some),
         installed \subseteq Packages, manual \subseteq installed
  PROVE  /\ installed \subseteq installed' /\ installed' \subseteq Packages
         /\ manual' \subseteq installed' /\ trouble' = TRUE
BY WithHolds DEF AptFails

LEMMA RepairAdds ==
  ASSUME AptRepairs, installed \subseteq Packages, manual \subseteq installed
  PROVE  /\ installed \subseteq installed' /\ installed' \subseteq Packages
         /\ manual' \subseteq installed'
BY WithHolds DEF AptRepairs

-----------------------------------------------------------------------------
(* Each session's first list, once it is taken, has what was there before    *)
(* any session, and no session removes what is in its first list.            *)

Before == {"idle", "installed.0"} \cup Over

Listed == \A s \in Sessions : at[s] \notin Before => base \subseteq list[s]["installed.0"]

Inv == TypeOK /\ BaseStays /\ Listed

Places == {"idle", "install", "command", "keep", "purge", "keep again", "repair"} \cup Lists \cup Over

\* A session that is over has no lists.
LEMMA Leaving ==
  ASSUME at \in [Sessions -> Places], list \in [Sessions -> [Lists -> SUBSET Packages]],
         Listed, UNCHANGED base,
         NEW s \in Sessions, NEW how \in Over, Leave(s, how)
  PROVE  /\ at' \in [Sessions -> Places] /\ list' \in [Sessions -> [Lists -> SUBSET Packages]]
         /\ Listed'
<1>1. NoLists \in [Lists -> SUBSET Packages]
  BY DEF NoLists
<1>2. /\ at' = [at EXCEPT ![s] = how] /\ list' = [list EXCEPT ![s] = NoLists]
      /\ how \in Places /\ how \in Before
  BY DEF Leave, Goto, Places, Before
<1>3. at' \in [Sessions -> Places] /\ list' \in [Sessions -> [Lists -> SUBSET Packages]]
  BY <1>1, <1>2
<1>4. ASSUME NEW t \in Sessions, at'[t] \notin Before PROVE base \subseteq list'[t]["installed.0"]
  BY <1>2, <1>4 DEF Listed
<1> QED BY <1>3, <1>4 DEF Listed

LEMMA Going ==
  ASSUME at \in [Sessions -> Places], Listed, UNCHANGED <<base, list>>,
         NEW s \in Sessions, at[s] \notin Before, NEW where \in Places, Goto(s, where)
  PROVE  at' \in [Sessions -> Places] /\ Listed'
<1>1. at' = [at EXCEPT ![s] = where]
  BY DEF Goto
<1> QED BY <1>1 DEF Listed

LEMMA InitInv == Init => Inv
<1> SUFFICES ASSUME Init PROVE Inv
  OBVIOUS
<1>1. NoLists \in [Lists -> SUBSET Packages]
  BY DEF NoLists
<1>2. /\ installed \subseteq Packages /\ manual \subseteq installed
      /\ base = installed
  BY PackagesAssumption DEF Init
<1> QED BY <1>1, <1>2 DEF Init, Inv, TypeOK, BaseStays, Listed, Before

LEMMA InvStep == Inv /\ [Next]_vars => Inv'
<1> SUFFICES ASSUME Inv, [Next]_vars PROVE Inv'
  OBVIOUS
<1> USE PackagesAssumption DEF Inv, Over
<1>t. TypeOK /\ BaseStays /\ Listed
  OBVIOUS
<1>1. ASSUME NEW s \in Sessions, Start(s) PROVE Inv'
  <2>1. PICK d \in Wishes : deps' = [deps EXCEPT ![s] = d]
    BY <1>1 DEF Start
  <2>2. overlapped' \in BOOLEAN
    <3>1. CASE overlapped' = (overlapped \/ \E t \in Sessions : Running(t))
      BY <3>1, Zenon
    <3> QED BY <1>1, <3>1 DEF Start, TypeOK
  <2>3. deps' \in [Sessions -> SUBSET Packages] /\ by' \in [Sessions -> Sessions \cup {NoSession}]
    BY <1>1, <2>1, ZenonT(60) DEF Start, TypeOK
  <2>4. at' \in [Sessions -> Places] /\ Listed'
    BY <1>1 DEF Start, Goto, TypeOK, Places, Listed, Before, Lists, InstalledLists, ManualLists
  <2> QED
    BY <1>1, <2>2, <2>3, <2>4, ZenonT(60) DEF Start, dpkg, TypeOK, Places, BaseStays
<1>2. ASSUME NEW s \in Sessions, TakeList(s) PROVE Inv'
  <2> DEFINE new == IF at[s] \in InstalledLists THEN installed ELSE manual
  <2>1. Following(s, at[s]) \in {"command", "install", "purge"} \cup Lists /\ at[s] \in Lists
    BY <1>2 DEF TakeList, Following, Lists, InstalledLists, ManualLists
  <2>2. new \in SUBSET Packages
    BY DEF TypeOK
  <2>3. list' = [list EXCEPT ![s] = [@ EXCEPT ![at[s]] = new]]
    BY <1>2 DEF TakeList
  <2>4. at' = [at EXCEPT ![s] = Following(s, at[s])] /\ UNCHANGED <<dpkg, by, deps, keep, past>>
    BY <1>2 DEF TakeList, Goto
  <2> HIDE DEF new
  <2>5. TypeOK'
    BY <2>1, <2>2, <2>3, <2>4 DEF TypeOK, dpkg, past
  <2>6. BaseStays'
    BY <2>4 DEF BaseStays, dpkg, past
  <2>7. ASSUME NEW t \in Sessions, at'[t] \notin Before PROVE base \subseteq list'[t]["installed.0"]
    <3>1. CASE t # s
      BY <3>1, <2>3, <2>4, <2>7 DEF Listed, TypeOK
    <3>2. CASE t = s /\ at[s] = "installed.0"
      BY <3>2, <2>3 DEF new, InstalledLists, Lists, TypeOK, BaseStays
    <3>3. CASE t = s /\ at[s] # "installed.0"
      BY <3>3, <2>1, <2>3, ZenonT(60) DEF Listed, Before, Lists, InstalledLists, ManualLists, TypeOK
    <3> QED BY <3>1, <3>2, <3>3
  <2> QED BY <2>4, <2>5, <2>6, <2>7 DEF Listed, past
<1>3. ASSUME NEW s \in Sessions, Install(s) PROVE Inv'
  <2>1. /\ installed \subseteq installed' /\ installed' \subseteq Packages
        /\ manual' \subseteq installed' /\ trouble' \in BOOLEAN
    BY <1>3, InstallAdds, FailureAdds DEF Install, TypeOK
  <2>2. at' \in [Sessions -> Places] /\ Listed' /\ list' \in [Sessions -> [Lists -> SUBSET Packages]]
    BY <1>3, Leaving, Going DEF Install, TypeOK, Places, Before, Lists, InstalledLists, ManualLists
  <2> QED
    BY <1>3, <2>1, <2>2 DEF Install, TypeOK, Places, BaseStays
<1>4. ASSUME NEW s \in Sessions, OwnInstall(s) PROVE Inv'
  <2>1. PICK some \in Wishes : AptInstall(some, some) /\ own' = own \cup some
    BY <1>4 DEF OwnInstall
  <2>2. /\ installed \subseteq installed' /\ installed' \subseteq Packages
        /\ manual' \subseteq installed'
    BY <2>1, InstallAdds DEF TypeOK
  <2> QED
    BY <1>4, <2>1, <2>2, ZenonT(60) DEF OwnInstall, TypeOK, BaseStays, Listed
<1>5. ASSUME NEW s \in Sessions, Return(s) PROVE Inv'
  <2>1. PICK some \in Keeps : keep' = [keep EXCEPT ![s] = some]
    BY <1>5 DEF Return
  <2>2. at' \in [Sessions -> Places] /\ Listed'
    BY <1>5, Going DEF Return, Commanding, past, TypeOK, Places, Before, Lists, InstalledLists, ManualLists
  <2> QED
    BY <1>5, <2>1, <2>2, ZenonT(60) DEF Return, dpkg, past, TypeOK, Places, BaseStays
<1>6. ASSUME NEW s \in Sessions, Mark(s) PROVE Inv'
  <2>1. ToKeep(s) \subseteq installed
    BY DEF ToKeep
  <2>2. at' \in [Sessions -> Places] /\ Listed'
    BY <1>6, Going DEF Mark, past, TypeOK, Places, Before, Lists, InstalledLists, ManualLists
  <2> QED
    <3>1. keep' = [keep EXCEPT ![s] = ToKeep(s)] /\ manual' = manual \cup ToKeep(s)
      BY <1>6 DEF Mark
    <3>2. UNCHANGED <<installed, by, deps, list, past>>
      BY <1>6 DEF Mark
    <3>3. keep' \in [Sessions -> SUBSET Packages]
      BY <2>1, <3>1 DEF TypeOK
    <3> QED BY <2>1, <2>2, <3>1, <3>2, <3>3 DEF past, TypeOK, Places, BaseStays
<1>7. ASSUME NEW s \in Sessions, WrongState(s) PROVE Inv'
  BY <1>7 DEF WrongState, Goto, dpkg, TypeOK, BaseStays, Listed, Before
<1>8. ASSUME NEW s \in Sessions, Purge(s) PROVE Inv'
  <2>1. ToRemove(s) \cap base = {}
    BY <1>8 DEF Purge, ToRemove, Came, Listed, Before
  <2>2. PICK some \in SUBSET ToRemove(s) : DpkgRemoves(some)
    BY <1>8 DEF Purge
  <2>3. /\ base \subseteq installed' /\ installed' \subseteq Packages
        /\ manual' \subseteq installed'
    BY <2>1, <2>2 DEF DpkgRemoves, TypeOK, BaseStays
  <2>4. at' \in [Sessions -> Places] /\ Listed' /\ list' \in [Sessions -> [Lists -> SUBSET Packages]]
    BY <1>8, Leaving, Going DEF Purge, TypeOK, Places, Before, Lists, InstalledLists, ManualLists
  <2> QED
    BY <1>8, <2>3, <2>4 DEF Purge, TypeOK, Places, BaseStays
<1>9. ASSUME NEW s \in Sessions, KeepAgain(s) PROVE Inv'
  <2>1. keep[s] \in SUBSET Packages
    BY DEF TypeOK
  <2>2. /\ installed \subseteq installed' /\ installed' \subseteq Packages
        /\ manual' \subseteq installed' /\ trouble' \in BOOLEAN
    BY <1>9, <2>1, InstallAdds, FailureAdds DEF KeepAgain, TypeOK, dpkg
  <2>3. at' \in [Sessions -> Places] /\ Listed' /\ list' \in [Sessions -> [Lists -> SUBSET Packages]]
    BY <1>9, Leaving, Going DEF KeepAgain, TypeOK, Places, Before, Lists, InstalledLists, ManualLists
  <2> QED
    BY <1>9, <2>2, <2>3 DEF KeepAgain, TypeOK, Places, BaseStays
<1>10. ASSUME NEW s \in Sessions, Repair(s) PROVE Inv'
  <2>1. With(installed) \in SUBSET Packages
    BY WithHolds DEF TypeOK
  <2>2. /\ installed \subseteq installed' /\ installed' \subseteq Packages
        /\ manual' \subseteq installed' /\ trouble' \in BOOLEAN
    BY <1>10, <2>1, RepairAdds, FailureAdds DEF Repair, TypeOK
  <2>3. at' \in [Sessions -> Places] /\ Listed' /\ list' \in [Sessions -> [Lists -> SUBSET Packages]]
    <3>1. Leave(s, "done") \/ Leave(s, "failed")
      BY <1>10 DEF Repair
    <3> QED BY <1>10, <3>1, Leaving DEF Repair, TypeOK, Places
  <2> QED
    BY <1>10, <2>2, <2>3 DEF Repair, TypeOK, Places, BaseStays
<1>11. ASSUME UNCHANGED vars PROVE Inv'
  BY <1>11 DEF vars, dpkg, past, TypeOK, BaseStays, Listed
<1> QED
  BY <1>1, <1>2, <1>3, <1>4, <1>5, <1>6, <1>7, <1>8, <1>9, <1>10, <1>11 DEF Next, Ended

LEMMA InvHolds == Spec => []Inv
BY InitInv, InvStep, PTL DEF Spec

\* The state of dpkg and of all sessions is well typed; apt marks nothing
\* that is not installed.
THEOREM TypeCorrect == Spec => []TypeOK
BY InvHolds, PTL DEF Inv

\* No session removes what was installed before all of them, in whatever
\* order they take their lists, install, purge and fail (bin/apt-wrap,
\* installed.diff).
THEOREM NothingOldIsRemoved == Spec => []BaseStays
BY InvHolds, PTL DEF Inv

-----------------------------------------------------------------------------
(* What a list of packages brings. *)

LEMMA WithLeast ==
  ASSUME NEW some, NEW all \in SUBSET Packages, some \subseteq all, Sound(all)
  PROVE  With(some) \subseteq all
BY DEF With

LEMMA WithGrows ==
  ASSUME NEW some, NEW more, some \subseteq more
  PROVE  With(some) \subseteq With(more)
BY DEF With

LEMMA WithNothing == With({}) = {}
BY WithLeast DEF Sound

LEMMA WithIsSound ==
  ASSUME NEW some \in SUBSET Packages
  PROVE  Sound(With(some))
<1> SUFFICES ASSUME NEW p \in With(some), NEW q \in Needs[p] PROVE q \in With(some)
  BY DEF Sound
<1>1. p \in Packages /\ q \in Packages
  BY PackagesAssumption, WithHolds
<1>2. ASSUME NEW all \in SUBSET Packages, some \subseteq all, Sound(all) PROVE q \in all
  <2>1. p \in all
    BY <1>2, WithLeast
  <2> QED BY <1>2, <2>1 DEF Sound
<1> QED BY <1>1, <1>2 DEF With

\* Nothing is brought that is not needed by, or itself, a package asked for.
LEMMA WithOnce ==
  ASSUME NEW some, NEW more \in SUBSET Packages, some \subseteq With(more)
  PROVE  With(some) \subseteq With(more)
BY WithHolds, WithIsSound, WithLeast

-----------------------------------------------------------------------------
(* Sessions that are not side by side run inside one another: the command of *)
(* each is, or has started, the next, and only the innermost one does        *)
(* anything.                                                                 *)

Stack(n, c) ==
  /\ n \in Nat /\ c \in [1 .. n -> Sessions]
  /\ \A i, j \in 1 .. n : c[i] = c[j] => i = j
  /\ \A i \in 1 .. n : Running(c[i])
  /\ \A s \in Sessions : Running(s) => \E i \in 1 .. n : c[i] = s
  /\ \A i \in 1 .. n - 1 : at[c[i]] = "command" /\ by[c[i + 1]] = c[i]

Pop(n, c)     == [i \in 1 .. n - 1 |-> c[i]]
Push(n, c, s) == [i \in 1 .. n + 1 |-> IF i = n + 1 THEN s ELSE c[i]]

LEMMA Innermost ==
  ASSUME NEW n, NEW c, Stack(n, c), NEW s \in Sessions, Running(s),
         at[s] # "command" \/ \A t \in Sessions : by[t] = s => ~Running(t)
  PROVE  n \in Nat /\ n >= 1 /\ c[n] = s /\ n \in 1 .. n
<1>1. PICK i \in 1 .. n : c[i] = s
  BY DEF Stack
<1>2. CASE i \in 1 .. n - 1
  <2>1. at[s] = "command" /\ by[c[i + 1]] = s /\ i + 1 \in 1 .. n
    BY <1>1, <1>2 DEF Stack
  <2>2. c[i + 1] \in Sessions /\ Running(c[i + 1])
    BY <2>1 DEF Stack
  <2> QED BY <2>1, <2>2
<1>3. CASE i \notin 1 .. n - 1
  <2>1. n \in Nat
    BY DEF Stack
  <2>2. i = n /\ n >= 1
    BY <1>1, <1>3, <2>1
  <2> QED BY <1>1, <2>1, <2>2
<1> QED BY <1>2, <1>3

\* What every session but the one that acts keeps.
Others(s) ==
  \A t \in Sessions \ {s} :
    at'[t] = at[t] /\ by'[t] = by[t] /\ deps'[t] = deps[t] /\ keep'[t] = keep[t] /\ list'[t] = list[t]

LEMMA GoesOn ==
  ASSUME NEW n, NEW c, Stack(n, c), n >= 1, Others(c[n]), Running(c[n])', by' = by
  PROVE  Stack(n, c)'
<1>1. n \in Nat /\ c \in [1 .. n -> Sessions] /\ n \in 1 .. n /\ c[n] \in Sessions
  BY DEF Stack
<1>2. \A t \in Sessions \ {c[n]} : Running(t)' <=> Running(t)
  BY DEF Others, Running
<1>3. \A i \in 1 .. n - 1 : c[i] \in Sessions \ {c[n]} /\ i \in 1 .. n
  BY <1>1 DEF Stack
<1>4. \A i \in 1 .. n : Running(c[i])'
  <2> SUFFICES ASSUME NEW i \in 1 .. n PROVE Running(c[i])'
    OBVIOUS
  <2> QED BY <1>1, <1>2, <1>3 DEF Stack
<1>5. \A s \in Sessions : Running(s)' => \E i \in 1 .. n : c[i] = s
  BY <1>1, <1>2 DEF Stack
<1>6. \A i \in 1 .. n - 1 : at'[c[i]] = "command" /\ by'[c[i + 1]] = c[i]
  BY <1>3 DEF Stack, Others
<1> QED BY <1>1, <1>4, <1>5, <1>6 DEF Stack

LEMMA GoesHome ==
  ASSUME NEW n, NEW c, Stack(n, c), n >= 1, Others(c[n]), ~Running(c[n])', by' = by
  PROVE  Stack(n - 1, Pop(n, c))'
<1>1. n \in Nat /\ c \in [1 .. n -> Sessions] /\ n \in 1 .. n /\ c[n] \in Sessions /\ n - 1 \in Nat
  BY DEF Stack
<1>2. \A t \in Sessions \ {c[n]} : Running(t)' <=> Running(t)
  BY DEF Others, Running
<1>3. \A i \in 1 .. n - 1 : c[i] \in Sessions \ {c[n]} /\ i \in 1 .. n /\ Pop(n, c)[i] = c[i]
  BY <1>1 DEF Stack, Pop
<1>4. Pop(n, c) \in [1 .. n - 1 -> Sessions]
  BY <1>3 DEF Pop
<1>5. \A i \in 1 .. n - 1 : Running(Pop(n, c)[i])'
  BY <1>2, <1>3 DEF Stack
<1>6. \A s \in Sessions : Running(s)' => \E i \in 1 .. n - 1 : Pop(n, c)[i] = s
  <2> SUFFICES ASSUME NEW s \in Sessions, Running(s)' PROVE \E i \in 1 .. n - 1 : Pop(n, c)[i] = s
    OBVIOUS
  <2>1. s # c[n] /\ Running(s)
    BY <1>2
  <2>2. PICK i \in 1 .. n : c[i] = s
    BY <2>1 DEF Stack
  <2>3. i \in 1 .. n - 1
    BY <1>1, <2>1, <2>2
  <2> QED BY <1>3, <2>2, <2>3
<1>7. \A i, j \in 1 .. n - 1 : Pop(n, c)[i] = Pop(n, c)[j] => i = j
  BY <1>3 DEF Stack
<1>8. \A i \in 1 .. (n - 1) - 1 : at'[Pop(n, c)[i]] = "command" /\ by'[Pop(n, c)[i + 1]] = Pop(n, c)[i]
  <2> SUFFICES ASSUME NEW i \in 1 .. (n - 1) - 1
               PROVE  at'[Pop(n, c)[i]] = "command" /\ by'[Pop(n, c)[i + 1]] = Pop(n, c)[i]
    OBVIOUS
  <2>1. i \in 1 .. n - 1 /\ i + 1 \in 1 .. n - 1
    BY <1>1
  <2> QED BY <1>3, <2>1 DEF Stack, Others
<1> QED BY <1>1, <1>4, <1>5, <1>6, <1>7, <1>8 DEF Stack

LEMMA Enters ==
  ASSUME NEW n, NEW c, Stack(n, c), NEW s \in Sessions, ~Running(s), Running(s)',
         \A t \in Sessions \ {s} : at'[t] = at[t] /\ by'[t] = by[t],
         n > 0 => at[c[n]] = "command" /\ by'[s] = c[n]
  PROVE  Stack(n + 1, Push(n, c, s))'
<1> DEFINE d == Push(n, c, s)
<1>1. n \in Nat /\ c \in [1 .. n -> Sessions] /\ n + 1 \in Nat /\ n + 1 \in 1 .. n + 1
  BY DEF Stack
<1>2. \A t \in Sessions \ {s} : Running(t)' <=> Running(t)
  BY DEF Running
<1>3. \A i \in 1 .. n : d[i] = c[i] /\ c[i] \in Sessions \ {s} /\ i \in 1 .. n + 1
  BY <1>1 DEF Stack, Push
<1>4. d[n + 1] = s
  BY <1>1 DEF Push
<1>5. \A i \in 1 .. n + 1 : i \in 1 .. n \/ i = n + 1
  BY <1>1
<1>6. d \in [1 .. n + 1 -> Sessions]
  BY <1>3, <1>4, <1>5 DEF Push
<1> HIDE DEF d
<1>7. \A i, j \in 1 .. n + 1 : d[i] = d[j] => i = j
  BY <1>3, <1>4, <1>5 DEF Stack
<1>8. \A i \in 1 .. n + 1 : Running(d[i])'
  BY <1>2, <1>3, <1>4, <1>5 DEF Stack
<1>9. \A t \in Sessions : Running(t)' => \E i \in 1 .. n + 1 : d[i] = t
  BY <1>1, <1>2, <1>3, <1>4 DEF Stack
<1>10. \A i \in 1 .. (n + 1) - 1 : at'[d[i]] = "command" /\ by'[d[i + 1]] = d[i]
  <2> SUFFICES ASSUME NEW i \in 1 .. n PROVE at'[d[i]] = "command" /\ by'[d[i + 1]] = d[i]
    BY <1>1
  <2>1. CASE i = n
    BY <1>1, <1>3, <1>4, <2>1
  <2>2. CASE i # n
    <3>1. i \in 1 .. n - 1 /\ i + 1 \in 1 .. n
      BY <1>1, <2>2
    <3> QED BY <1>3, <3>1 DEF Stack
  <2> QED BY <2>1, <2>2
<1> QED BY <1>1, <1>6, <1>7, <1>8, <1>9, <1>10 DEF Stack, d

-----------------------------------------------------------------------------
(* Each step is one of one session. *)

Acts(s) ==
  \/ TakeList(s) \/ Install(s) \/ OwnInstall(s) \/ Return(s)
  \/ Mark(s) \/ WrongState(s) \/ Purge(s) \/ KeepAgain(s) \/ Repair(s)

LEMMA ActsAlone ==
  ASSUME TypeOK, NEW s \in Sessions, Acts(s)
  PROVE  Others(s) /\ by' = by /\ deps' = deps /\ (overlapped' <=> overlapped) /\ base' = base
<1>1. /\ \A how : Goto(s, how) => \A t \in Sessions \ {s} : at'[t] = at[t]
      /\ \A how : Leave(s, how) => \A t \in Sessions \ {s} : at'[t] = at[t] /\ list'[t] = list[t]
  BY DEF Goto, Leave, TypeOK
<1>2. CASE TakeList(s)
  BY <1>1, <1>2 DEF TakeList, Others, TypeOK, dpkg, past
<1>3. CASE Install(s)
  BY <1>1, <1>3 DEF Install, Others, dpkg, past
<1>4. CASE OwnInstall(s)
  BY <1>1, <1>4 DEF OwnInstall, Others, dpkg, past
<1>5. CASE Return(s)
  BY <1>1, <1>5 DEF Return, Others, TypeOK, dpkg, past
<1>6. CASE Mark(s)
  BY <1>1, <1>6 DEF Mark, Others, TypeOK, dpkg, past
<1>7. CASE WrongState(s)
  BY <1>1, <1>7 DEF WrongState, Others, dpkg, past
<1>8. CASE Purge(s)
  BY <1>1, <1>8 DEF Purge, Others, dpkg, past
<1>9. CASE KeepAgain(s)
  BY <1>1, <1>9 DEF KeepAgain, Others, dpkg, past
<1>10. CASE Repair(s)
  BY <1>1, <1>10 DEF Repair, Others, dpkg, past
<1> QED BY <1>2, <1>3, <1>4, <1>5, <1>6, <1>7, <1>8, <1>9, <1>10 DEF Acts

\* Where a session goes, with the lists it has then.
LEMMA ActsWhere ==
  ASSUME TypeOK, NEW s \in Sessions, Acts(s)
  PROVE  \/ TakeList(s)
         \/ /\ Install(s) /\ at[s] = "install"
            /\ \/ at'[s] = "installed.1" /\ list'[s] = list[s]
               \/ at'[s] = "failed" /\ list'[s] = NoLists /\ trouble' = TRUE
         \/ OwnInstall(s) /\ at[s] = "command" /\ at'[s] = "command" /\ list'[s] = list[s]
         \/ Return(s) /\ at[s] = "command" /\ at'[s] = "keep" /\ list'[s] = list[s]
         \/ Mark(s) /\ at[s] = "keep" /\ at'[s] = "installed.2" /\ list'[s] = list[s]
         \/ WrongState(s) /\ at[s] = "keep" /\ at'[s] = "failed" /\ list'[s] = list[s] /\ trouble' = TRUE
         \/ /\ Purge(s) /\ at[s] = "purge"
            /\ \/ at'[s] = "keep again" /\ list'[s] = list[s]
               \/ at'[s] = "failed" /\ list'[s] = NoLists /\ trouble' = TRUE
         \/ /\ KeepAgain(s) /\ at[s] = "keep again"
            /\ \/ at'[s] = "done" /\ list'[s] = NoLists
               \/ at'[s] = "repair" /\ list'[s] = list[s] /\ trouble' = TRUE
         \/ Repair(s) /\ at[s] = "repair" /\ at'[s] \in Over /\ list'[s] = NoLists
<1>1. ASSUME NEW how PROVE Goto(s, how) => at'[s] = how
  BY DEF Goto, TypeOK
<1>a. ASSUME NEW how PROVE Leave(s, how) => at'[s] = how /\ list'[s] = NoLists
  BY <1>1 DEF Leave, TypeOK
<1>2. CASE TakeList(s)
  BY <1>2
<1>3. CASE Install(s)
  <2>1. at[s] = "install"
    BY <1>3 DEF Install
  <2>2. CASE Goto(s, "installed.1") /\ list' = list
    <3>1. at'[s] = "installed.1" /\ list'[s] = list[s]
      BY <1>1, <2>2
    <3> QED BY <1>3, <2>1, <3>1
  <2>3. CASE trouble' = TRUE /\ Leave(s, "failed")
    BY <1>a, <1>3, <2>1, <2>3
  <2> QED BY <1>3, <2>2, <2>3 DEF Install, AptFails
<1>4. CASE OwnInstall(s)
  BY <1>1, <1>4 DEF OwnInstall, Commanding
<1>5. CASE Return(s)
  BY <1>1, <1>5 DEF Return, Commanding
<1>6. CASE Mark(s)
  BY <1>1, <1>6 DEF Mark
<1>7. CASE WrongState(s)
  BY <1>1, <1>7 DEF WrongState
<1>8. CASE Purge(s)
  <2>1. at[s] = "purge"
    BY <1>8 DEF Purge
  <2>2. CASE Goto(s, "keep again") /\ list' = list
    <3>1. at'[s] = "keep again" /\ list'[s] = list[s]
      BY <1>1, <2>2
    <3> QED BY <1>8, <2>1, <3>1
  <2>3. CASE trouble' = TRUE /\ Leave(s, "failed")
    BY <1>a, <1>8, <2>1, <2>3
  <2> QED BY <1>8, <2>2, <2>3 DEF Purge
<1>9. CASE KeepAgain(s)
  <2>1. at[s] = "keep again"
    BY <1>9 DEF KeepAgain
  <2>2. CASE Goto(s, "repair") /\ list' = list /\ trouble' = TRUE
    BY <1>1, <1>9, <2>1, <2>2
  <2>3. CASE Leave(s, "done")
    <3>1. at'[s] = "done" /\ list'[s] = NoLists
      BY <1>a, <2>3
    <3> QED BY <1>9, <2>1, <3>1
  <2> QED BY <1>9, <2>2, <2>3 DEF KeepAgain, AptFails
<1>10. CASE Repair(s)
  BY <1>a, <1>10 DEF Repair, Over
<1> QED BY <1>2, <1>3, <1>4, <1>5, <1>6, <1>7, <1>8, <1>9, <1>10 DEF Acts

\* The six lists, each where it is taken.
LEMMA TakeWhere ==
  ASSUME TypeOK, NEW s \in Sessions, TakeList(s)
  PROVE  /\ \/ at[s] = "installed.0" /\ at'[s] = "manual.0"
            \/ at[s] = "manual.0" /\ deps[s] = {} /\ at'[s] = "command"
            \/ at[s] = "manual.0" /\ deps[s] # {} /\ at'[s] = "install"
            \/ at[s] = "installed.1" /\ at'[s] = "manual.1"
            \/ at[s] = "manual.1" /\ at'[s] = "command"
            \/ at[s] = "installed.2" /\ at'[s] = "manual.2"
            \/ at[s] = "manual.2" /\ at'[s] = "purge"
         /\ at[s] \in Lists
         /\ list'[s][at[s]] = IF at[s] \in InstalledLists THEN installed ELSE manual
         /\ \A l \in Lists : l # at[s] => list'[s][l] = list[s][l]
         /\ UNCHANGED <<installed, manual, by, deps, keep, base, own, overlapped, trouble>>
<1>1. /\ list' = [list EXCEPT ![s] = [@ EXCEPT ![at[s]] = IF at[s] \in InstalledLists THEN installed ELSE manual]]
      /\ at[s] \in Lists /\ at'[s] = Following(s, at[s])
      /\ UNCHANGED <<installed, manual, by, deps, keep, base, own, overlapped, trouble>>
  BY DEF TakeList, Goto, TypeOK, dpkg, past
<1>2. /\ at[s] = "installed.0" => Following(s, at[s]) = "manual.0"
      /\ at[s] = "manual.0" => Following(s, at[s]) = IF deps[s] = {} THEN "command" ELSE "install"
      /\ at[s] = "installed.1" => Following(s, at[s]) = "manual.1"
      /\ at[s] = "manual.1" => Following(s, at[s]) = "command"
      /\ at[s] = "installed.2" => Following(s, at[s]) = "manual.2"
      /\ at[s] = "manual.2" => Following(s, at[s]) = "purge"
  <2>1. at[s] = "installed.0" => Following(s, at[s]) = "manual.0"
    BY DEF Following
  <2>2. at[s] = "manual.0" => Following(s, at[s]) = IF deps[s] = {} THEN "command" ELSE "install"
    BY DEF Following
  <2>3. at[s] = "installed.1" => Following(s, at[s]) = "manual.1"
    BY DEF Following
  <2>4. at[s] = "manual.1" => Following(s, at[s]) = "command"
    BY DEF Following
  <2>5. at[s] = "installed.2" => Following(s, at[s]) = "manual.2"
    BY DEF Following
  <2>6. at[s] = "manual.2" => Following(s, at[s]) = "purge"
    BY DEF Following
  <2> QED BY <2>1, <2>2, <2>3, <2>4, <2>5, <2>6
<1>3. /\ list'[s][at[s]] = IF at[s] \in InstalledLists THEN installed ELSE manual
      /\ \A l \in Lists : l # at[s] => list'[s][l] = list[s][l]
  BY <1>1 DEF TypeOK
<1> QED BY <1>1, <1>2, <1>3 DEF Lists, InstalledLists, ManualLists

-----------------------------------------------------------------------------
(* A session by itself: which of its lists are there. *)

Early == {"idle", "installed.0", "manual.0", "install", "installed.1"}

Fresh(s) ==
  /\ at[s] \in {"idle", "installed.0"} => list[s] = NoLists
  /\ at[s] \in Early => list[s]["installed.1"] = {}
  /\ at[s] \in Early \cup {"manual.1"} => list[s]["manual.1"] = {}
  /\ deps[s] = {} => /\ at[s] \notin {"install", "installed.1", "manual.1"}
                     /\ list[s]["installed.1"] = {} /\ list[s]["manual.1"] = {}
  /\ at[s] = "idle" => by[s] = NoSession /\ deps[s] = {}

LEMMA FreshInit ==
  ASSUME Init PROVE \A s \in Sessions : Fresh(s)
BY DEF Init, Fresh, NoLists, Lists, InstalledLists, ManualLists

LEMMA FreshStart ==
  ASSUME TypeOK, \A s \in Sessions : Fresh(s), NEW s \in Sessions, Start(s)
  PROVE  \A t \in Sessions : Fresh(t)'
<1> SUFFICES ASSUME NEW t \in Sessions PROVE Fresh(t)'
  OBVIOUS
<1>1. list' = list /\ at' = [at EXCEPT ![s] = "installed.0"] /\ at[s] = "idle"
  BY DEF Start, Goto
<1>2. CASE t = s
  <2>1. at'[s] = "installed.0" /\ list'[s] = NoLists
    BY <1>1 DEF Fresh, TypeOK
  <2> QED BY <1>2, <2>1 DEF Fresh, NoLists, Lists, InstalledLists, ManualLists
<1>3. CASE t # s
  <2>1. PICK d \in Wishes : deps' = [deps EXCEPT ![s] = d]
    BY DEF Start
  <2>2. by' = by \/ \E u \in Sessions : by' = [by EXCEPT ![s] = u]
    BY DEF Start
  <2>3. at'[t] = at[t] /\ deps'[t] = deps[t] /\ by'[t] = by[t]
    BY <1>1, <1>3, <2>1, <2>2 DEF TypeOK
  <2> QED BY <1>1, <2>3 DEF Fresh
<1> QED BY <1>2, <1>3

LEMMA FreshActs ==
  ASSUME TypeOK, \A s \in Sessions : Fresh(s), NEW s \in Sessions, Acts(s)
  PROVE  \A t \in Sessions : Fresh(t)'
<1> SUFFICES ASSUME NEW t \in Sessions PROVE Fresh(t)'
  OBVIOUS
<1>0. Others(s) /\ by' = by /\ deps' = deps
  BY ActsAlone
<1>1. CASE t # s
  BY <1>0, <1>1 DEF Others, Fresh
<1>2. CASE t = s
  <2>1. Fresh(s)
    OBVIOUS
  <2>2. deps'[s] = deps[s] /\ by'[s] = by[s]
    BY <1>0
  <2>3. list[s] \in [Lists -> SUBSET Packages]
    BY DEF TypeOK
  <2>4. NoLists["installed.1"] = {} /\ NoLists["manual.1"] = {}
    BY DEF NoLists, Lists, InstalledLists, ManualLists
  <2>5. CASE TakeList(s)
    <3> DEFINE one == list[s]["installed.1"]
               two == list[s]["manual.1"]
    <3>1. /\ "installed.1" \in Lists /\ "manual.1" \in Lists
          /\ "installed.1" \in InstalledLists /\ "manual.1" \notin InstalledLists
      BY DEF Lists, InstalledLists, ManualLists
    <3>2. /\ at[s] # "installed.1" => list'[s]["installed.1"] = one
          /\ at[s] # "manual.1" => list'[s]["manual.1"] = two
      BY <2>5, <3>1, TakeWhere
    <3>3. /\ at'[s] \notin {"idle", "installed.0"}
          /\ at'[s] \in Early => at[s] \in {"installed.0", "manual.0"}
          /\ at'[s] = "manual.1" => at[s] = "installed.1"
          /\ at[s] \in {"installed.1", "manual.1"} => deps[s] # {}
          /\ deps[s] = {} => at'[s] \notin {"install", "installed.1", "manual.1"}
      BY <2>1, <2>5, TakeWhere DEF Fresh, Early
    <3>4. at'[s] \in Early => list'[s]["installed.1"] = {}
      BY <2>1, <3>2, <3>3 DEF Fresh, Early
    <3>5. at'[s] \in Early \cup {"manual.1"} => list'[s]["manual.1"] = {}
      BY <2>1, <3>2, <3>3 DEF Fresh, Early
    <3>6. deps[s] = {} => list'[s]["installed.1"] = {} /\ list'[s]["manual.1"] = {}
      BY <2>1, <3>2, <3>3 DEF Fresh
    <3> QED BY <1>2, <2>2, <3>3, <3>4, <3>5, <3>6 DEF Fresh
  <2>6. CASE /\ at'[s] \in {"installed.1", "command", "keep", "installed.2", "keep again", "repair"} \cup Over
             /\ list'[s] = list[s] \/ list'[s] = NoLists
             /\ at[s] \in {"install", "command", "keep", "purge", "keep again", "repair"}
             /\ at'[s] = "installed.1" => at[s] = "install"
    <3>1. at'[s] \notin {"idle", "installed.0", "install", "manual.1"}
      BY <2>6 DEF Over
    <3>2. at'[s] \in Early => at'[s] = "installed.1"
      BY <2>6 DEF Over, Early
    <3>3. at'[s] \in Early => list[s]["installed.1"] = {} /\ list[s]["manual.1"] = {} /\ deps[s] # {}
      BY <2>1, <2>6, <3>2 DEF Fresh, Early
    <3>4. CASE list'[s] = NoLists
      BY <1>2, <2>2, <2>4, <3>1, <3>2, <3>3, <3>4 DEF Fresh, Early
    <3>5. CASE list'[s] = list[s]
      BY <1>2, <2>1, <2>2, <3>1, <3>2, <3>3, <3>5 DEF Fresh, Early
    <3> QED BY <2>6, <3>4, <3>5
  <2> QED BY <1>2, <2>5, <2>6, ActsWhere DEF Over
<1> QED BY <1>1, <1>2

-----------------------------------------------------------------------------
(* What was there for a command is in the first list of every session inside *)
(* it, and a session never removes what is in its first list.                *)

Listed1 == {"manual.1", "command", "keep", "installed.2", "manual.2", "purge"}

Held(t) ==
  /\ at[t] \in {"installed.1", "manual.1", "command"} => With(deps[t]) \subseteq installed
  /\ at[t] # "installed.0" => list[t]["installed.0"] \subseteq installed
  /\ at[t] = "manual.0" => installed = list[t]["installed.0"]
  /\ at[t] \notin {"installed.0", "manual.0"} => list[t]["manual.0"] \subseteq list[t]["installed.0"]
  /\ at[t] \in Listed1 => list[t]["installed.1"] \subseteq installed
  /\ at[t] \in Listed1 /\ deps[t] # {} => list[t]["installed.1"] # {}

Within(t, s) ==
  at[s] # "installed.0" =>
    With(deps[t]) \cup list[t]["installed.0"] \cup list[t]["installed.1"] \subseteq list[s]["installed.0"]

Nested(n, c) ==
  /\ Stack(n, c)
  /\ \A i \in 1 .. n : Held(c[i])
  /\ \A i, j \in 1 .. n : i < j => Within(c[i], c[j])

LEMMA Names ==
  /\ \A l \in Lists : l \in {"installed.0", "installed.1", "installed.2", "manual.0", "manual.1", "manual.2"}
  /\ {"installed.0", "installed.1", "installed.2", "manual.0", "manual.1", "manual.2"} \subseteq Lists
  /\ {"installed.0", "installed.1", "installed.2"} \subseteq InstalledLists
  /\ \A l \in {"manual.0", "manual.1", "manual.2"} : l \notin InstalledLists
BY DEF Lists, InstalledLists, ManualLists

\* No package goes but in a purge, and there none of the first list.
LEMMA Adds ==
  ASSUME TypeOK, NEW s \in Sessions, Acts(s), ~Purge(s)
  PROVE  installed \subseteq installed' /\ manual \subseteq manual'
<1>1. installed \subseteq Packages /\ deps[s] \in SUBSET Packages /\ keep[s] \in SUBSET Packages
  BY DEF TypeOK
<1>2. ASSUME NEW some \in SUBSET Packages
      PROVE  /\ \A marks : AptInstall(some, marks) => installed \subseteq installed' /\ manual \subseteq manual'
             /\ AptFails(some) => installed \subseteq installed' /\ manual \subseteq manual'
  BY DEF AptInstall, AptFails
<1>3. CASE Install(s)
  BY <1>1, <1>2, <1>3 DEF Install
<1>4. CASE OwnInstall(s)
  BY <1>2, <1>4, PackagesAssumption DEF OwnInstall
<1>5. CASE KeepAgain(s)
  BY <1>1, <1>2, <1>5 DEF KeepAgain, dpkg
<1>6. CASE Repair(s)
  BY <1>1, <1>2, <1>6, WithHolds DEF Repair, AptRepairs
<1>7. CASE TakeList(s) \/ Return(s) \/ Mark(s) \/ WrongState(s)
  BY <1>7 DEF TakeList, Return, Mark, WrongState, dpkg
<1> QED BY <1>3, <1>4, <1>5, <1>6, <1>7 DEF Acts

LEMMA Removes ==
  ASSUME TypeOK, NEW s \in Sessions, Purge(s)
  PROVE  \E some \in SUBSET ToRemove(s) :
           /\ installed' = installed \ some /\ manual' = manual \ some
           /\ at'[s] # "failed" => some = ToRemove(s)
<1>1. \A how : Goto(s, how) => at'[s] = how
  BY DEF Goto, TypeOK
<1>2. CASE DpkgRemoves(ToRemove(s)) /\ Goto(s, "keep again")
  BY <1>2 DEF DpkgRemoves
<1>3. CASE (\E part \in SUBSET (ToRemove(s) \cap installed) : DpkgRemoves(part)) /\ Leave(s, "failed")
  BY <1>1, <1>3 DEF DpkgRemoves, Leave
<1> QED BY <1>2, <1>3 DEF Purge

LEMMA FirstStays ==
  ASSUME TypeOK, NEW s \in Sessions, Acts(s), Held(s), at[s] # "installed.0"
  PROVE  list[s]["installed.0"] \subseteq installed'
<1>1. list[s]["installed.0"] \subseteq installed
  BY DEF Held
<1>2. CASE Purge(s)
  BY <1>1, <1>2, Removes DEF ToRemove, Came
<1> QED BY <1>1, <1>2, Adds

LEMMA NoneGoes ==
  ASSUME TypeOK, NEW s \in Sessions, Acts(s), at[s] = "installed.0"
  PROVE  installed' = installed /\ manual' = manual
BY ActsWhere, TakeWhere DEF Over

LEMMA HeldAround ==
  ASSUME TypeOK, NEW s \in Sessions, Acts(s), Held(s),
         NEW t \in Sessions \ {s}, at[t] = "command", Held(t), Within(t, s)
  PROVE  Held(t)'
<1>1. at'[t] = at[t] /\ list'[t] = list[t] /\ deps'[t] = deps[t]
  BY ActsAlone DEF Others
<1>2. With(deps[t]) \cup list[t]["installed.0"] \cup list[t]["installed.1"] \subseteq installed
  BY DEF Held, Listed1
<1>3. With(deps[t]) \cup list[t]["installed.0"] \cup list[t]["installed.1"] \subseteq installed'
  <2>1. CASE at[s] = "installed.0"
    BY <1>2, <2>1, NoneGoes
  <2>2. CASE at[s] # "installed.0"
    BY <2>2, FirstStays DEF Within
  <2> QED BY <2>1, <2>2
<1>4. With(deps[t])' = With(deps[t])
  BY <1>1 DEF With
<1> QED BY <1>1, <1>3, <1>4 DEF Held

LEMMA HeldTaking ==
  ASSUME TypeOK, NEW s \in Sessions, TakeList(s), Held(s), Fresh(s)
  PROVE  Held(s)'
<1> DEFINE zero == list[s]["installed.0"]
           one  == list[s]["installed.1"]
           man  == list[s]["manual.0"]
<1>1. /\ deps'[s] = deps[s] /\ With(deps[s])' = With(deps[s])
      /\ installed' = installed /\ manual' = manual /\ manual \subseteq installed
  BY TakeWhere DEF With, TypeOK
<1>2. /\ at[s] # "installed.0" => list'[s]["installed.0"] = zero
      /\ at[s] # "installed.1" => list'[s]["installed.1"] = one
      /\ at[s] # "manual.0" => list'[s]["manual.0"] = man
      /\ at[s] = "installed.0" => list'[s]["installed.0"] = installed
      /\ at[s] = "installed.1" => list'[s]["installed.1"] = installed
      /\ at[s] = "manual.0" => list'[s]["manual.0"] = manual
  BY TakeWhere, Names
<1>3. at'[s] # "installed.0" => list'[s]["installed.0"] \subseteq installed
  BY <1>2 DEF Held
<1>4. at'[s] \in {"installed.1", "manual.1", "command"} => With(deps[s]) \subseteq installed
  BY TakeWhere, WithNothing DEF Held
<1>5. at'[s] = "manual.0" => installed = list'[s]["installed.0"]
  BY <1>2, TakeWhere
<1>6. at'[s] \notin {"installed.0", "manual.0"} => list'[s]["manual.0"] \subseteq list'[s]["installed.0"]
  <2>1. CASE at[s] = "manual.0"
    BY <1>1, <1>2, <2>1 DEF Held
  <2>2. CASE at[s] = "installed.0"
    BY <2>2, TakeWhere
  <2>3. CASE at[s] \notin {"installed.0", "manual.0"}
    BY <1>2, <2>3 DEF Held
  <2> QED BY <2>1, <2>2, <2>3
<1>7. at'[s] \in Listed1 => list'[s]["installed.1"] \subseteq installed /\ (deps[s] # {} => list'[s]["installed.1"] # {})
  <2>1. CASE at[s] = "installed.1"
    <3>1. list'[s]["installed.1"] = installed /\ With(deps[s]) \subseteq installed
      BY <1>2, <2>1 DEF Held
    <3>2. deps[s] \subseteq With(deps[s])
      BY WithHolds DEF TypeOK
    <3> QED BY <3>1, <3>2
  <2>2. CASE at[s] \in Listed1
    BY <1>2, <2>2 DEF Held, Listed1
  <2>3. CASE at[s] = "manual.0"
    <3>1. deps[s] # {} => at'[s] = "install"
      BY <2>3, TakeWhere
    <3>2. one = {}
      BY <2>3 DEF Fresh, Early
    <3> QED BY <1>2, <2>3, <3>1, <3>2 DEF Listed1
  <2>4. CASE at[s] = "installed.0"
    BY <2>4, TakeWhere DEF Listed1
  <2> QED BY <2>1, <2>2, <2>3, <2>4, TakeWhere DEF Listed1
<1> QED BY <1>1, <1>3, <1>4, <1>5, <1>6, <1>7 DEF Held

LEMMA HeldActing ==
  ASSUME TypeOK, NEW s \in Sessions, Acts(s), Held(s), Fresh(s), Running(s)'
  PROVE  Held(s)'
<1>1. deps'[s] = deps[s] /\ With(deps[s])' = With(deps[s]) /\ at'[s] \notin Over
  BY ActsAlone DEF With, Running
<1>2. CASE TakeList(s)
  BY <1>2, HeldTaking
<1>3. CASE list'[s] = list[s] /\ at[s] \in {"install", "command", "keep", "purge", "keep again"} /\ ~TakeList(s)
  <2>1. list'[s]["installed.0"] \subseteq installed' /\ list'[s]["manual.0"] \subseteq list'[s]["installed.0"]
    BY <1>3, FirstStays DEF Held
  <2>2. at'[s] \notin {"installed.0", "manual.0", "manual.1"}
    BY <1>1, <1>3, ActsWhere
  <2>3. at'[s] \in {"installed.1", "command"} => With(deps[s]) \subseteq installed'
    <3>1. CASE Install(s) /\ at'[s] = "installed.1"
      <4>1. \E marks \in {deps[s], {}} : AptInstall(deps[s], marks)
        BY <3>1 DEF Install, Leave, Goto, TypeOK
      <4> QED BY <4>1 DEF AptInstall
    <3>2. CASE OwnInstall(s)
      BY <3>2, Adds, ActsWhere DEF Held, OwnInstall, Commanding, Purge
    <3> QED BY <1>3, <3>1, <3>2, ActsWhere
  <2>4. at'[s] \in Listed1 => list[s]["installed.1"] \subseteq installed' /\ at[s] \in Listed1
    <3>1. at'[s] \in Listed1 => at[s] \in {"command", "keep"}
      BY <1>3, ActsWhere DEF Listed1
    <3>2. at[s] \in {"command", "keep"} => installed \subseteq installed'
      BY Adds DEF Purge
    <3> QED BY <3>1, <3>2 DEF Held, Listed1
  <2>5. at'[s] \in Listed1 /\ deps[s] # {} => list[s]["installed.1"] # {}
    BY <2>4 DEF Held
  <2> HIDE DEF Listed1
  <2> QED BY <1>1, <1>3, <2>1, <2>2, <2>3, <2>4, <2>5 DEF Held
<1> QED BY <1>1, <1>2, <1>3, ActsWhere DEF Over

LEMMA WithinActing ==
  ASSUME TypeOK, NEW s \in Sessions, Acts(s), Running(s)',
         NEW t \in Sessions \ {s}, at[t] = "command", Held(t), Within(t, s)
  PROVE  Within(t, s)'
<1>1. at'[t] = at[t] /\ list'[t] = list[t] /\ deps'[t] = deps[t] /\ With(deps[t])' = With(deps[t])
  BY ActsAlone DEF Others, With
<1>2. CASE at[s] = "installed.0"
  <2>1. list'[s]["installed.0"] = installed
    BY <1>2, ActsWhere, TakeWhere, Names DEF Over
  <2>2. With(deps[t]) \cup list[t]["installed.0"] \cup list[t]["installed.1"] \subseteq installed
    BY DEF Held, Listed1
  <2> QED BY <1>1, <2>1, <2>2 DEF Within
<1>3. CASE at[s] # "installed.0"
  <2>1. list'[s]["installed.0"] = list[s]["installed.0"]
    <3>1. CASE TakeList(s)
      BY <1>3, <3>1, TakeWhere, Names
    <3> QED BY <3>1, ActsWhere DEF Over, Running
  <2> QED BY <1>1, <1>3, <2>1 DEF Within
<1> QED BY <1>2, <1>3

LEMMA ActsInside ==
  ASSUME NEW s \in Sessions, Acts(s), NEW n, NEW c, Stack(n, c)
  PROVE  n \in Nat /\ n >= 1 /\ c[n] = s /\ n \in 1 .. n
<1>1. Running(s) /\ (at[s] # "command" \/ \A t \in Sessions : by[t] = s => ~Running(t))
  BY DEF Acts, Running, TakeList, Install, OwnInstall, Return, Mark, WrongState, Purge, KeepAgain,
         Repair, Commanding, Lists, InstalledLists, ManualLists, Over
<1> QED BY <1>1, Innermost

\* What is kept of the nesting when the innermost session acts, and ends.
LEMMA NestedActs ==
  ASSUME TypeOK, \A t \in Sessions : Fresh(t), NEW s \in Sessions, Acts(s), NEW n, NEW c, Nested(n, c)
  PROVE  /\ Running(s)' => Nested(n, c)'
         /\ ~Running(s)' => Nested(n - 1, Pop(n, c))'
<1>1. n \in Nat /\ n >= 1 /\ c[n] = s /\ n \in 1 .. n /\ Stack(n, c)
  BY ActsInside DEF Nested
<1>2. Others(s) /\ by' = by
  BY ActsAlone
<1>3. \A i \in 1 .. n - 1 : i \in 1 .. n /\ i < n /\ c[i] \in Sessions \ {s} /\ at[c[i]] = "command"
  BY <1>1 DEF Stack
<1>4. \A i \in 1 .. n - 1 : Held(c[i]) /\ Within(c[i], s)
  BY <1>1, <1>3 DEF Nested
<1>5. Held(s) /\ Fresh(s)
  BY <1>1 DEF Nested
<1>6. \A i \in 1 .. n - 1 : Held(c[i])'
  BY <1>3, <1>4, <1>5, HeldAround
<1>7. \A i, j \in 1 .. n - 1 : i < j => Within(c[i], c[j])'
  <2> SUFFICES ASSUME NEW i \in 1 .. n - 1, NEW j \in 1 .. n - 1, i < j PROVE Within(c[i], c[j])'
    OBVIOUS
  <2>1. Within(c[i], c[j])
    BY <1>3 DEF Nested
  <2>2. UNCHANGED <<at[c[j]], list[c[i]], list[c[j]], deps[c[i]]>>
    BY <1>2, <1>3 DEF Others
  <2>3. With(deps[c[i]])' = With(deps[c[i]])
    BY <2>2 DEF With
  <2> QED BY <2>1, <2>2, <2>3 DEF Within
<1>8. CASE Running(s)'
  <2>1. Stack(n, c)'
    BY <1>1, <1>2, <1>8, GoesOn
  <2>2. Held(s)'
    BY <1>5, <1>8, HeldActing
  <2>3. \A i \in 1 .. n - 1 : Within(c[i], s)'
    BY <1>3, <1>4, <1>8, WithinActing
  <2>4. \A i \in 1 .. n : i \in 1 .. n - 1 \/ i = n
    BY <1>1
  <2>5. \A i \in 1 .. n : Held(c[i])'
    BY <1>1, <1>6, <2>2, <2>4
  <2>6. \A i, j \in 1 .. n : i < j => Within(c[i], c[j])'
    <3> SUFFICES ASSUME NEW i \in 1 .. n, NEW j \in 1 .. n, i < j PROVE Within(c[i], c[j])'
      OBVIOUS
    <3>1. i \in 1 .. n - 1
      BY <1>1
    <3> QED BY <1>1, <1>7, <2>3, <2>4, <3>1
  <2> QED BY <1>8, <2>1, <2>5, <2>6 DEF Nested
<1>9. CASE ~Running(s)'
  <2>1. Stack(n - 1, Pop(n, c))'
    BY <1>1, <1>2, <1>9, GoesHome
  <2>2. \A i \in 1 .. n - 1 : Pop(n, c)[i] = c[i]
    BY DEF Pop
  <2>3. \A i \in 1 .. n - 1 : Held(Pop(n, c)[i])'
    BY <1>6, <2>2
  <2>4. \A i, j \in 1 .. n - 1 : i < j => Within(Pop(n, c)[i], Pop(n, c)[j])'
    BY <1>7, <2>2
  <2> QED BY <1>9, <2>1, <2>3, <2>4 DEF Nested
<1> QED BY <1>8, <1>9

\* What is kept of it when a session starts, unless it starts beside one.
LEMMA NestedStarts ==
  ASSUME TypeOK, \A t \in Sessions : Fresh(t), NEW s \in Sessions, Start(s), ~overlapped', ~overlapped,
         NEW n, NEW c, Nested(n, c)
  PROVE  /\ Nested(n + 1, Push(n, c, s))'
         /\ n > 0 => at[c[n]] = "command" /\ by'[s] = c[n] /\ c[n] \in Sessions
         /\ n = 0 => by'[s] = NoSession
<1>1. n \in Nat /\ c \in [1 .. n -> Sessions] /\ Stack(n, c)
  BY DEF Nested, Stack
<1>2. /\ at[s] = "idle" /\ at' = [at EXCEPT ![s] = "installed.0"] /\ list' = list
      /\ installed' = installed /\ manual' = manual
  BY DEF Start, Goto, dpkg
<1>3. PICK wish \in Wishes : deps' = [deps EXCEPT ![s] = wish]
  BY DEF Start
<1>4. ~Running(s) /\ Running(s)' /\ at'[s] = "installed.0"
  BY <1>2 DEF Running, TypeOK, Over
<1>5. /\ n > 0 => at[c[n]] = "command" /\ by'[s] = c[n] /\ c[n] \in Sessions
      /\ n = 0 => by'[s] = NoSession
      /\ \A t \in Sessions \ {s} : by'[t] = by[t]
  <2>1. CASE by' = by /\ ~ \E t \in Sessions : Running(t)
    <3>1. n = 0
      <4>1. n > 0 => n \in 1 .. n
        BY <1>1
      <4> QED BY <1>1, <2>1, <4>1 DEF Stack
    <3>2. by[s] = NoSession
      BY <1>2 DEF Fresh
    <3> QED BY <2>1, <3>1, <3>2
  <2>2. CASE \E t \in Sessions : /\ at[t] = "command" /\ \A u \in Sessions : by[u] = t => ~Running(u)
                                /\ by' = [by EXCEPT ![s] = t]
    <3>1. PICK t \in Sessions : /\ at[t] = "command" /\ \A u \in Sessions : by[u] = t => ~Running(u)
                               /\ by' = [by EXCEPT ![s] = t]
      BY <2>2
    <3>2. Running(t)
      BY <3>1 DEF Running, Over
    <3>3. n >= 1 /\ c[n] = t
      BY <1>1, <3>1, <3>2, Innermost
    <3>4. by'[s] = t /\ \A u \in Sessions \ {s} : by'[u] = by[u]
      BY <3>1 DEF TypeOK
    <3> QED BY <3>1, <3>3, <3>4
  <2> QED BY <2>1, <2>2 DEF Start
<1>6. \A t \in Sessions \ {s} : at'[t] = at[t] /\ deps'[t] = deps[t] /\ With(deps[t])' = With(deps[t])
  BY <1>2, <1>3 DEF TypeOK, With
<1>7. Stack(n + 1, Push(n, c, s))'
  BY <1>1, <1>4, <1>5, <1>6, Enters
<1> DEFINE d == Push(n, c, s)
<1>8. /\ \A i \in 1 .. n : d[i] = c[i] /\ c[i] \in Sessions \ {s} /\ i \in 1 .. n + 1
      /\ d[n + 1] = s /\ \A i \in 1 .. n + 1 : i \in 1 .. n \/ i = n + 1
  BY <1>1, <1>4 DEF Push, Stack
<1> HIDE DEF d
<1>9. \A i \in 1 .. n + 1 : Held(d[i])'
  <2> SUFFICES ASSUME NEW i \in 1 .. n + 1 PROVE Held(d[i])'
    OBVIOUS
  <2>1. CASE i \in 1 .. n
    <3>1. Held(c[i])
      BY <2>1 DEF Nested
    <3> QED BY <1>2, <1>6, <1>8, <2>1, <3>1 DEF Held
  <2>2. CASE i = n + 1
    BY <1>4, <1>8, <2>2 DEF Held, Listed1
  <2> QED BY <1>8, <2>1, <2>2
<1>10. \A i, j \in 1 .. n + 1 : i < j => Within(d[i], d[j])'
  <2> SUFFICES ASSUME NEW i \in 1 .. n + 1, NEW j \in 1 .. n + 1, i < j PROVE Within(d[i], d[j])'
    OBVIOUS
  <2>1. CASE j \in 1 .. n
    <3>1. i \in 1 .. n /\ Within(c[i], c[j])
      BY <1>1, <1>8, <2>1 DEF Nested
    <3> QED BY <1>2, <1>6, <1>8, <2>1, <3>1 DEF Within
  <2>2. CASE j = n + 1
    BY <1>4, <1>8, <2>2 DEF Within
  <2> QED BY <1>8, <2>1, <2>2
<1> QED BY <1>5, <1>7, <1>9, <1>10 DEF Nested, d

-----------------------------------------------------------------------------
(* What a session has kept is spared by the sessions around it: it is none   *)
(* of the packages they brought, or they find it marked since.               *)

AfterMark == {"installed.2", "manual.2", "purge", "keep again", "done"}

Spared(t, p) ==
  \/ at[t] \in {"installed.0", "keep again"}
  \/ p \in list[t]["installed.0"]
  \/ deps[t] # {} /\ at[t] \in Listed1 /\ p \notin list[t]["installed.1"]
  \/ /\ deps[t] = {} /\ p \in manual /\ p \notin list[t]["manual.0"]
     /\ at[t] \in {"command", "keep", "installed.2", "manual.2", "purge"}
     /\ at[t] = "purge" => p \in list[t]["manual.2"]

Apart(s) ==
  /\ at[s] \in AfterMark \ {"done"} => keep[s] \cap list[s]["installed.0"] = {}
  /\ at[s] # "repair"

KeptBy(n, c, s) ==
  at[s] = "done" => \A p \in keep[s] : p \in installed /\ \A i \in 1 .. n : Spared(c[i], p)

Kept(n, c) == \A s \in Sessions : Apart(s) /\ KeptBy(n, c, s)

LEMMA Untroubled ==
  ASSUME TypeOK, NEW s \in Sessions, Acts(s), trouble' = FALSE
  PROVE  /\ trouble = FALSE
         /\ at'[s] # "failed"
         /\ at'[s] # "repair" /\ (Running(s)' => at[s] # "repair")
<1>1. /\ Repair(s) => at'[s] # "failed" \/ trouble' = TRUE
      /\ trouble \in BOOLEAN
  BY DEF Repair, Leave, Goto, TypeOK, AptFails
<1>2. at'[s] # "failed" /\ at'[s] # "repair" /\ (Running(s)' => at[s] # "repair")
  BY <1>1, ActsWhere, TakeWhere DEF Running, Over
<1>3. trouble' = TRUE \/ trouble' = trouble
  BY DEF Acts, TakeList, Install, AptFails, OwnInstall, Return, Mark, WrongState, Purge,
         KeepAgain, Repair, past
<1> QED BY <1>1, <1>2, <1>3

LEMMA SparedAround ==
  ASSUME TypeOK, NEW s \in Sessions, Acts(s),
         NEW t \in Sessions \ {s}, NEW p, Spared(t, p), p \in manual => p \in manual'
  PROVE  Spared(t, p)'
BY ActsAlone DEF Others, Spared

LEMMA SparedStays ==
  ASSUME TypeOK, NEW s \in Sessions, Acts(s), Held(s), Fresh(s), NEW p, p \in installed, Spared(s, p)
  PROVE  p \in installed' /\ (p \in manual => p \in manual')
<1>1. CASE Purge(s)
  <2>1. at[s] = "purge"
    BY <1>1 DEF Purge
  <2>2. p \notin ToRemove(s)
    <3>1. CASE p \in list[s]["installed.0"]
      BY <3>1 DEF ToRemove, Came
    <3>2. CASE deps[s] # {} /\ p \notin list[s]["installed.1"]
      BY <2>1, <3>2 DEF Held, Listed1, ToRemove, Came, Either
    <3>3. CASE deps[s] = {} /\ p \notin list[s]["manual.0"] /\ p \in list[s]["manual.2"]
      BY <3>3 DEF Fresh, ToRemove, Marked, Either
    <3> QED BY <2>1, <3>1, <3>2, <3>3 DEF Spared
  <2> QED BY <1>1, <2>2, Removes
<1> QED BY <1>1, Adds

LEMMA SparedActing ==
  ASSUME TypeOK, NEW s \in Sessions, Acts(s), Running(s)', trouble' = FALSE,
         Held(s), Fresh(s), NEW p, p \in installed, Spared(s, p)
  PROVE  Spared(s, p)'
<1>1. deps'[s] = deps[s] /\ at'[s] \notin Over /\ at[s] # "repair"
  BY ActsAlone, Untroubled DEF Running
<1>2. p \in manual => p \in manual'
  BY SparedStays
<1>3. CASE TakeList(s)
  <2>1. /\ at[s] # "installed.0" => list'[s]["installed.0"] = list[s]["installed.0"]
        /\ at[s] # "installed.1" => list'[s]["installed.1"] = list[s]["installed.1"]
        /\ at[s] # "manual.0" => list'[s]["manual.0"] = list[s]["manual.0"]
        /\ at[s] # "manual.2" => list'[s]["manual.2"] = list[s]["manual.2"]
        /\ at[s] = "installed.0" => list'[s]["installed.0"] = installed
        /\ at[s] = "manual.2" => list'[s]["manual.2"] = manual
    BY <1>3, TakeWhere, Names
  <2>2. CASE at[s] = "installed.0"
    BY <2>1, <2>2 DEF Spared
  <2>3. CASE p \in list[s]["installed.0"]
    BY <2>1, <2>2, <2>3 DEF Spared
  <2>4. CASE /\ deps[s] # {} /\ at[s] \in Listed1 /\ p \notin list[s]["installed.1"]
    <3>1. at[s] # "installed.1" /\ at'[s] \in Listed1
      BY <1>3, <2>4, TakeWhere DEF Listed1
    <3> QED BY <1>1, <2>1, <2>4, <3>1 DEF Spared
  <2>5. CASE /\ deps[s] = {} /\ p \in manual /\ p \notin list[s]["manual.0"]
             /\ at[s] \in {"command", "keep", "installed.2", "manual.2", "purge"}
    <3>1. at[s] # "manual.0" /\ at'[s] \in {"manual.2", "purge"} /\ (at'[s] = "purge" => at[s] = "manual.2")
      BY <1>3, <2>5, TakeWhere
    <3> QED BY <1>1, <1>2, <2>1, <2>5, <3>1 DEF Spared
  <2> QED BY <1>3, <2>2, <2>3, <2>4, <2>5, TakeWhere DEF Spared
<1>4. CASE /\ list'[s] = list[s]
           /\ at[s] \in {"install", "command", "keep", "purge"}
           /\ at'[s] \in {"installed.1", "command", "keep", "installed.2", "keep again"}
           /\ at'[s] = "installed.1" <=> at[s] = "install"
           /\ at'[s] = "keep again" <=> at[s] = "purge"
  BY <1>1, <1>2, <1>4 DEF Spared, Listed1
<1> QED BY <1>1, <1>3, <1>4, ActsWhere, Untroubled DEF Over

\* A session that ends well has what it was to keep installed and marked.
LEMMA EndsWell ==
  ASSUME TypeOK, NEW s \in Sessions, Acts(s), Apart(s), ~Running(s)', trouble' = FALSE
  PROVE  /\ at[s] = "keep again" /\ at'[s] = "done" /\ keep'[s] = keep[s]
         /\ keep[s] \subseteq installed' /\ keep[s] \subseteq manual'
         /\ keep[s] = {} => installed' = installed /\ manual' = manual
         /\ keep[s] # {} => AptInstall(keep[s], keep[s])
         /\ own' = own
<1>1. KeepAgain(s) /\ at[s] = "keep again" /\ at'[s] = "done"
  <2>1. at'[s] \in {"done", "failed", "idle"}
    BY DEF Running, Over
  <2> QED BY <2>1, Untroubled, ActsWhere, TakeWhere DEF Apart
<1>2. keep' = keep /\ own' = own
  BY <1>1 DEF KeepAgain
<1>3. ~AptFails(keep[s])
  BY DEF AptFails
<1>4. keep[s] \in SUBSET Packages
  BY DEF TypeOK
<1>5. CASE keep[s] = {} /\ installed' = installed /\ manual' = manual
  BY <1>1, <1>2, <1>5
<1>6. CASE keep[s] # {} /\ AptInstall(keep[s], keep[s])
  BY <1>1, <1>2, <1>4, <1>6, WithHolds DEF AptInstall
<1> QED BY <1>1, <1>3, <1>5, <1>6 DEF KeepAgain, dpkg

LEMMA KeptAsIs ==
  ASSUME TypeOK, NEW s \in Sessions, Acts(s), ~Return(s), ~Mark(s)
  PROVE  keep' = keep
BY DEF Acts, TakeList, Install, OwnInstall, WrongState, Purge, KeepAgain, Repair

LEMMA ApartActs ==
  ASSUME TypeOK, NEW s \in Sessions, Acts(s), Apart(s), Fresh(s), trouble' = FALSE
  PROVE  Apart(s)'
<1>1. at'[s] # "repair"
  BY Untroubled
<1>2. ASSUME at'[s] \in AfterMark \ {"done"} PROVE keep'[s] \cap list'[s]["installed.0"] = {}
  <2>1. CASE Mark(s)
    BY <2>1, ActsWhere DEF Mark, ToKeep, TypeOK
  <2>2. CASE TakeList(s)
    <3>1. at[s] \in {"installed.2", "manual.2"}
      BY <1>2, <2>2, TakeWhere DEF AfterMark
    <3>2. keep'[s] = keep[s] /\ list'[s]["installed.0"] = list[s]["installed.0"]
      BY <2>2, <3>1, TakeWhere, Names
    <3> QED BY <3>1, <3>2 DEF Apart, AfterMark
  <2>3. CASE Purge(s) /\ at[s] = "purge" /\ list'[s] = list[s]
    <3>1. keep' = keep
      BY <2>3 DEF Purge
    <3> QED BY <2>3, <3>1 DEF Apart, AfterMark
  <2> QED BY <1>2, <2>1, <2>2, <2>3, ActsWhere, Untroubled DEF AfterMark, Over
<1> QED BY <1>1, <1>2 DEF Apart

LEMMA KeptActs ==
  ASSUME TypeOK, \A t \in Sessions : Fresh(t), NEW s \in Sessions, Acts(s), trouble' = FALSE,
         NEW n, NEW c, Nested(n, c), Kept(n, c)
  PROVE  /\ Running(s)' => Kept(n, c)'
         /\ ~Running(s)' => Kept(n - 1, Pop(n, c))'
<1>1. n \in Nat /\ n >= 1 /\ c[n] = s /\ n \in 1 .. n /\ Stack(n, c)
  BY ActsInside DEF Nested
<1>2. Others(s) /\ by' = by /\ deps' = deps
  BY ActsAlone
<1>3. \A i \in 1 .. n - 1 : i \in 1 .. n /\ c[i] \in Sessions \ {s} /\ at[c[i]] = "command" /\ Within(c[i], s)
                           /\ Held(c[i])
  BY <1>1 DEF Nested, Stack
<1>4. Held(s) /\ Fresh(s)
  BY <1>1 DEF Nested
<1>5. \A t \in Sessions : Apart(t)'
  <2> SUFFICES ASSUME NEW t \in Sessions PROVE Apart(t)'
    OBVIOUS
  <2>1. Apart(t)
    BY DEF Kept
  <2>2. CASE t = s
    BY <1>4, <2>1, <2>2, ApartActs
  <2>3. CASE t # s
    BY <1>2, <2>1, <2>3 DEF Others, Apart
  <2> QED BY <2>2, <2>3
<1>6. ASSUME NEW t \in Sessions, at[t] = "done", NEW p \in keep[t]
      PROVE  p \in installed' /\ (\A i \in 1 .. n - 1 : Spared(c[i], p)') /\ (Running(s)' => Spared(s, p)')
  <2>1. p \in installed /\ \A i \in 1 .. n : Spared(c[i], p)
    BY <1>6 DEF Kept, KeptBy
  <2>2. Spared(s, p)
    BY <1>1, <2>1
  <2>3. p \in installed' /\ (p \in manual => p \in manual')
    BY <1>4, <2>1, <2>2, SparedStays
  <2>4. \A i \in 1 .. n - 1 : Spared(c[i], p)'
    BY <1>3, <2>1, <2>3, SparedAround
  <2>5. Running(s)' => Spared(s, p)'
    BY <1>4, <2>1, <2>2, SparedActing
  <2> QED BY <2>3, <2>4, <2>5
<1>7. ASSUME NEW t \in Sessions, t # s
      PROVE  at'[t] = at[t] /\ keep'[t] = keep[t]
  BY <1>2, <1>7 DEF Others
<1>8. CASE Running(s)'
  <2>1. \A i \in 1 .. n : i \in 1 .. n - 1 \/ i = n
    BY <1>1
  <2>2. ASSUME NEW t \in Sessions PROVE KeptBy(n, c, t)'
    <3>1. CASE t = s
      BY <1>8, <3>1 DEF KeptBy, Running, Over
    <3>2. CASE t # s
      BY <1>1, <1>6, <1>7, <1>8, <2>1, <3>2 DEF KeptBy
    <3> QED BY <3>1, <3>2
  <2> QED BY <1>5, <1>8, <2>2 DEF Kept
<1>9. CASE ~Running(s)'
  <2>1. \A i \in 1 .. n - 1 : Pop(n, c)[i] = c[i]
    BY DEF Pop
  <2>2. ASSUME NEW t \in Sessions PROVE KeptBy(n - 1, Pop(n, c), t)'
    <3>1. CASE t = s
      <4>1. Apart(s)
        BY DEF Kept
      <4>2. /\ at[s] = "keep again" /\ at'[s] = "done" /\ keep'[s] = keep[s]
            /\ keep[s] \subseteq installed' /\ keep[s] \subseteq manual'
        BY <1>9, <4>1, EndsWell
      <4>3. keep[s] \cap list[s]["installed.0"] = {}
        BY <4>1, <4>2 DEF Apart, AfterMark
      <4>4. ASSUME NEW p \in keep[s], NEW i \in 1 .. n - 1 PROVE Spared(c[i], p)'
        <5> DEFINE u == c[i]
        <5>1. p \notin list[u]["installed.0"] /\ p \notin list[u]["installed.1"]
          BY <1>3, <4>2, <4>3 DEF Within
        <5>2. p \notin list[u]["manual.0"]
          BY <1>3, <5>1 DEF Held
        <5>3. at'[u] = "command" /\ list'[u] = list[u]
          BY <1>2, <1>3 DEF Others
        <5>4. p \in manual'
          BY <4>2
        <5> QED BY <1>2, <5>1, <5>2, <5>3, <5>4 DEF Spared, Listed1
      <4> QED BY <2>1, <3>1, <4>2, <4>4 DEF KeptBy
    <3>2. CASE t # s
      BY <1>6, <1>7, <2>1, <3>2 DEF KeptBy
    <3> QED BY <3>1, <3>2
  <2> QED BY <1>5, <1>9, <2>2 DEF Kept
<1> QED BY <1>8, <1>9

LEMMA KeptStarts ==
  ASSUME TypeOK, NEW s \in Sessions, Start(s), NEW n, NEW c, Stack(n, c), Kept(n, c)
  PROVE  Kept(n + 1, Push(n, c, s))'
<1>1. /\ at[s] = "idle" /\ at' = [at EXCEPT ![s] = "installed.0"] /\ list' = list /\ keep' = keep
      /\ installed' = installed /\ manual' = manual
  BY DEF Start, Goto, dpkg
<1>2. PICK d \in Wishes : deps' = [deps EXCEPT ![s] = d]
  BY DEF Start
<1>3. n \in Nat /\ c \in [1 .. n -> Sessions] /\ at'[s] = "installed.0"
  BY <1>1 DEF Stack, TypeOK
<1>4. \A i \in 1 .. n : c[i] \in Sessions \ {s}
  BY <1>1 DEF Stack, Running
<1>5. \A i \in 1 .. n + 1 : Push(n, c, s)[i] = (IF i = n + 1 THEN s ELSE c[i]) /\ (i \in 1 .. n \/ i = n + 1)
  BY <1>3 DEF Push
<1>6. \A t \in Sessions \ {s} : at'[t] = at[t] /\ deps'[t] = deps[t]
  BY <1>1, <1>2 DEF TypeOK
<1>7. ASSUME NEW t \in Sessions PROVE Apart(t)' /\ KeptBy(n + 1, Push(n, c, s), t)'
  <2>1. CASE t = s
    BY <1>3, <2>1 DEF Apart, KeptBy, AfterMark
  <2>2. CASE t # s
    <3>1. Apart(t) /\ KeptBy(n, c, t) /\ at'[t] = at[t]
      BY <1>6, <2>2 DEF Kept
    <3>2. Apart(t)'
      BY <1>1, <3>1 DEF Apart
    <3>3. ASSUME at'[t] = "done", NEW p \in keep[t], NEW i \in 1 .. n + 1 PROVE Spared(Push(n, c, s)[i], p)'
      <4>1. CASE i = n + 1
        BY <1>3, <1>5, <4>1 DEF Spared
      <4>2. CASE i \in 1 .. n
        <5>1. Push(n, c, s)[i] = c[i]
          BY <1>3, <1>5, <4>2
        <5>2. Spared(c[i], p) /\ c[i] \in Sessions \ {s}
          BY <1>4, <3>1, <3>3, <4>2 DEF KeptBy
        <5>3. at'[c[i]] = at[c[i]] /\ deps'[c[i]] = deps[c[i]]
          BY <1>6, <5>2
        <5> QED BY <1>1, <5>1, <5>2, <5>3 DEF Spared
      <4> QED BY <1>5, <4>1, <4>2
    <3> QED BY <1>1, <3>1, <3>2, <3>3 DEF KeptBy
  <2> QED BY <2>1, <2>2
<1> QED BY <1>7 DEF Kept

-----------------------------------------------------------------------------
(* Whatever is installed is due, or has been brought by the outermost session.*)

Due ==
  base \cup own \cup (UNION {keep[s] : s \in {t \in Sessions : at[t] \in AfterMark}})
       \cup UNION {deps[s] : s \in Inner}

Rooted(t) ==
  /\ deps[t] = {} \/ at[t] \in {"installed.0", "manual.0", "install", "keep again"} => installed \subseteq With(Due)
  /\ at[t] # "installed.0" => list[t]["installed.0"] \subseteq With(Due)
  /\ deps[t] # {} /\ at[t] \in Listed1 => installed \subseteq With(Due) \cup list[t]["installed.1"]
  /\ deps[t] # {} /\ at[t] \in Listed1 \ {"manual.1"} => manual \subseteq With(Due) \cup list[t]["manual.1"]
  /\ deps[t] # {} /\ at[t] = "purge" => list[t]["manual.2"] \subseteq With(Due) \cup list[t]["manual.1"]

Accounted(n, c) ==
  /\ n = 0 => installed \subseteq With(Due)
  /\ n > 0 => Rooted(c[1])

LEMMA DueTyped ==
  ASSUME TypeOK
  PROVE  Due \in SUBSET Packages
<1>1. /\ base \subseteq Packages /\ own \subseteq Packages
      /\ \A s \in Sessions : keep[s] \subseteq Packages /\ deps[s] \subseteq Packages
  BY DEF TypeOK
<1>2. Inner \subseteq Sessions
  BY DEF Inner
<1>3. (UNION {keep[s] : s \in {t \in Sessions : at[t] \in AfterMark}}) \subseteq Packages
  BY <1>1
<1>4. (UNION {deps[s] : s \in Inner}) \subseteq Packages
  BY <1>1, <1>2
<1> QED BY <1>1, <1>3, <1>4 DEF Due

LEMMA DueTypedNext == (TypeOK => Due \in SUBSET Packages)'
BY DueTyped, PTL

LEMMA DueHas ==
  /\ base \subseteq Due /\ own \subseteq Due
  /\ \A s \in Sessions : at[s] \in AfterMark => keep[s] \subseteq Due
  /\ \A s \in Inner : deps[s] \subseteq Due
<1> DEFINE kept  == UNION {keep[s] : s \in {t \in Sessions : at[t] \in AfterMark}}
           asked == UNION {deps[s] : s \in Inner}
<1>1. \A s \in Sessions : at[s] \in AfterMark => keep[s] \subseteq kept
  OBVIOUS
<1>2. \A s \in Inner : deps[s] \subseteq asked
  OBVIOUS
<1>3. Due = base \cup own \cup kept \cup asked
  BY DEF Due
<1> HIDE DEF kept, asked
<1> QED BY <1>1, <1>2, <1>3

LEMMA DueGrows ==
  ASSUME TypeOK, NEW s \in Sessions, Acts(s), trouble' = FALSE, Apart(s)
  PROVE  Due \subseteq Due'
<1>1. Others(s) /\ by' = by /\ deps' = deps /\ base' = base
  BY ActsAlone
<1>2. Inner' = Inner
  BY <1>1 DEF Inner
<1>3. own \subseteq own'
  BY DEF Acts, TakeList, Install, OwnInstall, Return, Mark, WrongState, Purge, KeepAgain, Repair, past
<1>4. ASSUME NEW t \in Sessions, at[t] \in AfterMark PROVE at'[t] \in AfterMark /\ keep'[t] = keep[t]
  <2>1. CASE t # s
    BY <1>1, <1>4, <2>1 DEF Others
  <2>2. CASE t = s
    <3>1. at[s] # "command" /\ at[s] # "keep" /\ at[s] # "install" /\ at[s] # "repair"
      BY <1>4, <2>2 DEF AfterMark
    <3>2. keep' = keep
      BY <3>1, KeptAsIs DEF Return, Commanding, Mark
    <3>3. at'[s] \in {"manual.2", "purge", "keep again", "done"}
      <4>1. CASE TakeList(s)
        BY <1>4, <2>2, <4>1, TakeWhere DEF AfterMark
      <4> QED BY <3>1, <4>1, ActsWhere, Untroubled
    <3> QED BY <2>2, <3>2, <3>3 DEF AfterMark
  <2> QED BY <2>1, <2>2
<1>5. (UNION {keep[t] : t \in {u \in Sessions : at[u] \in AfterMark}}) \subseteq
        UNION {keep'[t] : t \in {u \in Sessions : at'[u] \in AfterMark}}
  BY <1>4
<1> QED BY <1>1, <1>2, <1>3, <1>5 DEF Due

LEMMA DueStarts ==
  ASSUME TypeOK, NEW s \in Sessions, Start(s), Fresh(s)
  PROVE  Due \subseteq Due'
<1>1. /\ at[s] = "idle" /\ at' = [at EXCEPT ![s] = "installed.0"] /\ keep' = keep
      /\ base' = base /\ own' = own
  BY DEF Start, Goto
<1>2. PICK d \in Wishes : deps' = [deps EXCEPT ![s] = d]
  BY DEF Start
<1>3. by' = by \/ \E t \in Sessions : by' = [by EXCEPT ![s] = t]
  BY DEF Start
<1>4. by[s] = NoSession /\ s \notin Inner
  BY <1>1 DEF Fresh, Inner
<1>5. \A t \in Sessions \ {s} : at'[t] = at[t] /\ deps'[t] = deps[t] /\ by'[t] = by[t]
  BY <1>1, <1>2, <1>3 DEF TypeOK
<1>6. \A t \in Inner : t \in Inner' /\ deps'[t] = deps[t]
  BY <1>4, <1>5 DEF Inner
<1>7. \A t \in Sessions : at[t] \in AfterMark => at'[t] \in AfterMark
  BY <1>1, <1>5 DEF AfterMark
<1>8. (UNION {deps[t] : t \in Inner}) \subseteq UNION {deps'[t] : t \in Inner'}
  BY <1>6
<1>9. (UNION {keep[t] : t \in {u \in Sessions : at[u] \in AfterMark}}) \subseteq
        UNION {keep'[t] : t \in {u \in Sessions : at'[u] \in AfterMark}}
  BY <1>1, <1>7
<1> QED BY <1>1, <1>8, <1>9 DEF Due

\* What comes, and what is marked, is due, but for what the session itself
\* brings.
LEMMA DueComes ==
  ASSUME TypeOK, TypeOK', NEW s \in Sessions, Acts(s), trouble' = FALSE, Apart(s)
  PROVE  /\ ~Install(s) => installed' \subseteq installed \cup With(Due)' /\ manual' \subseteq manual \cup With(Due)'
         /\ Install(s) => installed' = installed \cup With(deps[s]) /\ manual' \subseteq manual \cup deps[s]
                          /\ Sound(installed')
<1>0. \A some : some \subseteq Due' => some \subseteq With(Due)' /\ With(some) \subseteq With(Due)'
  <2> SUFFICES ASSUME NEW some, some \subseteq Due' PROVE some \subseteq With(Due)' /\ With(some) \subseteq With(Due)'
    OBVIOUS
  <2>1. With(Due)' = With(Due')
    BY DEF With
  <2>2. Due' \in SUBSET Packages
    BY DueTypedNext
  <2>3. Due' \subseteq With(Due') /\ With(some) \subseteq With(Due')
    BY <2>2, WithHolds, WithGrows
  <2> QED BY <2>1, <2>3
<1>1. ASSUME NEW some PROVE ~AptFails(some)
  BY DEF AptFails
<1>2. CASE Install(s)
  <2>1. \E marks \in {deps[s], {}} : AptInstall(deps[s], marks)
    BY <1>1, <1>2 DEF Install
  <2> QED BY <1>2, <2>1 DEF AptInstall
<1>3. CASE OwnInstall(s)
  <2>1. PICK some \in Wishes : AptInstall(some, some) /\ own' = own \cup some
    BY <1>3 DEF OwnInstall
  <2>2. some \subseteq Due'
    BY <2>1 DEF Due
  <2> QED BY <1>0, <1>2, <2>1, <2>2 DEF AptInstall
<1>4. CASE Mark(s)
  <2>1. keep'[s] = ToKeep(s) /\ at'[s] \in AfterMark
    BY <1>4, ActsWhere DEF Mark, TypeOK, Goto, AfterMark
  <2>2. ToKeep(s) \subseteq Due'
    BY <2>1 DEF Due
  <2> QED BY <1>0, <1>2, <1>4, <2>2 DEF Mark
<1>5. CASE KeepAgain(s)
  <2>1. keep' = keep /\ ((keep[s] = {} /\ UNCHANGED dpkg) \/ AptInstall(keep[s], keep[s]))
    BY <1>1, <1>5 DEF KeepAgain
  <2>2. keep[s] \subseteq Due' 
    <3>1. at[s] \in AfterMark
      BY <1>5 DEF KeepAgain, AfterMark
    <3> QED BY <3>1, DueHas, DueGrows
  <2> QED BY <1>0, <1>2, <2>1, <2>2 DEF AptInstall, dpkg
<1>6. CASE Purge(s)
  BY <1>2, <1>6, Removes
<1>7. CASE TakeList(s) \/ Return(s) \/ WrongState(s)
  BY <1>2, <1>7 DEF TakeList, Return, WrongState, dpkg
<1>8. CASE Repair(s)
  BY <1>8 DEF Repair, Apart
<1> QED BY <1>2, <1>3, <1>4, <1>5, <1>6, <1>7, <1>8 DEF Acts

\* A session inside another adds what is due, and no more.
LEMMA RootedAround ==
  ASSUME NEW t \in Sessions, Rooted(t), at[t] = "command",
         UNCHANGED <<at[t], list[t], deps[t]>>,
         With(Due) \subseteq With(Due)',
         installed' \subseteq installed \cup With(Due)', manual' \subseteq manual \cup With(Due)'
  PROVE  Rooted(t)'
BY DEF Rooted, Listed1

\* The outermost session removes what it has brought, or it is due.
LEMMA PurgeLeavesDue ==
  ASSUME TypeOK, NEW s \in Sessions, Purge(s), at'[s] # "failed", Rooted(s), Held(s), Fresh(s)
  PROVE  installed' \subseteq With(Due)
<1>1. at[s] = "purge" /\ installed' = installed \ ToRemove(s)
  BY Removes DEF Purge
<1>2. CASE deps[s] = {}
  BY <1>1, <1>2 DEF Rooted
<1>3. CASE deps[s] # {}
  <2>1. Came(s) = list[s]["installed.1"] \ list[s]["installed.0"]
    BY <1>1, <1>3 DEF Came, Either, Held, Listed1
  <2>2. Marked(s) \subseteq With(Due)
    <3>1. list[s]["manual.2"] \subseteq With(Due) \cup list[s]["manual.1"]
      BY <1>1, <1>3 DEF Rooted
    <3> QED BY <3>1 DEF Marked, Either
  <2>3. installed \subseteq With(Due) \cup list[s]["installed.1"] /\ list[s]["installed.0"] \subseteq With(Due)
    BY <1>1, <1>3 DEF Rooted, Listed1
  <2> QED BY <1>1, <2>1, <2>2, <2>3 DEF ToRemove
<1> QED BY <1>2, <1>3

LEMMA RootedActing ==
  ASSUME TypeOK, NEW s \in Sessions, Acts(s), trouble' = FALSE, Running(s)', at[s] # "repair",
         Rooted(s), Held(s), Fresh(s),
         With(Due) \subseteq With(Due)',
         ~Install(s) => installed' \subseteq installed \cup With(Due)' /\ manual' \subseteq manual \cup With(Due)'
  PROVE  Rooted(s)'
<1>1. deps'[s] = deps[s] /\ at'[s] # "failed" /\ at'[s] # "repair" /\ at'[s] # "done"
  BY ActsAlone, Untroubled DEF Running, Over
<1>2. CASE TakeList(s)
  <2>1. /\ at[s] # "installed.0" => list'[s]["installed.0"] = list[s]["installed.0"]
        /\ at[s] # "installed.1" => list'[s]["installed.1"] = list[s]["installed.1"]
        /\ at[s] # "manual.1" => list'[s]["manual.1"] = list[s]["manual.1"]
        /\ at[s] = "installed.0" => list'[s]["installed.0"] = installed
        /\ at[s] = "installed.1" => list'[s]["installed.1"] = installed
        /\ at[s] = "manual.1" => list'[s]["manual.1"] = manual
        /\ at[s] = "manual.2" => list'[s]["manual.2"] = manual
        /\ at[s] # "manual.2" => list'[s]["manual.2"] = list[s]["manual.2"]
    BY <1>2, TakeWhere, Names
  <2>2. installed' = installed /\ manual' = manual
    BY <1>2, TakeWhere
  <2>3. deps[s] = {} \/ at'[s] \in {"installed.0", "manual.0", "install", "keep again"} => installed \subseteq With(Due)
    BY <1>2, TakeWhere DEF Rooted
  <2>4. list'[s]["installed.0"] \subseteq With(Due)
    BY <2>1 DEF Rooted
  <2>5. deps[s] # {} /\ at'[s] \in Listed1 => installed \subseteq With(Due) \cup list'[s]["installed.1"]
    BY <1>2, <2>1, TakeWhere DEF Rooted, Listed1
  <2>6. deps[s] # {} /\ at'[s] \in Listed1 \ {"manual.1"} => manual \subseteq With(Due) \cup list'[s]["manual.1"]
    BY <1>2, <2>1, TakeWhere DEF Rooted, Listed1
  <2>7. deps[s] # {} /\ at'[s] = "purge" => list'[s]["manual.2"] \subseteq With(Due) \cup list'[s]["manual.1"]
    BY <1>2, <2>1, TakeWhere DEF Rooted, Listed1
  <2> QED BY <1>1, <2>2, <2>3, <2>4, <2>5, <2>6, <2>7 DEF Rooted
<1>3. CASE Install(s) /\ at[s] = "install" /\ at'[s] = "installed.1" /\ list'[s] = list[s]
  <2>1. deps[s] # {}
    BY <1>3 DEF Fresh
  <2> QED BY <1>1, <1>3, <2>1 DEF Rooted, Listed1
<1>4. CASE Purge(s) /\ at[s] = "purge" /\ at'[s] = "keep again" /\ list'[s] = list[s]
  <2>1. installed' \subseteq With(Due)
    BY <1>4, PurgeLeavesDue
  <2> QED BY <1>1, <1>4, <2>1 DEF Rooted, Listed1
<1>5. CASE /\ ~Install(s) /\ list'[s] = list[s]
           /\ \/ at[s] = "command" /\ at'[s] \in {"command", "keep"}
              \/ at[s] = "keep" /\ at'[s] = "installed.2"
  BY <1>1, <1>5 DEF Rooted, Listed1
<1> QED
  <2>1. at[s] \in {"command", "keep"} => ~Install(s)
    BY DEF Install
  <2> QED BY <1>1, <1>2, <1>3, <1>4, <1>5, <2>1, ActsWhere DEF Over

LEMMA AccountedActs ==
  ASSUME TypeOK, TypeOK', \A t \in Sessions : Fresh(t), NEW s \in Sessions, Acts(s), trouble' = FALSE, Apart(s),
         NEW n, NEW c, Nested(n, c), Accounted(n, c)
  PROVE  /\ Running(s)' => Accounted(n, c)'
         /\ ~Running(s)' => Accounted(n - 1, Pop(n, c))'
<1>1. n \in Nat /\ n >= 1 /\ c[n] = s /\ n \in 1 .. n /\ Stack(n, c)
  BY ActsInside DEF Nested
<1>2. Others(s) /\ by' = by /\ deps' = deps
  BY ActsAlone
<1>3. Rooted(c[1]) /\ Held(s) /\ Fresh(s) /\ at[s] # "repair"
  BY <1>1 DEF Nested, Accounted, Apart
<1>4. With(Due) \subseteq With(Due)'
  <2>1. Due \subseteq Due' /\ With(Due)' = With(Due')
    BY DueGrows DEF With
  <2> QED BY <2>1, WithGrows
<1>5. ~Install(s) => installed' \subseteq installed \cup With(Due)' /\ manual' \subseteq manual \cup With(Due)'
  BY DueComes
<1>6. CASE n = 1
  <2>1. CASE Running(s)'
    <3>1. Rooted(s)'
      BY <1>1, <1>3, <1>4, <1>5, <1>6, <2>1, RootedActing
    <3> QED BY <1>1, <1>6, <2>1, <3>1 DEF Accounted
  <2>2. CASE ~Running(s)'
    <3>1. at[s] = "keep again"
      BY <2>2, EndsWell
    <3>2. installed \subseteq With(Due) /\ ~Install(s)
      BY <1>1, <1>3, <1>6, <3>1 DEF Rooted, Install
    <3>3. installed' \subseteq With(Due)'
      BY <1>4, <1>5, <3>2
    <3> QED BY <1>1, <1>6, <2>2, <3>3 DEF Accounted
  <2> QED BY <2>1, <2>2
<1>7. CASE n # 1
  <2>1. n - 1 \in 1 .. n - 1 /\ 1 \in 1 .. n - 1 /\ 1 \in 1 .. n /\ n > 0 /\ n - 1 > 0 /\ n - 1 \in 1 .. n
        /\ (n - 1) + 1 = n
    BY <1>1, <1>7
  <2>2. c[1] \in Sessions \ {s} /\ at[c[1]] = "command" /\ c[n - 1] \in Sessions /\ by[s] = c[n - 1]
    BY <1>1, <1>7, <2>1 DEF Stack
  <2>3. s \in Inner
    BY <2>2, PackagesAssumption DEF Inner
  <2>4. installed' \subseteq installed \cup With(Due)' /\ manual' \subseteq manual \cup With(Due)'
    <3>1. CASE Install(s)
      <4>1. installed' = installed \cup With(deps[s]) /\ manual' \subseteq manual \cup deps[s]
        BY <3>1, DueComes
      <4>2. deps[s] \subseteq Due
        BY <2>3, DueHas
      <4>3. Due \in SUBSET Packages
        BY DueTyped
      <4>4. With(deps[s]) \subseteq With(Due) /\ Due \subseteq With(Due)
        BY <4>2, <4>3, WithGrows, WithHolds
      <4> QED BY <1>4, <4>1, <4>2, <4>4
    <3> QED BY <1>5, <3>1
  <2>5. Rooted(c[1])'
    BY <1>2, <1>3, <1>4, <2>2, <2>4, RootedAround DEF Others
  <2>6. Pop(n, c)[1] = c[1]
    BY <2>1 DEF Pop
  <2> QED BY <1>1, <2>1, <2>5, <2>6 DEF Accounted
<1> QED BY <1>6, <1>7

LEMMA AccountedStarts ==
  ASSUME TypeOK, \A t \in Sessions : Fresh(t), NEW s \in Sessions, Start(s), NEW n, NEW c,
         Stack(n, c), Accounted(n, c)
  PROVE  Accounted(n + 1, Push(n, c, s))'
<1>1. /\ at[s] = "idle" /\ at' = [at EXCEPT ![s] = "installed.0"] /\ list' = list
      /\ installed' = installed /\ manual' = manual
  BY DEF Start, Goto, dpkg
<1>2. PICK d \in Wishes : deps' = [deps EXCEPT ![s] = d]
  BY DEF Start
<1>3. n \in Nat /\ at'[s] = "installed.0"
  BY <1>1 DEF Stack, TypeOK
<1>4. With(Due) \subseteq With(Due)'
  <2>1. Due \subseteq Due' /\ With(Due)' = With(Due')
    BY DueStarts DEF With
  <2> QED BY <2>1, WithGrows
<1>5. n + 1 > 0 /\ n + 1 # 0
  BY <1>3
<1>6. CASE n = 0
  <2>1. Push(n, c, s)[1] = s
    BY <1>6 DEF Push
  <2>2. Rooted(s)'
    BY <1>1, <1>3, <1>4, <1>6 DEF Accounted, Rooted, Listed1
  <2> QED BY <1>5, <2>1, <2>2 DEF Accounted
<1>7. CASE n # 0
  <2>1. 1 \in 1 .. n /\ 1 # n + 1 /\ n > 0 /\ 1 \in 1 .. n + 1
    BY <1>3, <1>7
  <2>2. Push(n, c, s)[1] = c[1] /\ c[1] \in Sessions \ {s}
    BY <1>1, <2>1 DEF Push, Stack, Running
  <2>3. Rooted(c[1])
    BY <2>1 DEF Accounted
  <2>4. at'[c[1]] = at[c[1]] /\ deps'[c[1]] = deps[c[1]]
    BY <1>1, <1>2, <2>2 DEF TypeOK
  <2>5. Rooted(c[1])'
    BY <1>1, <1>4, <2>3, <2>4 DEF Rooted
  <2> QED BY <1>5, <2>2, <2>5 DEF Accounted
<1> QED BY <1>6, <1>7

-----------------------------------------------------------------------------
(* Where the system is left to the sessions, each ends with the packages it  *)
(* has begun with: those of its first list, to which it has added what it    *)
(* was asked for.                                                            *)

LeftSoFar ==
  /\ own = {}
  /\ \A s \in Inner : /\ at[s] \in AfterMark => keep[s] = {}
                      /\ \A t \in Around(s) : deps[s] \cap With(deps[t]) = {}

\* What is there for the command.
Given(t)   == IF deps[t] = {} THEN list[t]["installed.0"] ELSE list[t]["installed.1"]
Brought(t) == With(deps[t]) \ list[t]["installed.0"]

Exactly(t) ==
  /\ at[t] = "installed.0" => Sound(installed)
  /\ at[t] # "installed.0" => Sound(list[t]["installed.0"])
  /\ at[t] \in {"manual.0", "install"} => installed = list[t]["installed.0"]
  /\ at[t] = "installed.1" => installed = list[t]["installed.0"] \cup With(deps[t]) /\ Sound(installed)
  /\ at[t] \in Listed1 /\ deps[t] # {} =>
       list[t]["installed.1"] = list[t]["installed.0"] \cup With(deps[t]) /\ Sound(list[t]["installed.1"])
  /\ at[t] \in Listed1 \ {"manual.1"} /\ deps[t] # {} =>
       manual \cap Brought(t) \subseteq list[t]["manual.1"] \cup {p \in keep[t] : at[t] \in AfterMark}
  /\ at[t] = "purge" /\ deps[t] # {} =>
       list[t]["manual.2"] \cap Brought(t) \subseteq list[t]["manual.1"] \cup keep[t]
  /\ at[t] \in {"manual.2", "purge"} => list[t]["installed.2"] = installed
  /\ at[t] = "keep again" /\ keep[t] = {} => installed = list[t]["installed.0"]

AsGiven(t) == at[t] \in Listed1 => installed = Given(t)

GivenOn(t, s) ==
  /\ at[s] = "installed.0" => installed = Given(t)
  /\ at[s] # "installed.0" => list[s]["installed.0"] = Given(t)

Restored(n, c) ==
  /\ n = 0 => Sound(installed)
  /\ \A i \in 1 .. n : Exactly(c[i])
  /\ n > 0 => AsGiven(c[n])
  /\ \A i \in 1 .. n - 1 : GivenOn(c[i], c[i + 1])

Chained(n, c) == \A i, j \in 1 .. n : i < j => c[i] \in Around(c[j])

LEMMA MarkedStay ==
  ASSUME TypeOK, NEW s \in Sessions, Acts(s), trouble' = FALSE, Apart(s), NEW t \in Sessions, at[t] \in AfterMark
  PROVE  at'[t] \in AfterMark /\ keep'[t] = keep[t]
<1>1. CASE t # s
  BY <1>1, ActsAlone DEF Others
<1>2. CASE t = s
  <2>1. at[s] # "command" /\ at[s] # "keep" /\ at[s] # "install" /\ at[s] # "repair"
    BY <1>2 DEF AfterMark
  <2>2. keep' = keep
    BY <2>1, KeptAsIs DEF Return, Commanding, Mark
  <2>3. at'[s] \in {"manual.2", "purge", "keep again", "done"}
    <3>1. CASE TakeList(s)
      BY <1>2, <3>1, TakeWhere DEF AfterMark
    <3> QED BY <2>1, <3>1, ActsWhere, Untroubled
  <2> QED BY <1>2, <2>2, <2>3 DEF AfterMark
<1> QED BY <1>1, <1>2

\* The system that is left to the sessions was left to them before.
LEMMA LeftBack ==
  ASSUME TypeOK, NEW s \in Sessions, Acts(s), trouble' = FALSE, Apart(s), LeftSoFar'
  PROVE  LeftSoFar
<1>1. by' = by /\ deps' = deps
  BY ActsAlone
<1>2. own \subseteq own'
  BY DEF Acts, TakeList, Install, OwnInstall, Return, Mark, WrongState, Purge, KeepAgain, Repair, past
<1>3. Inner' = Inner /\ \A t \in Sessions : Around(t)' = Around(t) /\ With(deps[t])' = With(deps[t])
  BY <1>1 DEF Inner, Around, With
<1>4. \A t \in Inner : t \in Sessions
  BY DEF Inner
<1>5. \A t \in Sessions : \A u \in Around(t) : u \in Sessions
  BY DEF Around
<1>6. \A t \in Inner : at[t] \in AfterMark => keep[t] = {}
  BY <1>3, <1>4, MarkedStay DEF LeftSoFar
<1>7. \A t \in Inner : \A u \in Around(t) : deps[t] \cap With(deps[u]) = {}
  <2> SUFFICES ASSUME NEW t \in Inner, NEW u \in Around(t) PROVE deps[t] \cap With(deps[u]) = {}
    OBVIOUS
  <2>1. t \in Inner' /\ u \in Around(t)' /\ u \in Sessions
    BY <1>3, <1>4, <1>5
  <2>2. deps'[t] \cap With(deps[u])' = {}
    BY <2>1 DEF LeftSoFar
  <2> QED BY <1>1, <1>3, <2>1, <2>2
<1> QED BY <1>2, <1>6, <1>7 DEF LeftSoFar

\* Nothing gets out of a session by another's start.
LEMMA AroundStarts ==
  ASSUME TypeOK, NEW s \in Sessions, Start(s), Fresh(s), NEW u \in Sessions \ {s}, NEW t \in Around(u)
  PROVE  t \in Around(u)'
<1>1. by[s] = NoSession /\ \A v \in Sessions \ {s} : by'[v] = by[v]
  <2>1. at[s] = "idle" /\ (by' = by \/ \E v \in Sessions : by' = [by EXCEPT ![s] = v])
    BY DEF Start
  <2> QED BY <2>1 DEF Fresh, TypeOK
<1>2. t \in Sessions
  BY DEF Around
<1>3. ASSUME NEW up \in SUBSET Sessions, \A v \in up \cup {u} : by'[v] \in up \cup {NoSession} PROVE t \in up
  <2>1. \A v \in up \cup {u} : by[v] \in up \cup {NoSession}
    BY <1>1, <1>3
  <2> QED BY <2>1 DEF Around
<1> QED BY <1>2, <1>3 DEF Around

LEMMA AroundNext ==
  ASSUME NEW s \in Sessions, NEW u \in Sessions, by'[s] = u
  PROVE  u \in Around(s)' /\ Around(u)' \subseteq Around(s)'
<1>1. ASSUME NEW up \in SUBSET Sessions, \A v \in up \cup {s} : by'[v] \in up \cup {NoSession}
      PROVE  u \in up /\ \A v \in up \cup {u} : by'[v] \in up \cup {NoSession}
  BY <1>1, PackagesAssumption
<1> QED BY <1>1 DEF Around

LEMMA ChainedStarts ==
  ASSUME TypeOK, NEW s \in Sessions, Start(s), Fresh(s), NEW n, NEW c, Stack(n, c), Chained(n, c),
         n > 0 => by'[s] = c[n]
  PROVE  Chained(n + 1, Push(n, c, s))'
<1>1. n \in Nat /\ \A i \in 1 .. n : c[i] \in Sessions \ {s}
  BY DEF Stack, Running, Start
<1>2. \A i \in 1 .. n + 1 : Push(n, c, s)[i] = (IF i = n + 1 THEN s ELSE c[i]) /\ (i \in 1 .. n \/ i = n + 1)
  BY <1>1 DEF Push
<1>3. \A i, j \in 1 .. n : i < j => c[i] \in Around(c[j])'
  BY <1>1, AroundStarts DEF Chained
<1>4. \A i \in 1 .. n : c[i] \in Around(s)'
  <2> SUFFICES ASSUME NEW i \in 1 .. n PROVE c[i] \in Around(s)'
    OBVIOUS
  <2>1. n > 0 /\ n \in 1 .. n /\ (i = n \/ i < n)
    BY <1>1
  <2>2. c[n] \in Around(s)' /\ Around(c[n])' \subseteq Around(s)'
    <3>1. c[n] \in Sessions /\ by'[s] = c[n]
      BY <1>1, <2>1
    <3> QED BY <3>1, AroundNext
  <2> QED BY <1>3, <2>1, <2>2
<1> QED
  <2> SUFFICES ASSUME NEW i \in 1 .. n + 1, NEW j \in 1 .. n + 1, i < j
               PROVE  Push(n, c, s)[i] \in Around(Push(n, c, s)[j])'
    BY DEF Chained
  <2>1. i \in 1 .. n /\ i # n + 1 /\ ((j \in 1 .. n /\ j # n + 1) \/ j = n + 1)
    BY <1>1
  <2> QED BY <1>2, <1>3, <1>4, <2>1

\* A command installs nothing by itself.
LEMMA NoOwn ==
  ASSUME TypeOK, NEW s \in Sessions, OwnInstall(s), own' = {}
  PROVE  installed' = installed /\ manual' = manual
<1>1. PICK some \in Wishes : AptInstall(some, some) /\ own' = own \cup some
  BY DEF OwnInstall
<1>2. some = {}
  BY <1>1
<1> QED BY <1>1, <1>2, WithNothing DEF AptInstall

LEMMA ExactlyAround ==
  ASSUME TypeOK, NEW t \in Sessions, at[t] = "command", Exactly(t),
         UNCHANGED <<at[t], list[t], deps[t], keep[t]>>,
         (manual' \ manual) \cap With(deps[t]) = {}
  PROVE  Exactly(t)'
<1>1. Brought(t)' = Brought(t) /\ With(deps[t])' = With(deps[t])
  BY DEF Brought, With
<1>2. manual' \cap Brought(t) \subseteq manual \cap Brought(t)
  BY DEF Brought
<1>3. Sound(list[t]["installed.0"])' = Sound(list[t]["installed.0"])
      /\ Sound(list[t]["installed.1"])' = Sound(list[t]["installed.1"])
  BY DEF Sound
<1> QED BY <1>1, <1>2, <1>3 DEF Exactly, AfterMark

LEMMA ExactlyTaking ==
  ASSUME TypeOK, NEW s \in Sessions, TakeList(s), Exactly(s), AsGiven(s), Fresh(s)
  PROVE  Exactly(s)' /\ AsGiven(s)'
<1> DEFINE zero == list[s]["installed.0"]
           one  == list[s]["installed.1"]
<1>1. /\ deps'[s] = deps[s] /\ keep'[s] = keep[s] /\ With(deps[s])' = With(deps[s])
      /\ installed' = installed /\ manual' = manual
  BY TakeWhere DEF With
<1>2. /\ at[s] # "installed.0" => list'[s]["installed.0"] = zero
      /\ at[s] # "installed.1" => list'[s]["installed.1"] = one
      /\ at[s] # "manual.1" => list'[s]["manual.1"] = list[s]["manual.1"]
      /\ at[s] # "installed.2" => list'[s]["installed.2"] = list[s]["installed.2"]
      /\ at[s] # "manual.2" => list'[s]["manual.2"] = list[s]["manual.2"]
      /\ at[s] = "installed.0" => list'[s]["installed.0"] = installed
      /\ at[s] = "installed.1" => list'[s]["installed.1"] = installed
      /\ at[s] = "manual.1" => list'[s]["manual.1"] = manual
      /\ at[s] = "installed.2" => list'[s]["installed.2"] = installed
      /\ at[s] = "manual.2" => list'[s]["manual.2"] = manual
  BY TakeWhere, Names
<1>3. \A some : Sound(some)' <=> Sound(some)
  BY DEF Sound
<1>4. /\ at[s] = "installed.0" => Brought(s)' = With(deps[s]) \ installed
      /\ at[s] # "installed.0" => Brought(s)' = Brought(s)
  BY <1>1, <1>2 DEF Brought
<1>5. CASE at[s] = "installed.0" /\ at'[s] = "manual.0"
  BY <1>1, <1>2, <1>3, <1>5 DEF Exactly, AsGiven, Listed1
<1>6. CASE at[s] = "manual.0" /\ deps[s] = {} /\ at'[s] = "command"
  BY <1>1, <1>2, <1>3, <1>6 DEF Exactly, AsGiven, Given, Listed1
<1>7. CASE at[s] = "manual.0" /\ at'[s] = "install"
  BY <1>1, <1>2, <1>3, <1>7 DEF Exactly, AsGiven, Listed1
<1>8. CASE at[s] = "installed.1" /\ at'[s] = "manual.1"
  <2>1. deps[s] # {}
    BY <1>8 DEF Fresh
  <2> QED BY <1>1, <1>2, <1>3, <1>8, <2>1 DEF Exactly, AsGiven, Given, Listed1
<1>9. CASE at[s] = "manual.1" /\ at'[s] = "command"
  <2>1. deps[s] # {}
    BY <1>9 DEF Fresh
  <2> QED BY <1>1, <1>2, <1>3, <1>9, <2>1 DEF Exactly, AsGiven, Given, Listed1
<1>10. CASE at[s] = "installed.2" /\ at'[s] = "manual.2"
  BY <1>1, <1>2, <1>3, <1>4, <1>10 DEF Exactly, AsGiven, Given, Listed1, AfterMark
<1>11. CASE at[s] = "manual.2" /\ at'[s] = "purge"
  BY <1>1, <1>2, <1>3, <1>4, <1>11 DEF Exactly, AsGiven, Given, Listed1, AfterMark
<1> QED BY <1>5, <1>6, <1>7, <1>8, <1>9, <1>10, <1>11, TakeWhere

LEMMA PurgeRestores ==
  ASSUME TypeOK, NEW s \in Sessions, Purge(s), at'[s] # "failed", Exactly(s), AsGiven(s), Held(s), Fresh(s),
         keep[s] = {}
  PROVE  installed' = list[s]["installed.0"]
<1> DEFINE zero == list[s]["installed.0"]
           one  == list[s]["installed.1"]
<1>1. at[s] = "purge" /\ installed' = installed \ ToRemove(s)
  BY Removes DEF Purge
<1>2. CASE deps[s] = {}
  <2>1. installed = zero /\ list[s]["installed.2"] = installed /\ one = {}
    BY <1>1, <1>2 DEF Exactly, AsGiven, Given, Listed1, Fresh
  <2>2. Came(s) = {}
    BY <2>1 DEF Came, Either
  <2> QED BY <1>1, <2>1, <2>2 DEF ToRemove
<1>3. CASE deps[s] # {}
  <2>1. installed = one /\ one = zero \cup With(deps[s]) /\ one # {}
    BY <1>1, <1>3 DEF Exactly, AsGiven, Given, Listed1, Held
  <2>2. Came(s) = one \ zero /\ Came(s) \subseteq Brought(s)
    BY <2>1 DEF Came, Either, Brought
  <2>3. list[s]["manual.2"] \cap Brought(s) \subseteq list[s]["manual.1"]
    BY <1>1, <1>3 DEF Exactly
  <2>4. Marked(s) \cap Came(s) = {}
    <3>1. CASE list[s]["manual.1"] = {}
      BY <2>2, <2>3, <3>1 DEF Marked
    <3>2. CASE list[s]["manual.1"] # {}
      BY <2>2, <2>3, <3>2 DEF Marked, Either
    <3> QED BY <3>1, <3>2
  <2>5. ToRemove(s) = one \ zero
    BY <2>2, <2>4 DEF ToRemove
  <2> QED BY <1>1, <2>1, <2>5
<1> QED BY <1>2, <1>3

LEMMA ExactlyActing ==
  ASSUME TypeOK, NEW s \in Sessions, Acts(s), trouble' = FALSE, Running(s)', at[s] # "repair", own' = {},
         Exactly(s), AsGiven(s), Held(s), Fresh(s)
  PROVE  Exactly(s)' /\ AsGiven(s)'
<1>1. deps'[s] = deps[s] /\ at'[s] # "failed" /\ at'[s] # "repair" /\ at'[s] # "done"
      /\ With(deps[s])' = With(deps[s]) /\ \A some : Sound(some)' <=> Sound(some)
  BY ActsAlone, Untroubled DEF Running, Over, With, Sound
<1>2. CASE TakeList(s)
  BY <1>2, ExactlyTaking
<1>3. CASE Install(s) /\ at[s] = "install" /\ at'[s] = "installed.1" /\ list'[s] = list[s]
  <2>1. \E marks \in {deps[s], {}} : AptInstall(deps[s], marks)
    BY <1>3 DEF Install, AptFails
  <2>2. installed' = installed \cup With(deps[s]) /\ Sound(installed')
    BY <2>1 DEF AptInstall
  <2> QED BY <1>1, <1>3, <2>2 DEF Exactly, AsGiven, Listed1
<1>4. CASE OwnInstall(s) /\ at[s] = "command" /\ at'[s] = "command" /\ list'[s] = list[s]
  <2>1. installed' = installed /\ manual' = manual /\ keep' = keep
    BY <1>4, NoOwn DEF OwnInstall
  <2>2. Brought(s)' = Brought(s)
    BY <1>1, <1>4 DEF Brought
  <2> QED BY <1>1, <1>4, <2>1, <2>2 DEF Exactly, AsGiven, Given, Listed1, AfterMark
<1>5. CASE Return(s) /\ at[s] = "command" /\ at'[s] = "keep" /\ list'[s] = list[s]
  <2>1. installed' = installed /\ manual' = manual
    BY <1>5 DEF Return, dpkg
  <2>2. Brought(s)' = Brought(s)
    BY <1>1, <1>5 DEF Brought
  <2> QED BY <1>1, <1>5, <2>1, <2>2 DEF Exactly, AsGiven, Given, Listed1, AfterMark
<1>6. CASE Mark(s) /\ at[s] = "keep" /\ at'[s] = "installed.2" /\ list'[s] = list[s]
  <2>1. installed' = installed /\ manual' = manual \cup ToKeep(s) /\ keep'[s] = ToKeep(s)
    BY <1>6 DEF Mark, TypeOK
  <2>2. Brought(s)' = Brought(s)
    BY <1>1, <1>6 DEF Brought
  <2> QED BY <1>1, <1>6, <2>1, <2>2 DEF Exactly, AsGiven, Given, Listed1, AfterMark
<1>7. CASE Purge(s) /\ at[s] = "purge" /\ at'[s] = "keep again" /\ list'[s] = list[s]
  <2>1. keep'[s] = keep[s]
    BY <1>7 DEF Purge
  <2>2. keep[s] = {} => installed' = list[s]["installed.0"]
    BY <1>7, PurgeRestores
  <2> QED BY <1>1, <1>7, <2>1, <2>2 DEF Exactly, AsGiven, Listed1
<1> QED BY <1>1, <1>2, <1>3, <1>4, <1>5, <1>6, <1>7, ActsWhere DEF Over

\* What a session inside another marks is not what the other has brought.
LEMMA NewMarks ==
  ASSUME TypeOK, NEW s \in Inner, Acts(s), trouble' = FALSE, Apart(s), LeftSoFar', NEW t \in Around(s)
  PROVE  (manual' \ manual) \cap With(deps[t]) = {}
<1>0. s \in Sessions /\ LeftSoFar
  BY LeftBack DEF Inner
<1>1. ASSUME NEW some PROVE ~AptFails(some)
  BY DEF AptFails
<1>2. s \in Inner' /\ t \in Around(s)' /\ deps' = deps /\ by' = by
  BY <1>0, ActsAlone DEF Inner, Around
<1>3. CASE Install(s)
  <2>1. manual' \subseteq manual \cup deps[s]
    BY <1>1, <1>3 DEF Install, AptInstall
  <2>2. deps[s] \cap With(deps[t]) = {}
    BY <1>0 DEF LeftSoFar
  <2> QED BY <2>1, <2>2
<1>4. CASE OwnInstall(s)
  BY <1>0, <1>4, NoOwn DEF LeftSoFar
<1>5. CASE Mark(s)
  <2>1. keep'[s] = ToKeep(s) /\ at'[s] \in AfterMark /\ manual' = manual \cup ToKeep(s)
    BY <1>0, <1>5, ActsWhere DEF Mark, TypeOK, Goto, AfterMark
  <2>2. ToKeep(s) = {}
    BY <1>2, <2>1 DEF LeftSoFar
  <2> QED BY <2>1, <2>2
<1>6. CASE KeepAgain(s)
  <2>1. keep[s] = {}
    BY <1>0, <1>6 DEF LeftSoFar, KeepAgain, AfterMark
  <2> QED BY <1>1, <1>6, <2>1 DEF KeepAgain, dpkg
<1>7. CASE Purge(s)
  BY <1>0, <1>7, Removes
<1>8. CASE TakeList(s) \/ Return(s) \/ WrongState(s)
  BY <1>8 DEF TakeList, Return, WrongState, dpkg
<1>9. CASE Repair(s)
  BY <1>9 DEF Repair, Apart
<1> QED BY <1>3, <1>4, <1>5, <1>6, <1>7, <1>8, <1>9 DEF Acts

LEMMA GivenOnActing ==
  ASSUME TypeOK, NEW s \in Sessions, Acts(s), Running(s)', NEW t \in Sessions \ {s}, GivenOn(t, s)
  PROVE  GivenOn(t, s)'
<1>1. Given(t)' = Given(t)
  BY ActsAlone DEF Others, Given
<1>2. at'[s] # "installed.0"
  BY ActsWhere, TakeWhere DEF Over
<1>3. CASE at[s] = "installed.0"
  <2>1. list'[s]["installed.0"] = installed
    BY <1>3, ActsWhere, TakeWhere, Names DEF Over
  <2> QED BY <1>1, <1>2, <1>3, <2>1 DEF GivenOn
<1>4. CASE at[s] # "installed.0"
  <2>1. list'[s]["installed.0"] = list[s]["installed.0"]
    <3>1. CASE TakeList(s)
      BY <1>4, <3>1, TakeWhere, Names
    <3> QED BY <3>1, ActsWhere DEF Over, Running
  <2> QED BY <1>1, <1>2, <1>4, <2>1 DEF GivenOn
<1> QED BY <1>3, <1>4

LEMMA RestoredActs ==
  ASSUME TypeOK, \A t \in Sessions : Fresh(t), NEW s \in Sessions, Acts(s), trouble' = FALSE, Apart(s),
         LeftSoFar', NEW n, NEW c, Nested(n, c), Chained(n, c), Restored(n, c)
  PROVE  /\ Running(s)' => Restored(n, c)'
         /\ ~Running(s)' => Restored(n - 1, Pop(n, c))'
<1>1. n \in Nat /\ n >= 1 /\ c[n] = s /\ n \in 1 .. n /\ Stack(n, c)
  BY ActsInside DEF Nested
<1>2. Others(s) /\ by' = by /\ deps' = deps
  BY ActsAlone
<1>3. LeftSoFar /\ own' = {} /\ at[s] # "repair" /\ Held(s) /\ Fresh(s) /\ Exactly(s) /\ AsGiven(s)
  <2>1. LeftSoFar
    BY LeftBack
  <2>2. own' = {}
    BY DEF LeftSoFar
  <2> QED BY <1>1, <2>1, <2>2 DEF Apart, Nested, Restored
<1>4. \A i \in 1 .. n - 1 : i \in 1 .. n /\ i + 1 \in 1 .. n /\ i < n /\ c[i] \in Sessions \ {s}
                           /\ at[c[i]] = "command" /\ c[i] \in Around(s) /\ Exactly(c[i])
                           /\ GivenOn(c[i], c[i + 1])
  BY <1>1 DEF Stack, Chained, Restored
<1>5. n > 1 => s \in Inner
  <2> SUFFICES ASSUME n > 1 PROVE s \in Inner
    OBVIOUS
  <2>1. n - 1 \in 1 .. n - 1 /\ n - 1 \in 1 .. n /\ (n - 1) + 1 = n
    BY <1>1
  <2>2. by[s] = c[n - 1] /\ c[n - 1] \in Sessions
    BY <1>1, <2>1 DEF Stack
  <2> QED BY <2>2, PackagesAssumption DEF Inner
<1>6. \A i \in 1 .. n - 1 : Exactly(c[i])'
  <2> SUFFICES ASSUME NEW i \in 1 .. n - 1 PROVE Exactly(c[i])'
    OBVIOUS
  <2>1. s \in Inner /\ c[i] \in Around(s)
    BY <1>1, <1>4, <1>5
  <2>2. (manual' \ manual) \cap With(deps[c[i]]) = {}
    BY <2>1, NewMarks
  <2>3. UNCHANGED <<at[c[i]], list[c[i]], deps[c[i]], keep[c[i]]>>
    BY <1>2, <1>4 DEF Others
  <2> QED BY <1>4, <2>2, <2>3, ExactlyAround
<1>7. \A i \in 1 .. n - 2 : GivenOn(c[i], c[i + 1])'
  <2> SUFFICES ASSUME NEW i \in 1 .. n - 2 PROVE GivenOn(c[i], c[i + 1])'
    OBVIOUS
  <2>1. i \in 1 .. n - 1 /\ i + 1 \in 1 .. n - 1
    BY <1>1
  <2>2. UNCHANGED <<list[c[i]], deps[c[i]], at[c[i + 1]], list[c[i + 1]]>> /\ at[c[i + 1]] = "command"
    BY <1>2, <1>4, <2>1 DEF Others
  <2> QED BY <1>4, <2>1, <2>2 DEF GivenOn, Given
<1>8. CASE Running(s)'
  <2>1. Exactly(s)' /\ AsGiven(s)'
    BY <1>3, <1>8, ExactlyActing
  <2>2. \A i \in 1 .. n : i \in 1 .. n - 1 \/ i = n
    BY <1>1
  <2>3. \A i \in 1 .. n : Exactly(c[i])'
    BY <1>1, <1>6, <2>1, <2>2
  <2>4. \A i \in 1 .. n - 1 : GivenOn(c[i], c[i + 1])'
    <3> SUFFICES ASSUME NEW i \in 1 .. n - 1 PROVE GivenOn(c[i], c[i + 1])'
      OBVIOUS
    <3>1. CASE i \in 1 .. n - 2
      BY <1>7, <3>1
    <3>2. CASE i \notin 1 .. n - 2
      <4>1. i + 1 = n
        BY <1>1, <3>2
      <4>2. GivenOn(c[i], s) /\ c[i] \in Sessions \ {s}
        BY <1>1, <1>4, <4>1
      <4> QED BY <1>1, <1>8, <4>1, <4>2, GivenOnActing
    <3> QED BY <3>1, <3>2
  <2> QED BY <1>1, <1>8, <2>1, <2>3, <2>4 DEF Restored
<1>9. CASE ~Running(s)'
  <2>1. /\ at[s] = "keep again" 
        /\ keep[s] = {} => installed' = installed /\ manual' = manual
        /\ keep[s] # {} => AptInstall(keep[s], keep[s])
    BY <1>9, EndsWell
  <2>2. keep[s] = {} => installed' = list[s]["installed.0"]
    BY <1>3, <2>1 DEF Exactly
  <2>3. Sound(list[s]["installed.0"])
    BY <1>3, <2>1 DEF Exactly
  <2>4. \A i \in 1 .. n - 1 : Pop(n, c)[i] = c[i]
    BY DEF Pop
  <2>5. n - 1 = 0 => Sound(installed)'
    <3>1. CASE keep[s] = {}
      BY <2>2, <2>3, <3>1 DEF Sound
    <3>2. CASE keep[s] # {}
      BY <2>1, <3>2 DEF AptInstall, Sound
    <3> QED BY <3>1, <3>2
  <2>6. n - 1 > 0 => AsGiven(c[n - 1])'
    <3> SUFFICES ASSUME n - 1 > 0 PROVE AsGiven(c[n - 1])'
      OBVIOUS
    <3>1. n - 1 \in 1 .. n - 1 /\ (n - 1) + 1 = n /\ n > 1
      BY <1>1
    <3>2. keep[s] = {}
      BY <1>3, <1>5, <2>1, <3>1 DEF LeftSoFar, AfterMark
    <3>3. GivenOn(c[n - 1], s) /\ c[n - 1] \in Sessions \ {s}
      BY <1>1, <1>4, <3>1
    <3>4. installed' = Given(c[n - 1])
      <4>1. at[s] # "installed.0"
        BY <2>1
      <4>2. list[s]["installed.0"] = Given(c[n - 1])
        BY <3>3, <4>1 DEF GivenOn
      <4> QED BY <2>2, <3>2, <4>2
    <3>5. Given(c[n - 1])' = Given(c[n - 1])
      BY <1>2, <3>3 DEF Others, Given
    <3> QED BY <3>4, <3>5 DEF AsGiven
  <2>7. \A i \in 1 .. n - 1 : Exactly(Pop(n, c)[i])'
    BY <1>6, <2>4
  <2>8. \A i \in 1 .. (n - 1) - 1 : GivenOn(Pop(n, c)[i], Pop(n, c)[i + 1])'
    <3> SUFFICES ASSUME NEW i \in 1 .. (n - 1) - 1 PROVE GivenOn(Pop(n, c)[i], Pop(n, c)[i + 1])'
      OBVIOUS
    <3>1. i \in 1 .. n - 2 /\ i \in 1 .. n - 1 /\ i + 1 \in 1 .. n - 1
      BY <1>1
    <3> QED BY <1>7, <2>4, <3>1
  <2>9. n - 1 > 0 => AsGiven(Pop(n, c)[n - 1])'
    <3> SUFFICES ASSUME n - 1 > 0 PROVE AsGiven(Pop(n, c)[n - 1])'
      OBVIOUS
    <3>1. n - 1 \in 1 .. n - 1
      BY <1>1
    <3> QED BY <2>4, <2>6, <3>1
  <2> QED BY <1>9, <2>5, <2>7, <2>8, <2>9 DEF Restored
<1> QED BY <1>8, <1>9

LEMMA ChainedActs ==
  ASSUME TypeOK, NEW s \in Sessions, Acts(s), NEW n \in Nat, NEW c, Chained(n, c)
  PROVE  Chained(n, c)' /\ Chained(n - 1, Pop(n, c))'
<1>1. \A t : Around(t)' = Around(t)
  BY ActsAlone DEF Around
<1>2. \A i \in 1 .. n - 1 : Pop(n, c)[i] = c[i] /\ i \in 1 .. n
  BY DEF Pop
<1> QED BY <1>1, <1>2 DEF Chained

LEMMA LeftBackStarts ==
  ASSUME TypeOK, NEW s \in Sessions, Start(s), Fresh(s), LeftSoFar'
  PROVE  LeftSoFar
<1>1. /\ at[s] = "idle" /\ at' = [at EXCEPT ![s] = "installed.0"] /\ keep' = keep /\ own' = own
  BY DEF Start, Goto
<1>2. PICK d \in Wishes : deps' = [deps EXCEPT ![s] = d]
  BY DEF Start
<1>3. by' = by \/ \E v \in Sessions : by' = [by EXCEPT ![s] = v]
  BY DEF Start
<1>4. by[s] = NoSession /\ deps[s] = {} /\ s \notin Inner
  BY <1>1 DEF Fresh, Inner
<1>5. \A t \in Sessions \ {s} : at'[t] = at[t] /\ deps'[t] = deps[t] /\ by'[t] = by[t]
  BY <1>1, <1>2, <1>3 DEF TypeOK
<1>6. ASSUME NEW t \in Inner
      PROVE  /\ at[t] \in AfterMark => keep[t] = {}
             /\ \A u \in Around(t) : deps[t] \cap With(deps[u]) = {}
  <2>1. t \in Sessions \ {s} /\ t \in Inner' /\ at'[t] = at[t] /\ deps'[t] = deps[t]
    BY <1>4, <1>5 DEF Inner
  <2>2. at[t] \in AfterMark => keep[t] = {}
    BY <1>1, <2>1 DEF LeftSoFar
  <2>3. ASSUME NEW u \in Around(t) PROVE deps[t] \cap With(deps[u]) = {}
    <3>1. u \in Around(t)' /\ u \in Sessions
      BY <2>1, AroundStarts DEF Around
    <3>2. deps'[t] \cap With(deps[u])' = {}
      BY <2>1, <3>1 DEF LeftSoFar
    <3>3. CASE u = s
      BY <1>4, <3>3, WithNothing
    <3>4. CASE u # s
      <4>1. deps'[u] = deps[u]
        BY <1>5, <3>1, <3>4
      <4>2. With(deps[u])' = With(deps[u])
        BY <4>1 DEF With
      <4> QED BY <2>1, <3>2, <4>2
    <3> QED BY <3>3, <3>4
  <2> QED BY <2>2, <2>3
<1>7. own = {}
  BY <1>1 DEF LeftSoFar
<1> QED BY <1>6, <1>7 DEF LeftSoFar

LEMMA RestoredStarts ==
  ASSUME TypeOK, NEW s \in Sessions, Start(s), NEW n, NEW c, Stack(n, c), Restored(n, c),
         n > 0 => at[c[n]] = "command"
  PROVE  Restored(n + 1, Push(n, c, s))'
<1>1. /\ at[s] = "idle" /\ at' = [at EXCEPT ![s] = "installed.0"] /\ list' = list /\ keep' = keep
      /\ installed' = installed /\ manual' = manual
  BY DEF Start, Goto, dpkg
<1>2. PICK wish \in Wishes : deps' = [deps EXCEPT ![s] = wish]
  BY DEF Start
<1>3. n \in Nat /\ at'[s] = "installed.0" /\ \A i \in 1 .. n : c[i] \in Sessions \ {s}
  <2>1. n \in Nat /\ \A i \in 1 .. n : c[i] \in Sessions /\ Running(c[i])
    BY DEF Stack
  <2>2. at'[s] = "installed.0"
    BY <1>1 DEF TypeOK
  <2>3. ~Running(s)
    BY <1>1 DEF Running
  <2> QED BY <2>1, <2>2, <2>3
<1> DEFINE d == Push(n, c, s)
<1>4. /\ \A i \in 1 .. n + 1 : i \in 1 .. n \/ i = n + 1
      /\ \A i \in 1 .. n : d[i] = c[i]
      /\ d[n + 1] = s
  BY <1>3 DEF Push
<1> HIDE DEF d
<1>5. \A t \in Sessions \ {s} : at'[t] = at[t] /\ deps'[t] = deps[t]
  BY <1>1, <1>2 DEF TypeOK
<1>6. \A some : Sound(some)' <=> Sound(some)
  BY DEF Sound
<1>7. n > 0 => installed = Given(c[n])
  BY <1>3 DEF Restored, AsGiven, Listed1
<1>8. Sound(installed)
  <2>1. CASE n = 0
    BY <2>1 DEF Restored
  <2>2. CASE n # 0
    <3>1. n \in 1 .. n /\ n > 0
      BY <1>3, <2>2
    <3>2. Exactly(c[n]) /\ at[c[n]] = "command"
      BY <3>1 DEF Restored
    <3>3. Sound(Given(c[n]))
      BY <3>2 DEF Exactly, Given, Listed1
    <3> QED BY <1>7, <3>1, <3>3
  <2> QED BY <2>1, <2>2
<1>9. Exactly(s)' /\ AsGiven(s)'
  BY <1>1, <1>3, <1>6, <1>8 DEF Exactly, AsGiven, Listed1
<1>10. ASSUME NEW t \in Sessions \ {s}
       PROVE  /\ Exactly(t) => Exactly(t)'
              /\ Given(t)' = Given(t)
  <2>1. Brought(t)' = Brought(t) /\ With(deps[t])' = With(deps[t])
    BY <1>1, <1>5 DEF Brought, With
  <2> QED BY <1>1, <1>5, <1>6, <2>1 DEF Exactly, Given
<1>11. \A i \in 1 .. n + 1 : Exactly(d[i])'
  <2>1. \A i \in 1 .. n : Exactly(c[i])'
    BY <1>3, <1>10 DEF Restored
  <2> QED BY <1>4, <1>9, <2>1
<1>12. \A i \in 1 .. (n + 1) - 1 : GivenOn(d[i], d[i + 1])'
  <2> SUFFICES ASSUME NEW i \in 1 .. n PROVE GivenOn(d[i], d[i + 1])'
    BY <1>3
  <2>1. CASE i = n
    BY <1>1, <1>3, <1>4, <1>7, <1>10, <2>1 DEF GivenOn
  <2>2. CASE i # n
    <3>1. i \in 1 .. n - 1 /\ i + 1 \in 1 .. n
      BY <1>3, <2>2
    <3>2. GivenOn(c[i], c[i + 1]) /\ c[i] \in Sessions \ {s} /\ c[i + 1] \in Sessions \ {s}
      BY <1>3, <3>1 DEF Restored
    <3> QED BY <1>1, <1>4, <1>5, <1>10, <3>1, <3>2 DEF GivenOn
  <2> QED BY <2>1, <2>2
<1>13. n + 1 # 0
  BY <1>3
<1> QED BY <1>4, <1>9, <1>11, <1>12, <1>13 DEF Restored, d

-----------------------------------------------------------------------------
(* The invariant of sessions that are not side by side.                      *)

Stacked(n, c) ==
  /\ Nested(n, c) /\ Chained(n, c)
  /\ trouble = FALSE => /\ Kept(n, c) /\ Accounted(n, c)
                        /\ LeftSoFar => Restored(n, c)

Deep == \E n, c : Stacked(n, c)

Whole == /\ \A s \in Sessions : Fresh(s)
         /\ overlapped = FALSE => Deep

LEMMA WholeInit ==
  ASSUME Init PROVE Whole
<1>0. TypeOK
  BY InitInv DEF Inv
<1>1. \A s \in Sessions : Fresh(s) /\ at[s] = "idle" /\ keep[s] = {}
  BY FreshInit DEF Init
<1> DEFINE none == [i \in 1 .. 0 |-> NoSession]
<1>2. Stack(0, none)
  BY <1>1 DEF Stack, Running
<1>3. Nested(0, none) /\ Chained(0, none)
  BY <1>2 DEF Nested, Chained
<1>4. Kept(0, none)
  BY <1>1 DEF Kept, Apart, KeptBy, AfterMark
<1>5. installed = base /\ Sound(installed) /\ installed \subseteq Packages
  BY PackagesAssumption DEF Init, Sound
<1>6. Accounted(0, none)
  <2>1. base \subseteq Due /\ Due \subseteq With(Due)
    BY <1>0, DueHas, DueTyped, WithHolds
  <2> QED BY <1>5, <2>1 DEF Accounted
<1>7. Restored(0, none)
  BY <1>5 DEF Restored
<1> HIDE DEF none
<1>8. Deep
  BY <1>3, <1>4, <1>6, <1>7 DEF Deep, Stacked
<1> QED BY <1>1, <1>8 DEF Whole

LEMMA WholeActs ==
  ASSUME TypeOK, TypeOK', Whole, NEW s \in Sessions, Acts(s) PROVE Whole'
<1>1. \A t \in Sessions : Fresh(t)
  BY DEF Whole
<1>2. \A t \in Sessions : Fresh(t)'
  BY <1>1, FreshActs
<1>3. ASSUME overlapped' = FALSE PROVE Deep'
  <2>1. overlapped = FALSE
    BY <1>3, ActsAlone DEF TypeOK
  <2>2. PICK n, c : Stacked(n, c)
    BY <2>1 DEF Whole, Deep
  <2>3. Nested(n, c) /\ Chained(n, c) /\ n \in Nat
    BY <2>2 DEF Stacked, Nested, Stack
  <2>4. Chained(n, c)' /\ Chained(n - 1, Pop(n, c))'
    BY <2>3, ChainedActs
  <2>5. /\ Running(s)' => Nested(n, c)'
        /\ ~Running(s)' => Nested(n - 1, Pop(n, c))'
    BY <1>1, <2>3, NestedActs
  <2>6. ASSUME trouble' = FALSE
        PROVE  /\ Running(s)' => Kept(n, c)' /\ Accounted(n, c)' /\ (LeftSoFar' => Restored(n, c)')
               /\ ~Running(s)' => /\ Kept(n - 1, Pop(n, c))' /\ Accounted(n - 1, Pop(n, c))'
                                  /\ (LeftSoFar' => Restored(n - 1, Pop(n, c))')
    <3>1. trouble = FALSE
      BY <2>6, Untroubled
    <3>2. Kept(n, c) /\ Accounted(n, c) /\ (LeftSoFar => Restored(n, c)) /\ Apart(s)
      BY <2>2, <3>1 DEF Stacked, Kept
    <3>3. (Running(s)' => Kept(n, c)') /\ (~Running(s)' => Kept(n - 1, Pop(n, c))')
      BY <1>1, <2>3, <2>6, <3>2, KeptActs
    <3>4. (Running(s)' => Accounted(n, c)') /\ (~Running(s)' => Accounted(n - 1, Pop(n, c))')
      BY <1>1, <2>3, <2>6, <3>2, AccountedActs
    <3>5. ASSUME LeftSoFar'
          PROVE  (Running(s)' => Restored(n, c)') /\ (~Running(s)' => Restored(n - 1, Pop(n, c))')
      <4>1. LeftSoFar
        BY <2>6, <3>2, <3>5, LeftBack
      <4>2. Restored(n, c)
        BY <3>2, <4>1
      <4> QED BY <1>1, <2>3, <2>6, <3>2, <3>5, <4>2, RestoredActs
    <3> QED BY <3>3, <3>4, <3>5
  <2>7. CASE Running(s)'
    <3>1. Stacked(n, c)'
      BY <2>4, <2>5, <2>6, <2>7 DEF Stacked
    <3> QED BY <3>1 DEF Deep
  <2>8. CASE ~Running(s)'
    <3>1. Stacked(n - 1, Pop(n, c))'
      BY <2>4, <2>5, <2>6, <2>8 DEF Stacked
    <3> QED BY <3>1 DEF Deep
  <2> QED BY <2>7, <2>8
<1> QED BY <1>2, <1>3 DEF Whole

LEMMA WholeStarts ==
  ASSUME TypeOK, TypeOK', Whole, NEW s \in Sessions, Start(s) PROVE Whole'
<1>1. \A t \in Sessions : Fresh(t)
  BY DEF Whole
<1>2. \A t \in Sessions : Fresh(t)'
  BY <1>1, FreshStart
<1>3. ASSUME overlapped' = FALSE PROVE Deep'
  <2>1. overlapped = FALSE /\ trouble' = trouble /\ ~overlapped /\ ~overlapped'
    BY <1>3 DEF Start, TypeOK
  <2>2. PICK n, c : Stacked(n, c)
    BY <2>1 DEF Whole, Deep
  <2>3. Nested(n, c) /\ Chained(n, c) /\ Stack(n, c)
    BY <2>2 DEF Stacked, Nested
  <2>4. /\ Nested(n + 1, Push(n, c, s))'
        /\ n > 0 => at[c[n]] = "command" /\ by'[s] = c[n]
    BY <1>1, <2>1, <2>3, NestedStarts
  <2>5. Chained(n + 1, Push(n, c, s))'
    BY <1>1, <2>3, <2>4, ChainedStarts
  <2>6. ASSUME trouble' = FALSE
        PROVE  /\ Kept(n + 1, Push(n, c, s))' /\ Accounted(n + 1, Push(n, c, s))'
               /\ LeftSoFar' => Restored(n + 1, Push(n, c, s))'
    <3>1. Kept(n, c) /\ Accounted(n, c) /\ (LeftSoFar => Restored(n, c))
      BY <2>1, <2>2, <2>6 DEF Stacked
    <3>2. Kept(n + 1, Push(n, c, s))'
      BY <2>3, <3>1, KeptStarts
    <3>3. Accounted(n + 1, Push(n, c, s))'
      BY <1>1, <2>3, <3>1, AccountedStarts
    <3>4. ASSUME LeftSoFar' PROVE Restored(n + 1, Push(n, c, s))'
      <4>1. LeftSoFar
        BY <1>1, <3>4, LeftBackStarts
      <4> QED BY <2>3, <2>4, <3>1, <4>1, RestoredStarts
    <3> QED BY <3>2, <3>3, <3>4
  <2>7. Stacked(n + 1, Push(n, c, s))'
    BY <2>4, <2>5, <2>6 DEF Stacked
  <2> QED BY <2>7 DEF Deep
<1> QED BY <1>2, <1>3 DEF Whole

LEMMA WholeStutters ==
  ASSUME Whole, UNCHANGED vars PROVE Whole'
<1>1. UNCHANGED <<installed, manual, at, by, deps, keep, list, base, own, overlapped, trouble>>
  BY DEF vars, dpkg, past
<1>2. \A t : Running(t)' <=> Running(t)
  BY <1>1 DEF Running
<1>3. \A t : With(deps[t])' = With(deps[t])
  BY <1>1 DEF With
<1>4. \A some : Sound(some)' <=> Sound(some)
  BY DEF Sound
<1>5. Inner' = Inner /\ \A t : Around(t)' = Around(t)
  BY <1>1 DEF Inner, Around
<1>6. Due' = Due /\ With(Due)' = With(Due)
  <2>1. Due' = Due
    BY <1>1, <1>5 DEF Due
  <2> QED BY <2>1 DEF With
<1>7. \A t : Fresh(t)' <=> Fresh(t)
  BY <1>1 DEF Fresh
<1>8. \A t : Held(t)' <=> Held(t)
  BY <1>1, <1>3 DEF Held
<1>9. \A t, u : Within(t, u)' <=> Within(t, u)
  BY <1>1, <1>3 DEF Within
<1>10. \A n, c : Stack(n, c)' <=> Stack(n, c)
  BY <1>1, <1>2 DEF Stack
<1>11. \A n, c : Nested(n, c)' <=> Nested(n, c)
  BY <1>8, <1>9, <1>10 DEF Nested
<1>12. \A n, c : Chained(n, c)' <=> Chained(n, c)
  BY <1>5 DEF Chained
<1>13. \A t, p : Spared(t, p)' <=> Spared(t, p)
  BY <1>1 DEF Spared
<1>14. \A n, c : Kept(n, c)' <=> Kept(n, c)
  BY <1>1, <1>13 DEF Kept, Apart, KeptBy
<1>15. \A t : Rooted(t)' <=> Rooted(t)
  BY <1>1, <1>6 DEF Rooted
<1>16. \A n, c : Accounted(n, c)' <=> Accounted(n, c)
  BY <1>1, <1>6, <1>15 DEF Accounted
<1>17. LeftSoFar' <=> LeftSoFar
  BY <1>1, <1>3, <1>5 DEF LeftSoFar
<1>18. \A t : Given(t)' = Given(t) /\ Brought(t)' = Brought(t)
  BY <1>1, <1>3 DEF Given, Brought
<1>19. \A t : Exactly(t)' <=> Exactly(t)
  <2> TAKE t
  <2>1. /\ With(deps[t])' = With(deps[t]) /\ Given(t)' = Given(t) /\ Brought(t)' = Brought(t)
        /\ at'[t] = at[t] /\ list'[t] = list[t] /\ keep'[t] = keep[t] /\ deps'[t] = deps[t]
        /\ installed' = installed /\ manual' = manual
    BY <1>1, <1>3, <1>18
  <2> QED BY <1>4, <2>1 DEF Exactly
<1>20. \A t : AsGiven(t)' <=> AsGiven(t)
  BY <1>1, <1>18 DEF AsGiven
<1>21. \A t, u : GivenOn(t, u)' <=> GivenOn(t, u)
  BY <1>1, <1>18 DEF GivenOn
<1>22. \A n, c : Restored(n, c)' <=> Restored(n, c)
  BY <1>1, <1>4, <1>19, <1>20, <1>21 DEF Restored
<1>23. \A n, c : Stacked(n, c)' <=> Stacked(n, c)
  BY <1>1, <1>11, <1>12, <1>14, <1>16, <1>17, <1>22 DEF Stacked
<1> QED BY <1>1, <1>7, <1>23 DEF Whole, Deep

LEMMA WholeStep == Inv /\ Inv' /\ Whole /\ [Next]_vars => Whole'
<1> SUFFICES ASSUME Inv, Inv', Whole, [Next]_vars PROVE Whole'
  OBVIOUS
<1>1. TypeOK /\ TypeOK'
  BY DEF Inv
<1>2. ASSUME NEW s \in Sessions, Start(s) PROVE Whole'
  BY <1>1, <1>2, WholeStarts
<1>3. ASSUME NEW s \in Sessions, Acts(s) PROVE Whole'
  BY <1>1, <1>3, WholeActs
<1>4. CASE UNCHANGED vars
  BY <1>4, WholeStutters
<1> QED BY <1>2, <1>3, <1>4 DEF Next, Ended, Acts

LEMMA WholeHolds == Spec => []Whole
<1>1. Init => Whole
  BY WholeInit
<1> QED BY <1>1, InvHolds, WholeStep, PTL DEF Spec

-----------------------------------------------------------------------------
(* What follows from it.                                                     *)

\* While a command runs, what its session was given is there, however many
\* sessions it has run, in any depth, and however they have ended
\* (apt-wrap:95-146).
THEOREM CommandsHaveTheirs == Spec => []InPlace
<1>1. Whole => InPlace
  <2> SUFFICES ASSUME Whole, NEW s \in Sessions, at[s] = "command", ~overlapped
               PROVE  With(deps[s]) \subseteq installed
    BY DEF InPlace
  <2>1. PICK n, c : Stacked(n, c)
    BY DEF Whole, Deep
  <2>2. Running(s)
    BY DEF Running, Over
  <2>3. PICK i \in 1 .. n : c[i] = s
    BY <2>1, <2>2 DEF Stacked, Nested, Stack
  <2>4. Held(s)
    BY <2>1, <2>3 DEF Stacked, Nested
  <2> QED BY <2>4 DEF Held
<1> QED BY <1>1, WholeHolds, PTL

LEMMA AloneWhenIdle ==
  ASSUME Idle, NEW n, NEW c, Stack(n, c)
  PROVE  n = 0
<1>1. n \in Nat /\ (n # 0 => 1 \in 1 .. n)
  BY DEF Stack
<1> QED BY <1>1 DEF Stack, Idle

\* What a session has kept stays, and of what sessions have brought nothing
\* else does, for any depth of sessions (apt-wrap --end).
THEOREM OnlyKeptStays == Spec => []KeptAlone
<1>1. Inv /\ Whole => KeptStays
  <2> SUFFICES ASSUME Whole, NEW s \in Sessions, at[s] = "done", ~overlapped, trouble = FALSE
               PROVE  keep[s] \subseteq installed
    BY DEF KeptStays, Inv, TypeOK
  <2>1. PICK n, c : Stacked(n, c)
    BY DEF Whole, Deep
  <2> QED BY <2>1 DEF Stacked, Kept, KeptBy
<1>2. Inv /\ Whole => NothingLeft
  <2> DEFINE left == base \cup own \cup UNION ({keep[s] : s \in Sessions} \cup {deps[s] : s \in Inner})
  <2> SUFFICES ASSUME Inv, Whole, Idle, ~overlapped, trouble = FALSE
               PROVE  installed \subseteq With(left)
    BY DEF NothingLeft, Inv, TypeOK
  <2>1. PICK n, c : Stacked(n, c)
    BY DEF Whole, Deep
  <2>2. n = 0
    BY <2>1, AloneWhenIdle DEF Stacked, Nested
  <2>3. installed \subseteq With(Due)
    BY <2>1, <2>2 DEF Stacked, Accounted
  <2>4. Due \subseteq left
    BY DEF Due
  <2> HIDE DEF left
  <2>5. With(Due) \subseteq With(left)
    BY <2>4, WithGrows
  <2> QED BY <2>3, <2>5
<1> QED BY <1>1, <1>2, InvHolds, WholeHolds, PTL DEF KeptAlone

\* dpkg --force-all leaves no package without what it needs, where the system
\* is left to the sessions (apt-wrap:129-145).
THEOREM NothingIsBroken == Spec => []SoundAfter
<1>1. Inv /\ Whole => SoundAfter
  <2> SUFFICES ASSUME Whole, Idle, ~overlapped, trouble = FALSE, LeftToSessions
               PROVE  Sound(installed)
    BY DEF SoundAfter, Inv, TypeOK
  <2>1. PICK n, c : Stacked(n, c)
    BY DEF Whole, Deep
  <2>2. n = 0
    BY <2>1, AloneWhenIdle DEF Stacked, Nested
  <2>3. LeftSoFar
    BY DEF LeftToSessions, LeftSoFar
  <2> QED BY <2>1, <2>2, <2>3 DEF Stacked, Restored
<1> QED BY <1>1, InvHolds, WholeHolds, PTL
=============================================================================
