------------------------- MODULE Persistence_proofs -------------------------
(* Proofs about Persistence, for any number of bundles, removals, runs by   *)
(* hand and cuts.                                                           *)
EXTENDS Persistence, TLAPS

-----------------------------------------------------------------------------
(* The copy is what the checksum was made of, but for a save that is between *)
(* the two.                                                                  *)

Copied ==
  IF job.at \in {"pack", "packing"} THEN state = orig ELSE Empty(state) \/ state = backup

JobOK ==
  /\ job \in [way : Ways, at : At]
  /\ job.at \in {"checksum", "checksumming", "pack", "packing"} => job.way = "save"
  /\ job.at \in {"unpack", "unpacking"} => job.way = "restore"

CutOK == cut \in [Ways \cup {"hook"} -> Nat]

Inv1 == JobOK /\ CutOK /\ (cut.save = 0 => Copied)

LEMMA Init1 == Init => Inv1
BY DEF Init, Inv1, JobOK, CutOK, Copied, Empty, Ways, At

LEMMA CutGrows ==
  ASSUME Inv1, [Next]_vars
  PROVE  JobOK' /\ CutOK' /\ (cut'.save = 0 => cut.save = 0)
<1> USE DEF Inv1, JobOK, CutOK, Goto, Run, Ways, At
<1>1. ASSUME Steps PROVE JobOK' /\ cut' = cut
  BY <1>1 DEF Steps, Verify, Checksum, Checksummed, Pack, Packed, Unpack, Unpacked, Triggered
<1>2. ASSUME NEW way \in DOMAIN cut, Counted(way) PROVE CutOK' /\ (cut'.save = 0 => cut.save = 0)
  BY <1>2 DEF Counted
<1>3. ASSUME Killed \/ NoRoom PROVE JobOK' /\ \E way \in DOMAIN cut : Counted(way)
  BY <1>3 DEF Killed, NoRoom
<1>4. ASSUME NEW way \in Ways, Command(way) PROVE JobOK' /\ cut' = cut
  BY <1>4 DEF Command
<1>5. ASSUME Make PROVE JobOK' /\ (cut' = cut \/ Counted("hook"))
  BY <1>5 DEF Make
<1>6. ASSUME Drop \/ UNCHANGED vars PROVE JobOK' /\ cut' = cut
  BY <1>6 DEF Drop, vars
<1>7. "hook" \in DOMAIN cut OBVIOUS
<1> QED BY <1>1, <1>2, <1>3, <1>4, <1>5, <1>6, <1>7 DEF Next

LEMMA Step1 == Inv1 /\ [Next]_vars => Inv1'
<1> SUFFICES ASSUME Inv1, [Next]_vars, cut'.save = 0 PROVE Copied'
  BY CutGrows DEF Inv1
<1>0. cut.save = 0 /\ Copied /\ JobOK /\ CutOK
  BY CutGrows DEF Inv1
<1> USE DEF Copied, Empty, files, counts, Goto, Run
<1>1. ASSUME Verify PROVE Copied'
  BY <1>0, <1>1 DEF Verify, JobOK, Ways, At
<1>2. ASSUME Checksum \/ Checksummed PROVE Copied'
  BY <1>0, <1>2 DEF Checksum, Checksummed, JobOK, Ways, At
<1>3. ASSUME Pack \/ Packed PROVE Copied'
  BY <1>0, <1>3 DEF Pack, Packed, JobOK, Ways, At
<1>4. ASSUME Unpack \/ Unpacked PROVE Copied'
  BY <1>0, <1>4 DEF Unpack, Unpacked, JobOK, Ways, At
<1>5. ASSUME Triggered \/ \E way \in Ways : Command(way) PROVE Copied'
  BY <1>0, <1>5 DEF Triggered, Command, Idle
<1>6. ASSUME Make \/ Drop PROVE Copied'
  BY <1>0, <1>6 DEF Make, Drop, Idle
<1>7. ASSUME Killed \/ NoRoom PROVE Copied'
  <2>1. ~Counted("save")
    BY <1>0 DEF Counted, CutOK, Ways
  <2>2. Killed /\ job.way = "restore"
    BY <1>0, <1>7, <2>1 DEF Killed, NoRoom, JobOK, Ways
  <2>3. state' = state /\ backup' = backup /\ job'.at = "idle" /\ job.at \notin {"pack", "packing"}
    BY <1>0, <2>2 DEF Killed, JobOK
  <2> QED BY <1>0, <2>3
<1>8. ASSUME UNCHANGED vars PROVE Copied'
  BY <1>0, <1>8 DEF vars
<1> QED BY <1>1, <1>2, <1>3, <1>4, <1>5, <1>6, <1>7, <1>8 DEF Next, Steps

\* VouchedUnlessCut, for any number of bundles, removals, runs and cuts.
THEOREM CopyIsVouched == Spec => []VouchedUnlessCut
<1>1. Inv1 => VouchedUnlessCut
  BY DEF Inv1, Copied, VouchedUnlessCut, Vouched, Idle, Verified
<1> QED BY Init1, Step1, <1>1, PTL DEF Spec

-----------------------------------------------------------------------------
(* Where nothing is cut short: the latest bundle is in place, or in the copy *)
(* and on its way back.                                                      *)

Latest == Whole(made)

\* Before the first bundle there is nothing.
NoneYet ==
  made = 0 => /\ orig = Blank /\ state = Blank /\ backup = Blank
              /\ job.at \in {"idle", "verify"}

\* Only the hook that Make starts, or a save after it, finds the copy old.
LatestIsCopied ==
  made > 0 =>
    \/ /\ state = Latest /\ backup = Latest
       /\ job.at \notin {"checksum", "checksumming", "pack", "packing"}
    \/ /\ job.way = "save" /\ job.at \in {"verify", "checksum", "checksumming", "pack", "packing"}
       /\ orig = Latest

\* What has been removed is waited for.
LatestIsDue ==
  made > 0 => \/ orig = Latest
              \/ orig = Blank /\ pending # {}
              \/ orig = Blank /\ job.way = "restore" /\ job.at \in {"verify", "unpack", "unpacking"}

Uncut == NoneYet /\ LatestIsCopied /\ LatestIsDue

Inv2 == Inv1 /\ made \in Nat /\ (Cuts = 0 => Uncut)

LEMMA Init2 == Init => Inv2
BY Init1 DEF Init, Inv2, Uncut, NoneYet, LatestIsCopied, LatestIsDue

LEMMA CutsGrow ==
  ASSUME Inv1, [Next]_vars, Cuts' = 0
  PROVE  Cuts = 0 /\ cut' = cut /\ cut.save = 0
<1>1. cut.save \in Nat /\ cut.restore \in Nat /\ cut.hook \in Nat
  BY DEF Inv1, CutOK, Ways
<1>2. ASSUME NEW way \in DOMAIN cut, Counted(way) PROVE FALSE
  <2>1. cut' = [cut EXCEPT ![way] = @ + 1] /\ cut'[way] = cut[way] + 1 /\ cut[way] \in Nat
    BY <1>2 DEF Counted, Inv1, CutOK
  <2>2. cut'.save \in Nat /\ cut'.restore \in Nat /\ cut'.hook \in Nat
    BY CutGrows DEF CutOK, Ways
  <2>3. way \in {"save", "restore", "hook"} BY DEF Inv1, CutOK, Ways
  <2>4. cut'.save + cut'.restore + cut'.hook = 0 BY DEF Cuts
  <2> QED BY <2>1, <2>2, <2>3, <2>4
<1>3. cut' = cut \/ \E way \in DOMAIN cut : Counted(way)
  <2>1. "hook" \in DOMAIN cut /\ "save" \in DOMAIN cut /\ (JobOK => job.way \in DOMAIN cut)
    BY DEF Inv1, CutOK, JobOK, Ways
  <2> QED BY <2>1 DEF Inv1, Next, Steps, Verify, Checksum, Checksummed, Pack, Packed, Unpack, Unpacked,
            Triggered, Killed, NoRoom, Command, Make, Drop, vars
<1>4. cut' = cut BY <1>2, <1>3
<1> QED BY <1>1, <1>4 DEF Cuts

LEMMA Step2 == Inv2 /\ [Next]_vars => Inv2'
<1> SUFFICES ASSUME Inv2, [Next]_vars PROVE made' \in Nat /\ (Cuts' = 0 => Uncut')
  BY Step1 DEF Inv2
<1>1. made' \in {made, made + 1}
  BY DEF Next, Steps, Verify, Checksum, Checksummed, Pack, Packed, Unpack, Unpacked, Triggered, Killed,
         NoRoom, Command, Make, Drop, vars, counts
<1>2. ASSUME Cuts' = 0 PROVE Uncut'
  <2>0. Uncut /\ Copied /\ JobOK /\ cut' = cut /\ CutOK /\ Cuts = 0 /\ made \in Nat
    BY <1>2, CutsGrow DEF Inv2, Inv1
  <2>a. \A n \in Nat \ {0} : Whole(n) # Blank BY DEF Whole, Blank
  <2> USE DEF Uncut, NoneYet, LatestIsCopied, LatestIsDue, files, counts, Goto, Run
  <2>1. ASSUME Verify PROVE Uncut'
    <3>1. CASE Verified
      BY <2>0, <2>1, <3>1 DEF Verify, Verified, Copied, JobOK, Latest, Empty
    <3>2. CASE ~Verified /\ job.way = "save"
      BY <2>0, <2>1, <2>a, <3>2 DEF Verify, Verified, Copied, JobOK, Latest, Empty
    <3>3. CASE ~Verified /\ job.way = "restore"
      BY <2>0, <2>1, <2>a, <3>3 DEF Verify, Verified, Copied, JobOK, Latest, Empty
    <3> QED BY <2>1, <3>1, <3>2, <3>3 DEF Verify
  <2>2. ASSUME Checksum \/ Checksummed PROVE Uncut'
    BY <2>0, <2>2 DEF Checksum, Checksummed, JobOK, Latest
  <2>3. ASSUME Pack \/ Packed PROVE Uncut'
    BY <2>0, <2>3 DEF Pack, Packed, JobOK, Latest, Copied
  <2>4. ASSUME Unpack \/ Unpacked PROVE Uncut'
    BY <2>0, <2>4 DEF Unpack, Unpacked, JobOK, Latest
  <2>5. ASSUME Triggered PROVE Uncut'
    <3>1. CASE "refine" \in pending
      BY <2>0, <2>5, <3>1 DEF Triggered, Idle, Latest
    <3>2. CASE "refine" \notin pending
      BY <2>0, <2>5, <3>2 DEF Triggered, Idle, Latest
    <3> QED BY <3>1, <3>2
  <2>6. ASSUME NEW way \in Ways, Command(way) PROVE Uncut'
    BY <2>0, <2>6 DEF Command, Idle, Latest
  <2>7. ASSUME Make PROVE Uncut'
    <3>1. ~Counted("hook") BY <2>0 DEF Counted, CutOK
    <3> QED BY <2>0, <2>7, <3>1 DEF Make, Idle, Latest
  <2>8. ASSUME Drop PROVE Uncut'
    BY <2>0, <2>8 DEF Drop, Idle, Latest
  <2>9. ASSUME Killed \/ NoRoom PROVE FALSE
    <3>1. ~Counted("save") /\ ~Counted("restore") BY <2>0 DEF Counted, CutOK, Ways
    <3> QED BY <2>0, <2>9, <3>1 DEF Killed, NoRoom, JobOK, Ways
  <2>10. ASSUME UNCHANGED vars PROVE Uncut'
    BY <2>0, <2>10 DEF vars, Latest
  <2> QED BY <2>1, <2>2, <2>3, <2>4, <2>5, <2>6, <2>7, <2>8, <2>9, <2>10 DEF Next, Steps
<1> QED BY <1>1, <1>2 DEF Inv2

\* LatestReturns, for any number of bundles, removals and runs by hand.
THEOREM LatestComesBack == Spec => []LatestReturns
<1>1. Inv2 => LatestReturns
  BY DEF Inv2, Uncut, LatestIsDue, LatestReturns, Idle, Latest
<1> QED BY Init2, Step2, <1>1, PTL DEF Spec
=============================================================================
