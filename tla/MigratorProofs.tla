--------------------------- MODULE MigratorProofs ---------------------------
(***************************************************************************)
(* Proofs about the migrator, for every set of processes and of files: a   *)
(* recorded version has its tables; when every file can be rolled back the *)
(* versions have no hole; when no two files share a version an Up that     *)
(* succeeds is complete.                                                   *)
(*                                                                         *)
(* What makes them inductive is what the local variables of a command      *)
(* still say about the database: an Up has only passed recorded files, a   *)
(* Down only files that are not.  That outlives the steps of the others    *)
(* because no two commands but Ups overlap where it is claimed.            *)
(***************************************************************************)
EXTENDS Migrator, WellFoundedInduction, TLAPS

\* No two commands overlap unless both are Ups.
Exclusive ==
    alone => \A p, q \in Procs :
        p # q /\ Active(p) /\ Active(q) => p \in Upward /\ q \in Upward

\* An Up has only passed files whose versions are recorded.
UpsFit ==
    alone /\ whole => \A p \in Procs : pc[p] = "up" =>
        /\ snap[p] \subseteq recorded
        /\ \A f \in Files \ todo[p] : f.version \in recorded

\* A Down has only passed files it cannot roll back or that are not recorded.
DownsFit ==
    alone /\ whole => \A p \in Procs :
        /\ pc[p] = "down" =>
            \A f \in Files \ todo[p] : f.down => f.version \notin recorded
        /\ pc[p] = "downRun" =>
            \A f \in Files : f.version > target[p] /\ f.down => f.version \notin recorded

\* The version a Down rolls back has a down file.
TargetsFit ==
    \A p \in Procs : pc[p] = "downRun" =>
        \E f \in Files : f.down /\ f.version = target[p]

\* Every file can be rolled back; no two files share a version.
AllDown == \A f \in Files : f.down
Distinct == \A f, g \in Files : f.version = g.version => f = g

CommandsFit == Exclusive /\ UpsFit /\ DownsFit /\ TargetsFit
IInv == TypeOK /\ CommandsFit /\ RecordedHasTables /\ (AllDown => NoHoles)

-----------------------------------------------------------------------------
\* A set of naturals that is not empty has a least element.
LEMMA HasLeast ==
    ASSUME NEW T, T \subseteq Nat, T # {} PROVE \E x \in T : \A y \in T : x <= y
<1>1. PICK x \in T : \A y \in T : ~(<<y, x>> \in OpToRel(<, Nat))
    BY NatLessThanWellFounded, WFMin
<1>2. \A y \in T : ~(y < x)
    BY <1>1 DEF OpToRel
<1> QED
    BY <1>2

\* findDownMigration finds a down file of the version, if there is one.
LEMMA DownFileIsFound ==
    ASSUME NEW v, \E f \in Files : f.down /\ f.version = v
    PROVE  DownFile(v) \in Files /\ DownFile(v).version = v
<1> DEFINE Fit == {f \in Files : f.version = v /\ f.down}
<1>1. {f.place : f \in Fit} \subseteq Nat /\ {f.place : f \in Fit} # {}
    BY FilesAssumption
<1>2. PICK x \in {f.place : f \in Fit} : \A y \in {f.place : f \in Fit} : x <= y
    BY <1>1, HasLeast
<1>3. \E f \in Files : /\ f.version = v /\ f.down
                       /\ \A g \in Files : g.version = v /\ g.down => f.place <= g.place
    BY <1>2
<1> QED
    BY <1>3 DEF DownFile

LEMMA FilesFit == Files \subseteq [place : Nat, version : Nat, down : BOOLEAN]
BY FilesAssumption

LEMMA InitIInv == Init => IInv
BY DEF Init, IInv, CommandsFit, TypeOK, RecordedHasTables, Exclusive, UpsFit, DownsFit, TargetsFit,
   NoHoles, Pcs, Ends, Active

-----------------------------------------------------------------------------
\* The types.
LEMMA TypesKept == TypeOK /\ [Next]_vars => TypeOK'
<1> SUFFICES ASSUME TypeOK, [Next]_vars PROVE TypeOK'
    OBVIOUS
<1>0. CASE UNCHANGED vars
    BY <1>0 DEF TypeOK, vars
<1>1. ASSUME NEW p \in Procs, Fail(p) PROVE TypeOK'
    BY <1>1 DEF TypeOK, Fail, Ended, Goto, Pcs, Ends, schema
<1>2. ASSUME NEW p \in Procs, UpStep(p) PROVE TypeOK'
    <2>1. CASE UpEnsure(p)
        BY <2>1 DEF TypeOK, UpEnsure, Begins, Goto, Pcs
    <2>2. CASE UpList(p)
        BY <2>2 DEF TypeOK, UpList, Goto, Pcs, schema
    <2>3. CASE UpEnd(p)
        BY <2>3 DEF TypeOK, UpEnd, Ended, Goto, Pcs, Ends, schema
    <2>4. ASSUME NEW f \in First(todo[p]), UpSkip(p, f) PROVE TypeOK'
        BY <2>4 DEF TypeOK, UpSkip, schema
    <2>5. ASSUME NEW f \in First(todo[p]), UpApply(p, f) PROVE TypeOK'
        BY <2>5 DEF TypeOK, UpApply, Inserts, First, Versions
    <2> QED
        BY <1>2, <2>1, <2>2, <2>3, <2>4, <2>5 DEF UpStep
<1>3. ASSUME NEW p \in Procs, DownStep(p) PROVE TypeOK'
    <2>1. CASE DownEnsure(p)
        BY <2>1 DEF TypeOK, DownEnsure, Begins, Goto, Pcs
    <2>2. CASE DownRun(p)
        BY <2>2 DEF TypeOK, DownRun, Unrecorded, Ended, Goto, Pcs, Ends
    <2>3. ASSUME NEW f \in Last(todo[p]), DownPass(p, f) PROVE TypeOK'
        BY <2>3 DEF TypeOK, DownPass, schema
    <2>4. ASSUME NEW f \in Last(todo[p]), DownPick(p, f) PROVE TypeOK'
        BY <2>4 DEF TypeOK, DownPick, Goto, Pcs, schema, Last, Versions
    <2> QED
        BY <1>3, <2>1, <2>2, <2>3, <2>4 DEF DownStep
<1>4. ASSUME NEW p \in Procs, ResetStep(p) PROVE TypeOK'
    <2>1. CASE ResetList(p)
        BY <2>1 DEF TypeOK, ResetList, Begins, Goto, Pcs, schema
    <2>2. CASE ResetEnd(p)
        BY <2>2 DEF TypeOK, ResetEnd, Ended, Goto, Pcs, Ends
    <2>3. ASSUME NEW t \in todo[p], ResetDrop(p, t) PROVE TypeOK'
        BY <2>3 DEF TypeOK, ResetDrop
    <2> QED
        BY <1>4, <2>1, <2>2, <2>3 DEF ResetStep
<1>5. ASSUME NEW p \in Procs, NEW v \in Versions, ForceVersion(p, v) PROVE TypeOK'
    BY <1>5 DEF TypeOK, ForceVersion, Begins, Goto, Pcs, Ends
<1> QED
    BY <1>0, <1>1, <1>2, <1>3, <1>4, <1>5, FilesAssumption DEF Next
-----------------------------------------------------------------------------
(* The commands and the schema, one action after the other.                *)

LEMMA FailKeeps == ASSUME IInv, NEW p \in Procs, Fail(p) PROVE CommandsFit' /\ RecordedHasTables' /\ (AllDown => NoHoles')
<1>1. Exclusive'
    BY DEF IInv, CommandsFit, TypeOK, Exclusive, Active, Upward, Ends, schema, Fail, Ended, Goto
<1>2. UpsFit'
    BY FilesFit DEF IInv, CommandsFit, TypeOK, Exclusive, UpsFit, Active, Upward, Ends, schema, Fail, Ended, Goto
<1>3. DownsFit'
    BY FilesFit DEF IInv, CommandsFit, TypeOK, Exclusive, DownsFit, Active, Upward, Ends, schema, Fail, Ended, Goto
<1>4. TargetsFit'
    BY DEF IInv, CommandsFit, TypeOK, TargetsFit, schema, Fail, Ended, Goto
<1>5. RecordedHasTables'
    BY FilesFit DEF IInv, CommandsFit, TypeOK, RecordedHasTables, Active, Ends, schema, Fail, Ended, Goto
<1>6. AllDown => NoHoles'
    BY FilesFit DEF IInv, CommandsFit, TypeOK, NoHoles, UpsFit, DownsFit, Exclusive, Active, Upward, Ends, AllDown, schema, Fail, Ended, Goto
<1> QED
    BY <1>1, <1>2, <1>3, <1>4, <1>5, <1>6 DEF CommandsFit

LEMMA UpEnsureKeeps == ASSUME IInv, NEW p \in Procs, UpEnsure(p) PROVE CommandsFit' /\ RecordedHasTables' /\ (AllDown => NoHoles')
<1>1. Exclusive'
    BY DEF IInv, CommandsFit, TypeOK, Exclusive, Active, Upward, Ends, schema, UpEnsure, Begins, Goto
<1>2. UpsFit'
    BY FilesFit DEF IInv, CommandsFit, TypeOK, Exclusive, UpsFit, Active, Upward, Ends, schema, UpEnsure, Begins, Goto
<1>3. DownsFit'
    BY FilesFit DEF IInv, CommandsFit, TypeOK, Exclusive, DownsFit, Active, Upward, Ends, schema, UpEnsure, Begins, Goto
<1>4. TargetsFit'
    BY DEF IInv, CommandsFit, TypeOK, TargetsFit, schema, UpEnsure, Begins, Goto
<1>5. RecordedHasTables'
    BY FilesFit DEF IInv, CommandsFit, TypeOK, RecordedHasTables, Active, Ends, schema, UpEnsure, Begins, Goto
<1>6. AllDown => NoHoles'
    BY FilesFit DEF IInv, CommandsFit, TypeOK, NoHoles, UpsFit, DownsFit, Exclusive, Active, Upward, Ends, AllDown, schema, UpEnsure, Begins, Goto
<1> QED
    BY <1>1, <1>2, <1>3, <1>4, <1>5, <1>6 DEF CommandsFit

LEMMA UpListKeeps == ASSUME IInv, NEW p \in Procs, UpList(p) PROVE CommandsFit' /\ RecordedHasTables' /\ (AllDown => NoHoles')
<1>1. Exclusive'
    BY DEF IInv, CommandsFit, TypeOK, Exclusive, Active, Upward, Ends, schema, UpList, Goto
<1>2. UpsFit'
    BY FilesFit DEF IInv, CommandsFit, TypeOK, Exclusive, UpsFit, Active, Upward, Ends, schema, UpList, Goto
<1>3. DownsFit'
    BY FilesFit DEF IInv, CommandsFit, TypeOK, Exclusive, DownsFit, Active, Upward, Ends, schema, UpList, Goto
<1>4. TargetsFit'
    BY DEF IInv, CommandsFit, TypeOK, TargetsFit, schema, UpList, Goto
<1>5. RecordedHasTables'
    BY FilesFit DEF IInv, CommandsFit, TypeOK, RecordedHasTables, Active, Ends, schema, UpList, Goto
<1>6. AllDown => NoHoles'
    BY FilesFit DEF IInv, CommandsFit, TypeOK, NoHoles, UpsFit, DownsFit, Exclusive, Active, Upward, Ends, AllDown, schema, UpList, Goto
<1> QED
    BY <1>1, <1>2, <1>3, <1>4, <1>5, <1>6 DEF CommandsFit

LEMMA UpSkipKeeps == ASSUME IInv, NEW p \in Procs, NEW f \in First(todo[p]), UpSkip(p, f) PROVE CommandsFit' /\ RecordedHasTables' /\ (AllDown => NoHoles')
<1>1. Exclusive'
    BY DEF IInv, CommandsFit, TypeOK, Exclusive, Active, Upward, Ends, schema, UpSkip, Skippable, First
<1>2. UpsFit'
    BY FilesFit DEF IInv, CommandsFit, TypeOK, Exclusive, UpsFit, Active, Upward, Ends, schema, UpSkip, Skippable, First
<1>3. DownsFit'
    BY FilesFit DEF IInv, CommandsFit, TypeOK, Exclusive, DownsFit, Active, Upward, Ends, schema, UpSkip, Skippable, First
<1>4. TargetsFit'
    BY DEF IInv, CommandsFit, TypeOK, TargetsFit, schema, UpSkip, Skippable, First
<1>5. RecordedHasTables'
    BY FilesFit DEF IInv, CommandsFit, TypeOK, RecordedHasTables, Active, Ends, schema, UpSkip, Skippable, First
<1>6. AllDown => NoHoles'
    BY FilesFit DEF IInv, CommandsFit, TypeOK, NoHoles, UpsFit, DownsFit, Exclusive, Active, Upward, Ends, AllDown, schema, UpSkip, Skippable, First
<1> QED
    BY <1>1, <1>2, <1>3, <1>4, <1>5, <1>6 DEF CommandsFit

LEMMA UpApplyKeeps == ASSUME IInv, NEW p \in Procs, NEW f \in First(todo[p]), UpApply(p, f) PROVE CommandsFit' /\ RecordedHasTables' /\ (AllDown => NoHoles')
<1>1. Exclusive'
    BY DEF IInv, CommandsFit, TypeOK, Exclusive, Active, Upward, Ends, schema, UpApply, Inserts, First, Versions
<1>2. UpsFit'
    BY FilesFit DEF IInv, CommandsFit, TypeOK, Exclusive, UpsFit, Active, Upward, Ends, schema, UpApply, Inserts, First, Versions
<1>3. DownsFit'
    BY FilesFit DEF IInv, CommandsFit, TypeOK, Exclusive, DownsFit, Active, Upward, Ends, schema, UpApply, Inserts, First, Versions
<1>4. TargetsFit'
    BY DEF IInv, CommandsFit, TypeOK, TargetsFit, schema, UpApply, Inserts, First, Versions
<1>5. RecordedHasTables'
    BY FilesFit DEF IInv, CommandsFit, TypeOK, RecordedHasTables, Active, Ends, schema, UpApply, Inserts, First, Versions
<1>6. AllDown => NoHoles'
    BY FilesFit DEF IInv, CommandsFit, TypeOK, NoHoles, UpsFit, DownsFit, Exclusive, Active, Upward, Ends, AllDown, schema, UpApply, Inserts, First, Versions
<1> QED
    BY <1>1, <1>2, <1>3, <1>4, <1>5, <1>6 DEF CommandsFit

LEMMA UpEndKeeps == ASSUME IInv, NEW p \in Procs, UpEnd(p) PROVE CommandsFit' /\ RecordedHasTables' /\ (AllDown => NoHoles')
<1>1. Exclusive'
    BY DEF IInv, CommandsFit, TypeOK, Exclusive, Active, Upward, Ends, schema, UpEnd, Ended, Goto
<1>2. UpsFit'
    BY FilesFit DEF IInv, CommandsFit, TypeOK, Exclusive, UpsFit, Active, Upward, Ends, schema, UpEnd, Ended, Goto
<1>3. DownsFit'
    BY FilesFit DEF IInv, CommandsFit, TypeOK, Exclusive, DownsFit, Active, Upward, Ends, schema, UpEnd, Ended, Goto
<1>4. TargetsFit'
    BY DEF IInv, CommandsFit, TypeOK, TargetsFit, schema, UpEnd, Ended, Goto
<1>5. RecordedHasTables'
    BY FilesFit DEF IInv, CommandsFit, TypeOK, RecordedHasTables, Active, Ends, schema, UpEnd, Ended, Goto
<1>6. AllDown => NoHoles'
    BY FilesFit DEF IInv, CommandsFit, TypeOK, NoHoles, UpsFit, DownsFit, Exclusive, Active, Upward, Ends, AllDown, schema, UpEnd, Ended, Goto
<1> QED
    BY <1>1, <1>2, <1>3, <1>4, <1>5, <1>6 DEF CommandsFit

LEMMA DownEnsureKeeps == ASSUME IInv, NEW p \in Procs, DownEnsure(p) PROVE CommandsFit' /\ RecordedHasTables' /\ (AllDown => NoHoles')
<1>1. Exclusive'
    BY DEF IInv, CommandsFit, TypeOK, Exclusive, Active, Upward, Ends, schema, DownEnsure, Begins, Goto
<1>2. UpsFit'
    BY FilesFit DEF IInv, CommandsFit, TypeOK, Exclusive, UpsFit, Active, Upward, Ends, schema, DownEnsure, Begins, Goto
<1>3. DownsFit'
    BY FilesFit DEF IInv, CommandsFit, TypeOK, Exclusive, DownsFit, Active, Upward, Ends, schema, DownEnsure, Begins, Goto
<1>4. TargetsFit'
    BY DEF IInv, CommandsFit, TypeOK, TargetsFit, schema, DownEnsure, Begins, Goto
<1>5. RecordedHasTables'
    BY FilesFit DEF IInv, CommandsFit, TypeOK, RecordedHasTables, Active, Ends, schema, DownEnsure, Begins, Goto
<1>6. AllDown => NoHoles'
    BY FilesFit DEF IInv, CommandsFit, TypeOK, NoHoles, UpsFit, DownsFit, Exclusive, Active, Upward, Ends, AllDown, schema, DownEnsure, Begins, Goto
<1> QED
    BY <1>1, <1>2, <1>3, <1>4, <1>5, <1>6 DEF CommandsFit

LEMMA DownPassKeeps == ASSUME IInv, NEW p \in Procs, NEW f \in Last(todo[p]), DownPass(p, f) PROVE CommandsFit' /\ RecordedHasTables' /\ (AllDown => NoHoles')
<1>1. Exclusive'
    BY DEF IInv, CommandsFit, TypeOK, Exclusive, Active, Upward, Ends, schema, DownPass, Last
<1>2. UpsFit'
    BY FilesFit DEF IInv, CommandsFit, TypeOK, Exclusive, UpsFit, Active, Upward, Ends, schema, DownPass, Last
<1>3. DownsFit'
    BY FilesFit DEF IInv, CommandsFit, TypeOK, Exclusive, DownsFit, Active, Upward, Ends, schema, DownPass, Last
<1>4. TargetsFit'
    BY DEF IInv, CommandsFit, TypeOK, TargetsFit, schema, DownPass, Last
<1>5. RecordedHasTables'
    BY FilesFit DEF IInv, CommandsFit, TypeOK, RecordedHasTables, Active, Ends, schema, DownPass, Last
<1>6. AllDown => NoHoles'
    BY FilesFit DEF IInv, CommandsFit, TypeOK, NoHoles, UpsFit, DownsFit, Exclusive, Active, Upward, Ends, AllDown, schema, DownPass, Last
<1> QED
    BY <1>1, <1>2, <1>3, <1>4, <1>5, <1>6 DEF CommandsFit

LEMMA DownPickKeeps == ASSUME IInv, NEW p \in Procs, NEW f \in Last(todo[p]), DownPick(p, f) PROVE CommandsFit' /\ RecordedHasTables' /\ (AllDown => NoHoles')
<1>1. Exclusive'
    BY DEF IInv, CommandsFit, TypeOK, Exclusive, Active, Upward, Ends, schema, DownPick, Last, Goto
<1>2. UpsFit'
    BY FilesFit DEF IInv, CommandsFit, TypeOK, Exclusive, UpsFit, Active, Upward, Ends, schema, DownPick, Last, Goto
<1>3. DownsFit'
    BY FilesFit DEF IInv, CommandsFit, TypeOK, Exclusive, DownsFit, Active, Upward, Ends, schema, DownPick, Last, Goto
<1>4. TargetsFit'
    BY DEF IInv, CommandsFit, TypeOK, TargetsFit, schema, DownPick, Last, Goto
<1>5. RecordedHasTables'
    BY FilesFit DEF IInv, CommandsFit, TypeOK, RecordedHasTables, Active, Ends, schema, DownPick, Last, Goto
<1>6. AllDown => NoHoles'
    BY FilesFit DEF IInv, CommandsFit, TypeOK, NoHoles, UpsFit, DownsFit, Exclusive, Active, Upward, Ends, AllDown, schema, DownPick, Last, Goto
<1> QED
    BY <1>1, <1>2, <1>3, <1>4, <1>5, <1>6 DEF CommandsFit

LEMMA DownRunKeeps == ASSUME IInv, NEW p \in Procs, DownRun(p) PROVE CommandsFit' /\ RecordedHasTables' /\ (AllDown => NoHoles')
<1>1. Exclusive'
    BY DEF IInv, CommandsFit, TypeOK, Exclusive, Active, Upward, Ends, schema, DownRun, Unrecorded, Ended, Goto, Versions
<1>2. UpsFit'
    BY FilesFit DEF IInv, CommandsFit, TypeOK, Exclusive, UpsFit, Active, Upward, Ends, schema, DownRun, Unrecorded, Ended, Goto, Versions
<1>3. DownsFit'
    BY FilesFit DEF IInv, CommandsFit, TypeOK, Exclusive, DownsFit, Active, Upward, Ends, schema, DownRun, Unrecorded, Ended, Goto, Versions
<1>4. TargetsFit'
    BY DEF IInv, CommandsFit, TypeOK, TargetsFit, schema, DownRun, Unrecorded, Ended, Goto, Versions
<1>5. RecordedHasTables'
    <2>1. DownFile(target[p]).version = target[p]
        BY DownFileIsFound DEF IInv, CommandsFit, TargetsFit, DownRun
    <2> QED
        BY <2>1 DEF IInv, TypeOK, RecordedHasTables, DownRun, Unrecorded, Ended, Goto
<1>6. AllDown => NoHoles'
    BY FilesFit DEF IInv, CommandsFit, TypeOK, NoHoles, UpsFit, DownsFit, Exclusive, Active, Upward, Ends, AllDown, schema, DownRun, Unrecorded, Ended, Goto, Versions
<1> QED
    BY <1>1, <1>2, <1>3, <1>4, <1>5, <1>6 DEF CommandsFit

LEMMA ResetListKeeps == ASSUME IInv, NEW p \in Procs, ResetList(p) PROVE CommandsFit' /\ RecordedHasTables' /\ (AllDown => NoHoles')
<1>1. Exclusive'
    BY DEF IInv, CommandsFit, TypeOK, Exclusive, Active, Upward, Ends, schema, ResetList, Begins, Goto
<1>2. UpsFit'
    BY FilesFit DEF IInv, CommandsFit, TypeOK, Exclusive, UpsFit, Active, Upward, Ends, schema, ResetList, Begins, Goto
<1>3. DownsFit'
    BY FilesFit DEF IInv, CommandsFit, TypeOK, Exclusive, DownsFit, Active, Upward, Ends, schema, ResetList, Begins, Goto
<1>4. TargetsFit'
    BY DEF IInv, CommandsFit, TypeOK, TargetsFit, schema, ResetList, Begins, Goto
<1>5. RecordedHasTables'
    BY FilesFit DEF IInv, CommandsFit, TypeOK, RecordedHasTables, Active, Ends, schema, ResetList, Begins, Goto
<1>6. AllDown => NoHoles'
    BY FilesFit DEF IInv, CommandsFit, TypeOK, NoHoles, UpsFit, DownsFit, Exclusive, Active, Upward, Ends, AllDown, schema, ResetList, Begins, Goto
<1> QED
    BY <1>1, <1>2, <1>3, <1>4, <1>5, <1>6 DEF CommandsFit

LEMMA ResetDropKeeps == ASSUME IInv, NEW p \in Procs, NEW t \in todo[p], ResetDrop(p, t) PROVE CommandsFit' /\ RecordedHasTables' /\ (AllDown => NoHoles')
<1>1. Exclusive'
    BY DEF IInv, CommandsFit, TypeOK, Exclusive, Active, Upward, Ends, schema, ResetDrop
<1>2. UpsFit'
    BY FilesFit DEF IInv, CommandsFit, TypeOK, Exclusive, UpsFit, Active, Upward, Ends, schema, ResetDrop
<1>3. DownsFit'
    BY FilesFit DEF IInv, CommandsFit, TypeOK, Exclusive, DownsFit, Active, Upward, Ends, schema, ResetDrop
<1>4. TargetsFit'
    BY DEF IInv, CommandsFit, TypeOK, TargetsFit, schema, ResetDrop
<1>5. RecordedHasTables'
    BY FilesFit DEF IInv, CommandsFit, TypeOK, RecordedHasTables, Active, Ends, schema, ResetDrop
<1>6. AllDown => NoHoles'
    BY FilesFit DEF IInv, CommandsFit, TypeOK, NoHoles, UpsFit, DownsFit, Exclusive, Active, Upward, Ends, AllDown, schema, ResetDrop
<1> QED
    BY <1>1, <1>2, <1>3, <1>4, <1>5, <1>6 DEF CommandsFit

LEMMA ResetEndKeeps == ASSUME IInv, NEW p \in Procs, ResetEnd(p) PROVE CommandsFit' /\ RecordedHasTables' /\ (AllDown => NoHoles')
<1>1. Exclusive'
    BY DEF IInv, CommandsFit, TypeOK, Exclusive, Active, Upward, Ends, schema, ResetEnd, Ended, Goto
<1>2. UpsFit'
    BY FilesFit DEF IInv, CommandsFit, TypeOK, Exclusive, UpsFit, Active, Upward, Ends, schema, ResetEnd, Ended, Goto
<1>3. DownsFit'
    BY FilesFit DEF IInv, CommandsFit, TypeOK, Exclusive, DownsFit, Active, Upward, Ends, schema, ResetEnd, Ended, Goto
<1>4. TargetsFit'
    BY DEF IInv, CommandsFit, TypeOK, TargetsFit, schema, ResetEnd, Ended, Goto
<1>5. RecordedHasTables'
    BY FilesFit DEF IInv, CommandsFit, TypeOK, RecordedHasTables, Active, Ends, schema, ResetEnd, Ended, Goto
<1>6. AllDown => NoHoles'
    BY FilesFit DEF IInv, CommandsFit, TypeOK, NoHoles, UpsFit, DownsFit, Exclusive, Active, Upward, Ends, AllDown, schema, ResetEnd, Ended, Goto
<1> QED
    BY <1>1, <1>2, <1>3, <1>4, <1>5, <1>6 DEF CommandsFit

LEMMA ForcedKeeps == ASSUME IInv, NEW p \in Procs, NEW v \in Versions, ForceVersion(p, v) PROVE CommandsFit' /\ RecordedHasTables' /\ (AllDown => NoHoles')
<1>1. Exclusive'
    BY DEF IInv, CommandsFit, TypeOK, Exclusive, Active, Upward, Ends, schema, ForceVersion, Begins, Goto
<1>2. UpsFit'
    BY FilesFit DEF IInv, CommandsFit, TypeOK, Exclusive, UpsFit, Active, Upward, Ends, schema, ForceVersion, Begins, Goto
<1>3. DownsFit'
    BY FilesFit DEF IInv, CommandsFit, TypeOK, Exclusive, DownsFit, Active, Upward, Ends, schema, ForceVersion, Begins, Goto
<1>4. TargetsFit'
    BY DEF IInv, CommandsFit, TypeOK, TargetsFit, schema, ForceVersion, Begins, Goto
<1>5. RecordedHasTables'
    BY FilesFit DEF IInv, CommandsFit, TypeOK, RecordedHasTables, Active, Ends, schema, ForceVersion, Begins, Goto
<1>6. AllDown => NoHoles'
    BY FilesFit DEF IInv, CommandsFit, TypeOK, NoHoles, UpsFit, DownsFit, Exclusive, Active, Upward, Ends, AllDown, schema, ForceVersion, Begins, Goto
<1> QED
    BY <1>1, <1>2, <1>3, <1>4, <1>5, <1>6 DEF CommandsFit

LEMMA StepKeeps == IInv /\ [Next]_vars => IInv'
<1> SUFFICES ASSUME IInv, [Next]_vars PROVE IInv'
    OBVIOUS
<1>t. TypeOK'
    BY TypesKept DEF IInv
<1>1. CASE UNCHANGED vars
    BY <1>1, <1>t DEF IInv, CommandsFit, RecordedHasTables, Exclusive, UpsFit, DownsFit,
       TargetsFit, NoHoles, Active, Upward, vars
<1>2. ASSUME NEW p \in Procs, Fail(p) PROVE IInv'
    BY <1>2, <1>t, FailKeeps DEF IInv
<1>3. ASSUME NEW p \in Procs, UpStep(p) PROVE IInv'
    BY <1>3, <1>t, UpEnsureKeeps, UpListKeeps, UpSkipKeeps, UpApplyKeeps, UpEndKeeps DEF UpStep, IInv
<1>4. ASSUME NEW p \in Procs, DownStep(p) PROVE IInv'
    BY <1>4, <1>t, DownEnsureKeeps, DownPassKeeps, DownPickKeeps, DownRunKeeps DEF DownStep, IInv
<1>5. ASSUME NEW p \in Procs, ResetStep(p) PROVE IInv'
    BY <1>5, <1>t, ResetListKeeps, ResetDropKeeps, ResetEndKeeps DEF ResetStep, IInv
<1>6. ASSUME NEW p \in Procs, NEW v \in Versions, ForceVersion(p, v) PROVE IInv'
    BY <1>6, <1>t, ForcedKeeps DEF IInv
<1> QED
    BY <1>1, <1>2, <1>3, <1>4, <1>5, <1>6, FilesAssumption DEF Next

LEMMA Invariance == Spec => []IInv
BY InitIInv, StepKeeps, PTL DEF Spec

\* Whatever the processes and the files, and however the commands overlap, fail
\* or die, a recorded version has its tables.
THEOREM RecordedVersionsHaveTables == Spec => []SchemaIsConsistent
<1>1. IInv => SchemaIsConsistent
    BY DEF IInv, SchemaIsConsistent
<1> QED
    BY <1>1, Invariance, PTL

\* When every file can be rolled back, the recorded versions have no hole.  A
\* Down passes over a version without a down file, and so leaves one.
THEOREM VersionsHaveNoHoles == ASSUME AllDown PROVE Spec => []NoHoles
<1>1. IInv => NoHoles
    BY DEF IInv
<1> QED
    BY <1>1, Invariance, PTL

\* An Up that ends has passed every file.
LEMMA UpIsComplete ==
    ASSUME Distinct, IInv, NEW p \in Procs, pc[p] = "up", todo[p] = {}, alone, whole
    PROVE  recorded = Versions /\ tables = Files
<1>1. recorded = Versions
    BY DEF IInv, CommandsFit, TypeOK, UpsFit, Versions
<1>2. \A q \in Procs : pc[q] # "reset"
    BY DEF IInv, CommandsFit, Exclusive, Active, Upward, Ends
<1>3. \A f \in Files : f \in tables
    BY <1>1, <1>2 DEF IInv, TypeOK, RecordedHasTables, Versions, Distinct
<1> QED
    BY <1>1, <1>3 DEF IInv, TypeOK

\* When no two files share a version, an Up that returns without an error has
\* applied every file or found it applied, with any number of other Ups.
THEOREM SuccessfulUpsAreComplete == ASSUME Distinct PROVE Spec => UpCompletes
<1>1. ASSUME IInv, [Next]_vars, NEW p \in Procs, pc[p] = "up", pc'[p] = "ok", alone, whole
      PROVE  recorded = Versions /\ tables = Files
    <2>1. todo[p] = {}
        <3> USE <1>1 DEF IInv, TypeOK
        <3>1. ASSUME NEW q \in Procs, Fail(q) PROVE todo[p] = {}
            BY <3>1 DEF Fail, Ended, Goto
        <3>2. ASSUME NEW q \in Procs, UpStep(q) PROVE todo[p] = {}
            BY <3>2 DEF UpStep, UpEnsure, Begins, UpList, UpEnd, UpSkip, UpApply, Ended, Goto
        <3>3. ASSUME NEW q \in Procs, DownStep(q) PROVE todo[p] = {}
            BY <3>3 DEF DownStep, DownEnsure, Begins, DownRun, DownPass, DownPick, Ended, Goto
        <3>4. ASSUME NEW q \in Procs, ResetStep(q) PROVE todo[p] = {}
            BY <3>4 DEF ResetStep, ResetList, Begins, ResetDrop, ResetEnd, Ended, Goto
        <3>5. ASSUME NEW q \in Procs, NEW v \in Versions, ForceVersion(q, v) PROVE todo[p] = {}
            BY <3>5 DEF ForceVersion, Begins, Active, Ends, Goto
        <3> QED
            BY <3>1, <3>2, <3>3, <3>4, <3>5, FilesAssumption DEF Next, vars
    <2> QED
        BY <1>1, <2>1, UpIsComplete
<1>2. IInv /\ [Next]_vars =>
        [\A p \in Procs : pc[p] = "up" /\ pc'[p] = "ok" /\ alone /\ whole =>
            recorded = Versions /\ tables = Files]_vars
    BY <1>1
<1> QED
    BY <1>2, Invariance, PTL DEF Spec, UpCompletes
=============================================================================
