-------------------------- MODULE DurableFileProofs --------------------------
(***************************************************************************)
(* Proofs about DurableFile, for any number of writers, renames and power  *)
(* losses: files are whole, confirmed replacements survive, and the file   *)
(* implements DurableRegister.                                             *)
(*                                                                         *)
(* The inductive invariant says what each step of replaceFileDurably has   *)
(* achieved by the time the next one runs: a temporary file is whole from  *)
(* its write on and flushed from its sync on, so whatever a rename         *)
(* publishes is both, and a power loss can neither tear it nor, after the  *)
(* directory's sync, undo it.                                              *)
(***************************************************************************)
EXTENDS DurableFile, TLAPS

\* What the steps so far have done to a temporary file.
TempInv ==
    \A w \in Writers :
        /\ pc[w] \in {"sync", "close", "rename"} => temp[w].whole
        /\ pc[w] \in {"close", "rename"} => temp[w].flushed

\* The file and what a power loss may make of it.  While a directory's sync is to
\* come the file is the latest version.
FileInv ==
    /\ target \in survivors
    /\ confirmed <= version
    /\ \A f \in survivors : f # NoFile =>
          f.version <= version /\ f.flushed /\ (f.version > 0 => f.whole)
    /\ \A w \in Writers : pc[w] = "sync_directory" =>
          target # NoFile /\ target.whole /\ target.version = version

\* A load moves away the invalid file that it has read.
LoaderInv ==
    loader = "invalid" =>
        target # NoFile /\ ~target.whole /\ \A w \in Writers : pc[w] = "idle"

IInv == TypeOK /\ TempInv /\ FileInv /\ LoaderInv /\ ConfirmedSurvives

\* A file that is flushed survives a power loss as it is.
LEMMA FlushedRemains ==
    ASSUME NEW f, f = NoFile \/ f.flushed
    PROVE  Remains(f) = {f}
  BY DEF Remains

LEMMA InitIInv == Init => IInv
<1> SUFFICES ASSUME Init PROVE IInv
  OBVIOUS
<1>1. [version |-> 0, whole |-> FALSE, flushed |-> TRUE] \in Files
  BY BoundAssumption DEF Files
<1>2. TypeOK
  <2>1. target \in Files \cup {NoFile} /\ survivors \subseteq Files \cup {NoFile}
    BY <1>1 DEF Init
  <2> QED
    BY <2>1, BoundAssumption DEF Init, TypeOK, Steps
<1>3. TempInv /\ LoaderInv
  BY DEF Init, TempInv, LoaderInv
<1>4. FileInv
  BY DEF Init, FileInv
<1>5. ConfirmedSurvives
  BY <1>1, FileAssumption DEF Init, ConfirmedSurvives, VersionOf
<1> QED
  BY <1>2, <1>3, <1>4, <1>5 DEF IInv

LEMMA NextIInv ==
    ASSUME ~LoadsRaceSaves, IInv, [Next]_vars
    PROVE  IInv'
<1> USE BoundAssumption, FileAssumption DEF Files, Steps, Goto, GiveUp, fileVars
<1>0. /\ TypeOK /\ TempInv /\ FileInv /\ LoaderInv /\ ConfirmedSurvives
  BY DEF IInv
<1>1. ASSUME NEW w \in Writers, OpenTemporary(w) PROVE IInv'
  <2> DEFINE f == [version |-> 0, whole |-> FALSE, flushed |-> FALSE]
  <2>1. f \in Files
    BY BoundAssumption DEF Files
  <2>2. f # NoFile
    <3> HIDE DEF f, Files
    <3> QED BY <2>1, FileAssumption
  <2> HIDE DEF f, Files
  <2>3. TypeOK'
    BY <1>0, <1>1, <2>1, <2>2 DEF OpenTemporary, TypeOK, f
  <2>4. TempInv'
    BY <1>0, <1>1 DEF OpenTemporary, TypeOK, TempInv
  <2>5. FileInv' /\ LoaderInv'
    BY <1>0, <1>1 DEF OpenTemporary, TypeOK, FileInv, LoaderInv
  <2>6. ConfirmedSurvives'
    BY <1>0, <1>1 DEF OpenTemporary, TypeOK, FileInv, ConfirmedSurvives, VersionOf
  <2> QED
    BY <2>3, <2>4, <2>5, <2>6 DEF IInv
<1>2. ASSUME NEW w \in Writers, WriteFile(w) PROVE IInv'
  <2> DEFINE f == [temp[w] EXCEPT !.whole = TRUE]
  <2>1. f \in Files /\ f # NoFile
    BY <1>0, <1>2 DEF WriteFile, TypeOK
  <2>2. temp' \in {temp, [temp EXCEPT ![w] = f]}
    BY <1>2 DEF WriteFile
  <2>3. temp' \in [Writers -> Files \cup {NoFile}] /\ temp'[w] # NoFile /\ \A v \in Writers \ {w} : temp'[v] = temp[v]
    <3> HIDE DEF f, Files
    <3> QED BY <1>0, <1>2, <2>1, <2>2 DEF WriteFile, TypeOK
  <2>4. TypeOK'
    <3> HIDE DEF f, Files
    <3> QED BY <1>0, <1>2, <2>3 DEF WriteFile, TypeOK
  <2>5. TempInv'
    BY <1>0, <1>2 DEF WriteFile, TypeOK, TempInv
  <2>6. FileInv' /\ LoaderInv'
    BY <1>0, <1>2 DEF WriteFile, TypeOK, FileInv, LoaderInv
  <2>7. ConfirmedSurvives'
    BY <1>0, <1>2 DEF WriteFile, TypeOK, FileInv, ConfirmedSurvives, VersionOf
  <2> QED
    BY <2>4, <2>5, <2>6, <2>7 DEF IInv
<1>3. ASSUME NEW w \in Writers, SyncFile(w) PROVE IInv'
  <2> DEFINE f == [temp[w] EXCEPT !.flushed = TRUE]
  <2>1. f \in Files /\ f # NoFile
    BY <1>0, <1>3 DEF SyncFile, TypeOK
  <2>2. temp' \in {temp, [temp EXCEPT ![w] = f]}
    BY <1>3 DEF SyncFile
  <2>3. temp' \in [Writers -> Files \cup {NoFile}] /\ temp'[w] # NoFile /\ \A v \in Writers \ {w} : temp'[v] = temp[v]
    <3> HIDE DEF f, Files
    <3> QED BY <1>0, <1>3, <2>1, <2>2 DEF SyncFile, TypeOK
  <2>4. TypeOK'
    <3> HIDE DEF f, Files
    <3> QED BY <1>0, <1>3, <2>3 DEF SyncFile, TypeOK
  <2>5. TempInv'
    BY <1>0, <1>3 DEF SyncFile, TypeOK, TempInv
  <2>6. FileInv' /\ LoaderInv'
    BY <1>0, <1>3 DEF SyncFile, TypeOK, FileInv, LoaderInv
  <2>7. ConfirmedSurvives'
    BY <1>0, <1>3 DEF SyncFile, TypeOK, FileInv, ConfirmedSurvives, VersionOf
  <2> QED
    BY <2>4, <2>5, <2>6, <2>7 DEF IInv
<1>4. ASSUME NEW w \in Writers, CloseFile(w) PROVE IInv'
  BY <1>0, <1>4 DEF CloseFile, IInv, TypeOK, TempInv, FileInv, LoaderInv, ConfirmedSurvives, VersionOf
<1>5. ASSUME NEW w \in Writers, RenameOver(w) PROVE IInv'
  BY <1>0, <1>5 DEF RenameOver, IInv, TypeOK, TempInv, FileInv, LoaderInv, ConfirmedSurvives, VersionOf
<1>6. ASSUME NEW w \in Writers, SyncDirectory(w) PROVE IInv'
  <2>1. TypeOK'
    BY <1>0, <1>6 DEF SyncDirectory, Confirm, TypeOK
  <2>2. TempInv'
    BY <1>0, <1>6 DEF SyncDirectory, Confirm, TypeOK, TempInv
  <2>3. FileInv' /\ LoaderInv'
    BY <1>0, <1>6 DEF SyncDirectory, Confirm, TypeOK, FileInv, LoaderInv
  <2>4. ConfirmedSurvives'
    BY <1>0, <1>6 DEF SyncDirectory, Confirm, TypeOK, FileInv, ConfirmedSurvives, VersionOf
  <2> QED
    BY <2>1, <2>2, <2>3, <2>4 DEF IInv
<1>7. ASSUME NEW w \in Writers, Unlink(w) PROVE IInv'
  BY <1>0, <1>7 DEF Unlink, IInv, TypeOK, TempInv, FileInv, LoaderInv, ConfirmedSurvives, VersionOf
<1>8. ASSUME NEW w \in Writers, Crash(w) PROVE IInv'
  BY <1>0, <1>8 DEF Crash, IInv, TypeOK, TempInv, FileInv, LoaderInv, ConfirmedSurvives, VersionOf
<1>9. CASE LoadInvalid
  BY <1>0, <1>9 DEF LoadInvalid, IInv, TypeOK, TempInv, FileInv, LoaderInv, ConfirmedSurvives, VersionOf
<1>10. CASE Quarantine
  BY <1>0, <1>10 DEF Quarantine, IInv, TypeOK, TempInv, FileInv, LoaderInv, ConfirmedSurvives, VersionOf
<1>11. CASE PowerLoss
  BY <1>0, <1>11, FlushedRemains DEF PowerLoss, IInv, TypeOK, TempInv, FileInv, LoaderInv, ConfirmedSurvives, VersionOf
<1>12. CASE UNCHANGED vars
  BY <1>0, <1>12 DEF vars, IInv, TypeOK, TempInv, FileInv, LoaderInv, ConfirmedSurvives, VersionOf
<1> QED
  BY <1>1, <1>2, <1>3, <1>4, <1>5, <1>6, <1>7, <1>8, <1>9, <1>10, <1>11, <1>12 DEF Next, Replace

LEMMA Invariance == ASSUME ~LoadsRaceSaves PROVE Spec => []IInv
<1>1. Init => IInv
  BY InitIInv
<1>2. IInv /\ [Next]_vars => IInv'
  BY NextIInv
<1> QED
  BY <1>1, <1>2, PTL DEF Spec

\* Type correctness, and with it: a temporary file exists exactly while the
\* replacement that created it needs it (replaceFileDurably's `renamed` flag).
THEOREM TypeCorrect == ASSUME ~LoadsRaceSaves PROVE Spec => []TypeOK
<1>1. IInv => TypeOK
  BY DEF IInv
<1> QED
  BY <1>1, Invariance, PTL

\* What replaceFileDurably has published is whole, and stays so over a power loss.
THEOREM FilesAreWhole == ASSUME ~LoadsRaceSaves PROVE Spec => []WholeFiles
<1>1. IInv => WholeFiles
  BY DEF IInv, FileInv, WholeFiles
<1> QED
  BY <1>1, Invariance, PTL

\* A replacement that has returned is never undone (atomic-file.ts:68-70).
THEOREM ReplacementIsDurable == ASSUME ~LoadsRaceSaves PROVE Spec => []ConfirmedSurvives
<1>1. IInv => ConfirmedSurvives
  BY DEF IInv
<1> QED
  BY <1>1, Invariance, PTL

-----------------------------------------------------------------------------

LEMMA InitRefines == Init => Register!Init
  BY FileAssumption DEF Init, Register!Init, VersionOf

LEMMA StepRefines ==
    ASSUME ~LoadsRaceSaves, IInv, [Next]_vars
    PROVE  [Register!Next]_Register!vars
<1> USE DEF fileVars
<1>0. /\ TypeOK /\ TempInv /\ FileInv /\ LoaderInv
  BY DEF IInv
<1>1. ASSUME UNCHANGED <<target, survivors>> PROVE UNCHANGED Register!vars
  BY <1>1 DEF Register!vars, VersionOf
<1>2. ASSUME NEW w \in Writers, RenameOver(w) PROVE [Register!Next]_Register!vars
  <2>1. CASE UNCHANGED fileVars
    BY <1>1, <2>1
  <2>2. CASE version < MaxVersions /\ version' = version + 1
    <3>1. /\ VersionOf(target') = version + 1
          /\ survivors' = survivors \cup {target'}
      <4>1. temp[w] \in Files /\ temp[w].whole /\ version \in Nat
        BY <1>0, <1>2, BoundAssumption DEF RenameOver, TypeOK, TempInv
      <4>2. /\ target' = [temp[w] EXCEPT !.version = version + 1]
            /\ survivors' = survivors \cup {target'}
        BY <1>2, <2>2, <4>1 DEF RenameOver
      <4>3. target' \in Files /\ target'.whole /\ target'.version = version + 1
        BY <2>2, <4>1, <4>2, BoundAssumption DEF Files
      <4> QED
        BY <4>2, <4>3, FileAssumption DEF VersionOf
    <3>2. \A f \in survivors : VersionOf(f) < version + 1
      <4> SUFFICES ASSUME NEW f \in survivors PROVE VersionOf(f) < version + 1
        OBVIOUS
      <4>1. version \in Nat
        BY <1>0, BoundAssumption DEF TypeOK
      <4>2. CASE f = NoFile
        BY <4>1, <4>2 DEF VersionOf
      <4>3. CASE f # NoFile
        <5>1. f.version <= version /\ f.version \in Nat
          BY <1>0, <4>3, BoundAssumption DEF TypeOK, FileInv, Files
        <5> QED
          BY <4>1, <5>1 DEF VersionOf
      <4> QED
        BY <4>2, <4>3
    <3>3. VersionOf(target) < version + 1
      BY <1>0, <3>2 DEF FileInv
    <3> QED
      BY <3>1, <3>2, <3>3 DEF Register!Next, Register!Publish
  <2> QED
    BY <1>2, <2>1, <2>2 DEF RenameOver
<1>3. ASSUME NEW w \in Writers, SyncDirectory(w) PROVE [Register!Next]_Register!vars
  <2>1. CASE UNCHANGED survivors
    BY <1>1, <1>3, <2>1 DEF SyncDirectory
  <2>2. CASE survivors' = {target}
    BY <1>3, <2>2 DEF SyncDirectory, Register!Next, Register!Harden, VersionOf
  <2> QED
    BY <1>3, <2>1, <2>2 DEF SyncDirectory
<1>4. CASE Quarantine
  <2>1. VersionOf(target) = 0 /\ VersionOf(NoFile) = 0 /\ target \in survivors
    BY <1>0, <1>4 DEF Quarantine, LoaderInv, FileInv, VersionOf
  <2>2. CASE target' = NoFile /\ survivors' = survivors \cup {NoFile}
    BY <2>1, <2>2 DEF Register!vars
  <2> QED
    BY <1>1, <1>4, <2>2 DEF Quarantine
<1>5. CASE PowerLoss
  <2>1. PICK f \in survivors : target' \in Remains(f)
    BY <1>5 DEF PowerLoss
  <2>2. target' = f /\ survivors' = {f}
    BY <1>0, <1>5, <2>1, FlushedRemains DEF PowerLoss, FileInv
  <2> QED
    BY <2>1, <2>2 DEF Register!Next, Register!PowerLoss
<1> QED
  BY <1>1, <1>2, <1>3, <1>4, <1>5
     DEF Next, Replace, OpenTemporary, WriteFile, SyncFile, CloseFile, Unlink, Crash, LoadInvalid, vars

\* The file is the register that the state store and the history take it for: every
\* step of a replacement, a failure or a load is a step of DurableRegister or none.
THEOREM FileImplementsRegister == ASSUME ~LoadsRaceSaves PROVE Spec => ImplementsRegister
<1>1. Init => Register!Init
  BY InitRefines
<1>2. IInv /\ [Next]_vars => [Register!Next]_Register!vars
  BY StepRefines
<1> QED
  BY <1>1, <1>2, Invariance, PTL DEF Spec, ImplementsRegister, Register!Spec
=============================================================================
