----------------------------- MODULE DurableFile -----------------------------
(***************************************************************************)
(* The state and history files (lib/atomic-file.ts, lib/json-file.ts):     *)
(* replaceFileDurably step by step, against process crashes, power losses  *)
(* and I/O errors, and the load that moves an invalid file out of the way. *)
(*                                                                         *)
(* Contents are told apart by the number of the rename that published      *)
(* them.  `whole` says whether a file holds all of its contents, `flushed` *)
(* whether fsync has put them on the medium.  A rename is atomic, and      *)
(* until the directory is synced a power loss may undo it.                 *)
(***************************************************************************)
EXTENDS Naturals

CONSTANTS
    Writers,        \* replacements that may be in progress at one time
    NoFile,
    LoadsRaceSaves, \* may the file be replaced between a load's read and its rename?
    MaxVersions,    \* bound on renames
    MaxPowerLosses  \* bound on power losses

Files == [version : 0..MaxVersions, whole : BOOLEAN, flushed : BOOLEAN]

ASSUME FileAssumption  == NoFile \notin Files
ASSUME FlagAssumption  == LoadsRaceSaves \in BOOLEAN
ASSUME BoundAssumption == MaxVersions \in Nat /\ MaxPowerLosses \in Nat

VARIABLES
    dirSyncs,   \* does the file system accept fsync on a directory?
    pc,         \* where each writer is suspended in replaceFileDurably
    temp,       \* its temporary file; the name is unique to the call
    target,     \* what the file's name refers to
    survivors,  \* what it may refer to after a power loss
    loader,     \* a load: "idle", or "invalid" when what it read must be moved away
    version,    \* renames so far
    lost,       \* power losses so far
    confirmed   \* History: the file's version when a replacement last returned.

fileVars == <<target, survivors, version>>
vars == <<dirSyncs, pc, temp, fileVars, loader, lost, confirmed>>

Steps == {"idle", "write", "sync", "close", "rename", "sync_directory", "unlink"}

\* The file is absent, or somebody left an invalid one.
Init ==
    /\ dirSyncs \in BOOLEAN
    /\ pc = [w \in Writers |-> "idle"]
    /\ temp = [w \in Writers |-> NoFile]
    /\ target \in {NoFile, [version |-> 0, whole |-> FALSE, flushed |-> TRUE]}
    /\ survivors = {target}
    /\ loader = "idle"
    /\ version = 0
    /\ lost = 0
    /\ confirmed = 0

Goto(w, step) == pc' = [pc EXCEPT ![w] = step]

\* A failed step: the temporary file is unlinked, the error thrown on.
GiveUp(w) == Goto(w, "unlink") /\ UNCHANGED temp

(***************************************************************************)
(* replaceFileDurably                                                      *)
(***************************************************************************)

\* mkdir and open succeed (when one fails there is nothing to clean up).
OpenTemporary(w) ==
    /\ pc[w] = "idle"
    /\ loader = "idle" \/ LoadsRaceSaves
    /\ temp' = [temp EXCEPT ![w] = [version |-> 0, whole |-> FALSE, flushed |-> FALSE]]
    /\ Goto(w, "write")
    /\ UNCHANGED <<dirSyncs, fileVars, loader, lost, confirmed>>

\* Mutant of WriteFile: an error of the write goes unnoticed.
WriteFileUnchecked(w) ==
    /\ pc[w] = "write"
    /\ \E whole \in BOOLEAN : temp' = [temp EXCEPT ![w].whole = whole]
    /\ Goto(w, "sync")
    /\ UNCHANGED <<dirSyncs, fileVars, loader, lost, confirmed>>

WriteFile(w) ==
    /\ pc[w] = "write"
    /\ \/ temp' = [temp EXCEPT ![w].whole = TRUE] /\ Goto(w, "sync")
       \/ GiveUp(w)
    /\ UNCHANGED <<dirSyncs, fileVars, loader, lost, confirmed>>

\* Mutant of SyncFile: the contents are left to the page cache.
SyncFileNot(w) ==
    /\ pc[w] = "sync"
    /\ Goto(w, "close")
    /\ UNCHANGED <<dirSyncs, temp, fileVars, loader, lost, confirmed>>

SyncFile(w) ==
    /\ pc[w] = "sync"
    /\ \/ temp' = [temp EXCEPT ![w].flushed = TRUE] /\ Goto(w, "close")
       \/ GiveUp(w)
    /\ UNCHANGED <<dirSyncs, fileVars, loader, lost, confirmed>>

CloseFile(w) ==
    /\ pc[w] = "close"
    /\ Goto(w, "rename") \/ Goto(w, "unlink")
    /\ UNCHANGED <<dirSyncs, temp, fileVars, loader, lost, confirmed>>

RenameOver(w) ==
    /\ pc[w] = "rename"
    /\ \/ /\ version < MaxVersions
          /\ version' = version + 1
          /\ target' = [temp[w] EXCEPT !.version = version']
          /\ survivors' = survivors \cup {target'}
          /\ temp' = [temp EXCEPT ![w] = NoFile]
          /\ Goto(w, "sync_directory")
       \/ GiveUp(w) /\ UNCHANGED fileVars
    /\ UNCHANGED <<dirSyncs, loader, lost, confirmed>>

\* The replacement returns to its caller.
Confirm(w, v) ==
    /\ Goto(w, "idle")
    /\ confirmed' = v

\* Mutant of SyncDirectory: it returns without the sync.
SyncDirectoryNot(w) ==
    /\ pc[w] = "sync_directory"
    /\ Confirm(w, version)
    /\ UNCHANGED <<dirSyncs, temp, fileVars, loader, lost>>

\* The directory's sync makes every rename so far permanent.  One that the file
\* system does not support is passed over; another error fails the replacement,
\* with the file already replaced.
SyncDirectory(w) ==
    /\ pc[w] = "sync_directory"
    /\ \/ dirSyncs /\ survivors' = {target} /\ Confirm(w, version)
       \/ ~dirSyncs /\ UNCHANGED survivors /\ Confirm(w, version)
       \/ UNCHANGED <<survivors, confirmed>> /\ Goto(w, "idle")
    /\ UNCHANGED <<dirSyncs, temp, target, version, loader, lost>>

\* The unlink may fail, too: then the temporary file stays, under a name that
\* nobody will use again.
Unlink(w) ==
    /\ pc[w] = "unlink"
    /\ temp' = [temp EXCEPT ![w] = NoFile]
    /\ Goto(w, "idle")
    /\ UNCHANGED <<dirSyncs, fileVars, loader, lost, confirmed>>

(***************************************************************************)
(* loadValidatedJsonFile                                                   *)
(***************************************************************************)

\* A file that cannot be parsed is to be moved away; otherwise (no file, a whole
\* one, a read error) the load is over.
LoadInvalid ==
    /\ loader = "idle"
    /\ LoadsRaceSaves \/ \A w \in Writers : pc[w] = "idle"
    /\ target # NoFile /\ ~target.whole
    /\ loader' = "invalid"
    /\ UNCHANGED <<dirSyncs, pc, temp, fileVars, lost, confirmed>>

\* The rename takes whatever has the file's name by now, or fails.
Quarantine ==
    /\ loader = "invalid"
    /\ loader' = "idle"
    /\ \/ target' = NoFile /\ survivors' = survivors \cup {NoFile}
       \/ UNCHANGED <<target, survivors>>
    /\ UNCHANGED <<dirSyncs, pc, temp, version, lost, confirmed>>

(***************************************************************************)
(* Failures                                                                *)
(***************************************************************************)

\* The process of a writer dies; what it wrote stays in the page cache.
Crash(w) ==
    /\ pc[w] # "idle"
    /\ temp' = [temp EXCEPT ![w] = NoFile]
    /\ Goto(w, "idle")
    /\ UNCHANGED <<dirSyncs, fileVars, loader, lost, confirmed>>

\* What is left of a file: all of it if it was flushed, else all or a part.
Remains(f) ==
    IF f = NoFile \/ f.flushed THEN {f}
    ELSE {[f EXCEPT !.flushed = TRUE, !.whole = kept /\ f.whole] : kept \in BOOLEAN}

PowerLoss ==
    /\ lost < MaxPowerLosses
    /\ lost' = lost + 1
    /\ \E f \in survivors : target' \in Remains(f)
    /\ survivors' = {target'}
    /\ pc' = [w \in Writers |-> "idle"]
    /\ temp' = [w \in Writers |-> NoFile]
    /\ loader' = "idle"
    /\ UNCHANGED <<dirSyncs, version, confirmed>>

-----------------------------------------------------------------------------

Replace(w) ==
    \/ OpenTemporary(w) \/ WriteFile(w) \/ SyncFile(w) \/ CloseFile(w)
    \/ RenameOver(w) \/ SyncDirectory(w) \/ Unlink(w)

Next ==
    \/ \E w \in Writers : Replace(w) \/ Crash(w)
    \/ LoadInvalid \/ Quarantine
    \/ PowerLoss

Spec == Init /\ [][Next]_vars
-----------------------------------------------------------------------------
(***************************************************************************)
(* Properties                                                              *)
(***************************************************************************)

TypeOK ==
    /\ dirSyncs \in BOOLEAN
    /\ pc \in [Writers -> Steps]
    /\ temp \in [Writers -> Files \cup {NoFile}]
    /\ \A w \in Writers : temp[w] = NoFile <=> pc[w] \in {"idle", "sync_directory"}
    /\ target \in Files \cup {NoFile}
    /\ survivors \subseteq Files \cup {NoFile}
    /\ loader \in {"idle", "invalid"}
    /\ version \in 0..MaxVersions
    /\ lost \in 0..MaxPowerLosses
    /\ confirmed \in 0..MaxVersions

\* The version a reader gets: none of a file that is missing or invalid.
VersionOf(f) == IF f = NoFile \/ ~f.whole THEN 0 ELSE f.version

\* Once replaceFileDurably has returned, no power loss brings back an older file
\* than the one it wrote (where directories can be synced).
ConfirmedSurvives ==
    dirSyncs => \A f \in survivors : VersionOf(f) >= confirmed

\* The files a reader finds, now or after a power loss, are whole, whatever step
\* the writers, crashes and errors have reached: only a file that was there before
\* the first replacement can be invalid.
WholeFiles ==
    \A f \in survivors : f # NoFile /\ f.version > 0 => f.whole /\ f.flushed

\* The file implements the register: each replacement shows at once and entirely,
\* and a power loss can only choose between contents published since the last
\* directory sync.
Register == INSTANCE DurableRegister WITH
    visible   <- VersionOf(target),
    survivors <- {VersionOf(f) : f \in survivors}

ImplementsRegister == Register!Spec
=============================================================================
