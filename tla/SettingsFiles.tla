--------------------------- MODULE SettingsFiles ---------------------------
(***************************************************************************)
(* settings.json and its backup: the steps of a save, the start of the     *)
(* process with its recovery, and what a crash or a loss of power leaves.  *)
(*                                                                         *)
(* Saves are serialized by the transaction lock and the start runs before  *)
(* any command, so one file operation is under way at a time: "steps" are  *)
(* the steps it has left.  A step replaces an entry by a file that was     *)
(* written and synced beforehand, moves an entry aside, or syncs the       *)
(* directory; a failure to write the new file is a failure to replace.     *)
(***************************************************************************)
EXTENDS SettingsData

CONSTANTS
  Faults,      \* what may go wrong, see the actions
  Installed    \* the documents an earlier run may have left; the default one
               \* stands for a fresh installation, without a file

VARIABLES
  files,      \* the directory entries as programs see them
  disk,       \* for each entry, the contents a loss of power may leave
  steps,      \* what is left of the file operation under way
  load,       \* the start of the process: its stage and what it found
  promised    \* what a start would have found before a change from outside
              \* that makes it recover or find something else, {} without one

fileVars == <<files, disk, steps, load, promised>>

Names == {"primary", "backup"}
Replace(name, file) == [op |-> "replace", name |-> name, file |-> file]
SetAside(name) == [op |-> "aside", name |-> name, file |-> Missing]
SyncDirectory == [op |-> "sync", name |-> "primary", file |-> Missing]

Off == [stage |-> "off", settings |-> DefaultSettings, notice |-> FALSE]
Loading == load.stage \in {"read", "recover", "finish"}
Running == load.stage = "done"

FilesInit(document) ==
  /\ files = [n \in Names |-> IF n = "primary" /\ document # DefaultSettings
                               THEN Current(document) ELSE Missing]
  /\ disk = [n \in Names |-> {files[n]}]
  /\ steps = <<>>
  /\ load = Off
  /\ promised = {}

-----------------------------------------------------------------------------
(* What a start makes of the two files when nothing interrupts it. *)

LoadOutcome(primary, backup) ==
  IF primary.kind = "damaged" /\ Decodable(backup) THEN Decoded(backup)
  ELSE IF Decodable(primary) THEN Decoded(primary)
  ELSE DefaultSettings

\* Everything a start may find, whatever of the directory reached the disk.
Loadable ==
  {LoadOutcome(p, b) : p \in disk["primary"], b \in disk["backup"]}

-----------------------------------------------------------------------------
(* The steps of a save. *)

\* Fault: only a file that cannot be read is spared.
SavesWhatItReads(primary) == primary.kind = "missing" \/ Decodable(primary)

\* A file that is there must be one this version can write again.
SaveAllowed(primary) ==
  primary.kind = "missing" \/ (Decodable(primary) /\ ~ReadOnlyFile(primary))

\* The previous file becomes the backup before the new one replaces it.
SaveSteps(primary, settings) ==
  (IF primary.kind = "missing" THEN <<>>
   ELSE <<Replace("backup", primary), SyncDirectory>>)
  \o <<Replace("primary", Current(settings)), SyncDirectory>>

\* Fault: the new file is not synced before it replaces the old one.
Unsynced(file) == {file, Damaged}

\* The contents an entry has after a loss of power, once it was replaced by a
\* file that was synced before.
Lasting(file) == {file}

FileStep ==
  /\ steps # <<>>
  /\ LET step == Head(steps)
     IN  CASE step.op = "sync" ->
                /\ disk' = [n \in Names |-> {files[n]}]
                /\ UNCHANGED files
           [] step.op = "replace" ->
                /\ files' = [files EXCEPT ![step.name] = step.file]
                /\ disk' = [disk EXCEPT ![step.name] = @ \cup Lasting(step.file)]
           [] step.op = "aside" ->
                /\ files' = [files EXCEPT ![step.name] = Missing]
                /\ disk' = [disk EXCEPT ![step.name] = @ \cup {Missing}]
  /\ steps' = Tail(steps)
  /\ UNCHANGED <<load, promised>>

\* The next step fails and the rest is not done.
FileStepFails ==
  /\ "io" \in Faults
  /\ steps # <<>>
  /\ steps' = <<>>
  /\ UNCHANGED <<files, disk, promised>>

-----------------------------------------------------------------------------
(* The start: load_from_path, then the publication by the caller. *)

StartProcess ==
  /\ load.stage = "off"
  /\ load' = [Off EXCEPT !.stage = "read"]
  /\ UNCHANGED <<files, disk, steps, promised>>

Finish(settings, notice, todo) ==
  /\ load' = [stage |-> "finish", settings |-> settings, notice |-> notice]
  /\ steps' = todo
  /\ UNCHANGED <<files, disk, promised>>

LoadMissing ==
  /\ load.stage = "read" /\ files["primary"].kind = "missing"
  /\ Finish(DefaultSettings, FALSE, SaveSteps(Missing, DefaultSettings))

LoadDecodes ==
  LET primary == files["primary"]
  IN  /\ load.stage = "read" /\ Decodable(primary)
      /\ Finish(Decoded(primary), primary.kind = "future",
                IF NeedsResave(primary)
                THEN SaveSteps(primary, Decoded(primary)) ELSE <<>>)

LoadFindsDamage ==
  /\ load.stage = "read" /\ files["primary"].kind = "damaged"
  /\ load' = [load EXCEPT !.stage = "recover"]
  /\ steps' = <<SetAside("primary"), SyncDirectory>>
  /\ UNCHANGED <<files, disk, promised>>

\* The backup is put back as it is, and rewritten when it is an old document.
RecoverFromBackup ==
  LET backup == files["backup"]
  IN  /\ load.stage = "recover" /\ steps = <<>> /\ Decodable(backup)
      /\ Finish(Decoded(backup), TRUE,
                <<Replace("primary", backup), SyncDirectory>>
                \o IF NeedsResave(backup)
                   THEN SaveSteps(backup, Decoded(backup)) ELSE <<>>)

\* Fault: nobody is told that the defaults stand in.
RecoverSilently ==
  LET backup == files["backup"]
  IN  /\ load.stage = "recover" /\ steps = <<>> /\ ~Decodable(backup)
      /\ Finish(DefaultSettings, FALSE,
                (IF backup.kind = "damaged"
                 THEN <<SetAside("backup"), SyncDirectory>> ELSE <<>>)
                \o SaveSteps(Missing, DefaultSettings))

RecoverDefaults ==
  LET backup == files["backup"]
  IN  /\ load.stage = "recover" /\ steps = <<>> /\ ~Decodable(backup)
      /\ Finish(DefaultSettings, TRUE,
                (IF backup.kind = "damaged"
                 THEN <<SetAside("backup"), SyncDirectory>> ELSE <<>>)
                \o SaveSteps(Missing, DefaultSettings))

\* A recovery is interrupted only where "interrupted" says so.
MayStop ==
  load.stage # "off"
  /\ (Loading /\ promised # {} => "interrupted" \in Faults)

\* The process does not come up when its load fails.
LoadFails ==
  /\ Loading /\ MayStop
  /\ FileStepFails
  /\ load' = Off

LoadCompletes ==
  /\ load.stage = "finish" /\ steps = <<>>
  /\ load' = [load EXCEPT !.stage = "done"]
  /\ promised' = {}
  /\ UNCHANGED <<files, disk, steps>>

LoadStep ==
  \/ LoadMissing \/ LoadDecodes \/ LoadFindsDamage
  \/ RecoverFromBackup \/ RecoverDefaults
  \/ (Loading /\ FileStep)

-----------------------------------------------------------------------------
(* What happens from outside. *)

ProcessStops ==
  /\ "crash" \in Faults /\ MayStop
  /\ load' = Off
  /\ steps' = <<>>
  /\ UNCHANGED <<files, disk, promised>>

PowerLoss ==
  /\ "power" \in Faults /\ MayStop
  /\ \E p \in disk["primary"], b \in disk["backup"] :
       /\ files' = [n \in Names |-> IF n = "primary" THEN p ELSE b]
       /\ disk' = [n \in Names |-> {files'[n]}]
  /\ load' = Off
  /\ steps' = <<>>
  /\ UNCHANGED promised

\* A file is put into the directory from outside, between file operations: by
\* a defect of the medium, another version of the program or by hand.
PutFile(name, file) ==
  /\ steps = <<>> /\ ~Loading
  /\ files[name].kind # "missing"
  /\ files' = [files EXCEPT ![name] = file]
  /\ disk' = [disk EXCEPT ![name] = {file}]
  /\ promised' =
       IF promised = {}
          /\ (files'["primary"] = Damaged \/ ~(Loadable' \subseteq Loadable))
       THEN Loadable ELSE promised
  /\ UNCHANGED <<steps, load>>

Damage == \E n \in Names : "damage" \in Faults /\ PutFile(n, Damaged)
OtherVersion ==
  \E kind \in {"old", "extra", "future"} :
    "version" \in Faults /\ files["primary"].kind = "current"
    /\ PutFile("primary", File(kind, files["primary"].settings))
=============================================================================
