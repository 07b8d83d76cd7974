---------------------------- MODULE ConfigStore ----------------------------
(***************************************************************************)
(* The files of the configuration store (config.rs): config.json, the      *)
(* temporary file a save writes and the backup it keeps while it replaces. *)
(* Each operator is one call to the file system; the control flow of save  *)
(* is in TrayController.                                                   *)
(***************************************************************************)

CONSTANTS
  Missing,  \* there is no file, or no configuration
  Torn      \* a file that was not written to its end: load returns a parse error

Names == {"config", "temporary", "backup"}

Exists(files, name) == files[name] # Missing

Written(files, name, content) == [files EXCEPT ![name] = content]

Removed(files, name) == [files EXCEPT ![name] = Missing]

\* fs::rename, which replaces the file that has the new name.
Renamed(files, from, to) == [files EXCEPT ![to] = files[from], ![from] = Missing]

\* Mutant of Restored: the error path of replace_file forgets the backup.
RestoredNever(files) == Removed(files, "config")

\* The error path of replace_file: the backup becomes the configuration again.
Restored(files) ==
  IF Exists(files, "backup") THEN Renamed(files, "backup", "config")
                             ELSE Removed(files, "config")

=============================================================================
