--------------------------- MODULE TrayController ---------------------------
(***************************************************************************)
(* The tray of MiniAEC (audio.rs, main.rs): the main thread, which boots   *)
(* the tray and handles its menu, and the polling thread, which looks for  *)
(* changed devices, both applying configurations to one engine.  Every     *)
(* field of TrayEngine has a mutex of its own, so a step is one lock, or   *)
(* the flags of the default choices read or written one after the other.   *)
(*                                                                         *)
(* A role is one selector of the menu; the VB-CABLE pair is a role without *)
(* a default.  A configuration's mode, devices and default choices are     *)
(* modelled, endpoint ids are model values.  Left out: the recorded error  *)
(* texts and the menu's items, which only show the state, and draft.mode,  *)
(* which nothing reads.  DeviceInventory::discover lists no VB-CABLE       *)
(* endpoint as a microphone or render, so that validate_configuration's    *)
(* feedback tests follow from its membership tests.                        *)
(*                                                                         *)
(* Leaving the process by the menu's Quit, by a crash or by a power loss   *)
(* is one action: the polling thread is not waited for in any of them.     *)
(***************************************************************************)
EXTENDS ConfigStore, Naturals, Sequences

CONSTANTS
  Roles,         \* selectors, most needed in every mode; "render" only in AEC
  DefaultRoles,  \* those with a system default
  NoDevice,      \* nothing selected
  Inventories,   \* what the device enumeration can find
  Environments,  \* overrides: a configuration, Torn if incomplete, Missing if none
  Stored,        \* contents of config.json before the first boot
  MaxCommands,   \* bound on the menu commands
  MaxChanges,    \* bound on the changes of the devices
  MaxExits,      \* bound on the exits of the process
  MaxFaults      \* bound on the failing calls to the system

Threads == {"main", "poll"}
Modes == {"Bypass", "Aec"}

DevicesOf(role) == UNION {{inventory.list[role][i] : i \in DOMAIN inventory.list[role]} :
                            inventory \in Inventories}
Devices == UNION {DevicesOf(role) : role \in Roles}

Configurations ==
  [mode : Modes, device : [Roles -> Devices \union {NoDevice}],
   follows : [DefaultRoles -> BOOLEAN]]

ASSUME TrayAssumption ==
  /\ DefaultRoles \subseteq Roles
  /\ Roles \ {"render"} # {}
  /\ {MaxCommands, MaxChanges, MaxExits, MaxFaults} \subseteq Nat
  /\ Missing # Torn /\ {Missing, Torn} \intersect Configurations = {}
  /\ NoDevice \notin Devices
  /\ Environments \union Stored \subseteq Configurations \union {Missing, Torn}
  /\ Inventories \subseteq [list : [Roles -> Seq(Devices)],
                            default : [DefaultRoles -> Devices \union {NoDevice}]]

VARIABLES
  files,    \* the file system
  system,   \* the devices that are plugged in
  tray,     \* the fields of TrayEngine
  engine,   \* the configuration the engine runs, Missing if it is stopped, Torn
            \* if it could not be stopped
  thread,   \* the two threads with their local variables
  budget,   \* what is left of the bounds
  history   \* history: what the properties need to know of the past

vars == <<files, system, tray, engine, thread, budget, history>>

-----------------------------------------------------------------------------
(* Values of the state.                                                    *)

NoInventory == [list |-> [r \in Roles |-> <<>>], default |-> [r \in DefaultRoles |-> NoDevice]]
NoSelection == [r \in Roles |-> NoDevice]
NoFollow == [r \in DefaultRoles |-> FALSE]
NoCandidate == [mode |-> "Bypass", device |-> NoSelection, follows |-> NoFollow]

Listed(inventory, role) == {inventory.list[role][i] : i \in DOMAIN inventory.list[role]}

\* What a mode needs: a physical render is opened only for AEC.
Required(mode) == Roles \ (IF mode = "Bypass" THEN {"render"} ELSE {})

\* load_configuration_from and TrayEngine::new: the environment goes first.
Booted(environment, stored) ==
  LET found == IF environment = Missing THEN stored ELSE environment
      whole == found \notin {Missing, Torn}
  IN [inventory |-> NoInventory,
      environment |-> environment,
      configuration |-> IF whole THEN found ELSE Missing,
      draft |-> IF whole THEN found.device ELSE NoSelection,
      mode |-> IF whole THEN found.mode ELSE "Bypass",
      follows |-> IF whole THEN found.follows ELSE NoFollow,
      source |-> CASE ~whole -> "None"
                   [] whole /\ environment = Missing -> "Persisted"
                   [] whole /\ environment # Missing -> "Environment",
      pending |-> environment = Missing /\ stored = Missing]

Resting(pc) ==
  [pc |-> pc, found |-> NoInventory, changed |-> FALSE,
   pending |-> FALSE, follows |-> NoFollow, fresh |-> {}, candidate |-> NoCandidate,
   role |-> "none", choice |-> NoDevice, follow |-> FALSE]

Init ==
  /\ \E stored \in Stored, environment \in Environments :
       /\ files = [n \in Names |-> IF n = "config" THEN stored ELSE Missing]
       /\ tray = Booted(environment, stored)
       /\ history = [saved |-> stored, overlapped |-> FALSE, cut |-> FALSE]
  /\ system \in Inventories
  /\ engine = Missing
  /\ thread = [t \in Threads |-> Resting(IF t = "main" THEN "discover" ELSE "none")]
  /\ budget = [commands |-> MaxCommands, changes |-> MaxChanges, exits |-> MaxExits,
               faults |-> MaxFaults]

-----------------------------------------------------------------------------

At(t, pc) == thread[t].pc = pc
Go(t, pc) == thread' = [thread EXCEPT ![t].pc = pc]

\* The thread is not inside any operation of the controller.
Idle(t) == thread[t].pc \in {"idle", "none"}

Spend(what) == budget[what] > 0 /\ budget' = [budget EXCEPT ![what] = @ - 1]

\* A system call fails.
Faulty == Spend("faults")

\* A thread begins; history says whether another was under way.
Begins(t) ==
  history' = [history EXCEPT !.overlapped = @ \/ \E u \in Threads \ {t} : ~Idle(u)]

\* The operation is over.  The boot of the main thread ends with the start of
\* the polling thread.
Return(t) ==
  thread' = [thread EXCEPT ![t] = Resting("idle"),
                           !["poll"] = IF t = "main" /\ @.pc = "none" THEN Resting("idle")
                                       ELSE IF t = "poll" THEN Resting("idle") ELSE @]

-----------------------------------------------------------------------------
(* refresh_inventory and initialize_defaults.                              *)

\* The polling thread wakes up.
Wake ==
  /\ At("poll", "idle")
  /\ Go("poll", "discover")
  /\ Begins("poll")
  /\ UNCHANGED <<files, system, tray, engine, budget>>

\* DeviceInventory::discover, and the comparison with the inventory it replaces.
\* A boot goes on without an inventory, the poll goes back to sleep.
Discover(t) ==
  /\ At(t, "discover")
  /\ \/ /\ thread' = [thread EXCEPT ![t].pc = "flags", ![t].found = system,
                                    ![t].changed = system # tray.inventory]
        /\ UNCHANGED budget
     \/ /\ Faulty
        /\ IF t = "main" THEN Go(t, "stop") ELSE Return(t)
  /\ UNCHANGED <<files, system, tray, engine, history>>

\* initialize_defaults reads three flags before it takes the draft.
ReadFlags(t) ==
  /\ At(t, "flags")
  /\ thread' = [thread EXCEPT ![t].pc = "fill", ![t].pending = tray.pending,
                              ![t].follows = tray.follows]
  /\ UNCHANGED <<files, system, tray, engine, budget, history>>

\* The system default of a role, or the first VB-CABLE pair.
FirstChoice(inventory, role) ==
  IF role \in DefaultRoles THEN inventory.default[role]
  ELSE IF inventory.list[role] = <<>> THEN NoDevice ELSE inventory.list[role][1]

\* Mutant of Filled: a default is resolved only when nothing is selected.
FilledOnce(me) ==
  [r \in Roles |-> IF me.pending /\ tray.draft[r] = NoDevice THEN FirstChoice(me.found, r)
                   ELSE tray.draft[r]]

\* Missing choices are filled on the first boot, roles that follow the system
\* default are resolved again.
Filled(me) ==
  [r \in Roles |-> IF r \in DefaultRoles /\ me.follows[r] THEN me.found.default[r]
                   ELSE IF me.pending /\ tray.draft[r] = NoDevice THEN FirstChoice(me.found, r)
                   ELSE tray.draft[r]]

\* Under the draft's lock.  A role that was missing and now has the default, be
\* it none, is fresh.
Fill(t) ==
  /\ At(t, "fill")
  /\ LET me == thread[t]
     IN /\ tray' = [tray EXCEPT !.draft = Filled(me)]
        /\ thread' = [thread EXCEPT ![t].pc = "mark",
             ![t].fresh = {r \in DefaultRoles : /\ me.pending /\ tray.draft[r] = NoDevice
                                                /\ ~me.follows[r]
                                                /\ Filled(me)[r] = me.found.default[r]}]
  /\ UNCHANGED <<files, system, engine, budget, history>>

\* Fresh roles follow the default from now on.
Mark(t) ==
  /\ At(t, "mark")
  /\ tray' = [tray EXCEPT !.follows = [r \in DefaultRoles |-> @[r] \/ r \in thread[t].fresh]]
  /\ Go(t, "install")
  /\ UNCHANGED <<files, system, engine, budget, history>>

\* The inventory is replaced; the poll applies only a changed one.
Install(t) ==
  /\ At(t, "install")
  /\ tray' = [tray EXCEPT !.inventory = thread[t].found]
  /\ IF t = "main" \/ thread[t].changed THEN Go(t, "stop") ELSE Return(t)
  /\ UNCHANGED <<files, system, engine, budget, history>>

Refresh(t) == Discover(t) \/ ReadFlags(t) \/ Fill(t) \/ Mark(t) \/ Install(t)

-----------------------------------------------------------------------------
(* The menu: set_aec_enabled and the select_* handlers.  Environment       *)
(* overrides cannot be edited, and a choice that the inventory no longer   *)
(* offers returns an error.                                                *)

Editable == tray.source # "Environment"

\* set_aec_enabled.
CommandMode ==
  /\ At("main", "idle")
  /\ Editable
  /\ \E mode \in Modes : tray' = [tray EXCEPT !.mode = mode]
  /\ Go("main", "stop")
  /\ Begins("main")
  /\ Spend("commands")
  /\ UNCHANGED <<files, system, engine>>

\* select_microphone, select_render, select_cable_pair and their defaults: the
\* endpoint is looked up in the inventory.
CommandDevice ==
  /\ At("main", "idle")
  /\ Editable
  /\ \E r \in Roles, d \in Devices, follow \in BOOLEAN :
       /\ IF follow THEN r \in DefaultRoles /\ d = tray.inventory.default[r]
                    ELSE d \in Listed(tray.inventory, r)
       /\ thread' = [thread EXCEPT !["main"].pc = IF r \in DefaultRoles THEN "follow"
                                                  ELSE "select",
                                   !["main"].role = r,
                                   !["main"].choice = d,
                                   !["main"].follow = follow]
  /\ Begins("main")
  /\ Spend("commands")
  /\ UNCHANGED <<files, system, tray, engine>>

\* The role follows the system default, or no longer does.
Follow ==
  /\ At("main", "follow")
  /\ tray' = [tray EXCEPT !.follows[thread["main"].role] = thread["main"].follow]
  /\ Go("main", "select")
  /\ UNCHANGED <<files, system, engine, budget, history>>

\* update_draft_and_apply.
Select ==
  /\ At("main", "select")
  /\ tray' = [tray EXCEPT !.draft[thread["main"].role] = thread["main"].choice]
  /\ Go("main", "stop")
  /\ UNCHANGED <<files, system, engine, budget, history>>

Command == CommandMode \/ CommandDevice \/ Follow \/ Select

-----------------------------------------------------------------------------
(* apply_current.                                                          *)

\* engine.stop; a worker that does not end in time is an error that ends the
\* operation and leaves an engine that serves nobody and cannot be started.
StopEngine(t) ==
  /\ At(t, "stop")
  /\ \/ engine' = Missing /\ Go(t, "mode") /\ UNCHANGED budget
     \/ Faulty /\ Return(t) /\ engine' = Torn
  /\ UNCHANGED <<files, system, tray, history>>

\* The candidate is put together from four fields, one lock after another.
ReadMode(t) ==
  /\ At(t, "mode")
  /\ thread' = [thread EXCEPT ![t].pc = "draft", ![t].candidate.mode = tray.mode]
  /\ UNCHANGED <<files, system, tray, engine, budget, history>>

\* into_configuration: an error if a device the mode needs is not selected.
ReadDraft(t) ==
  /\ At(t, "draft")
  /\ IF \E r \in Required(thread[t].candidate.mode) : tray.draft[r] = NoDevice
     THEN Return(t)
     ELSE thread' = [thread EXCEPT ![t].pc = "follows", ![t].candidate.device = tray.draft]
  /\ UNCHANGED <<files, system, tray, engine, budget, history>>

\* Mutant of ReadFollows: the candidate keeps the choices it came with.
ReadFollowsNever(t) ==
  /\ At(t, "follows")
  /\ Go(t, "validate")
  /\ UNCHANGED <<files, system, tray, engine, budget, history>>

ReadFollows(t) ==
  /\ At(t, "follows")
  /\ thread' = [thread EXCEPT ![t].pc = "validate", ![t].candidate.follows = tray.follows]
  /\ UNCHANGED <<files, system, tray, engine, budget, history>>

\* validate_configuration: every device the mode needs is in the inventory.
Valid(candidate) ==
  \A r \in Required(candidate.mode) : candidate.device[r] \in Listed(tray.inventory, r)

Validate(t) ==
  /\ At(t, "validate")
  /\ IF Valid(thread[t].candidate) THEN Go(t, "persist") ELSE Return(t)
  /\ UNCHANGED <<files, system, tray, engine, budget, history>>

\* Mutant of Persist: environment overrides are saved like other choices.
PersistAlways(t) ==
  /\ At(t, "persist")
  /\ Go(t, "write")
  /\ UNCHANGED <<files, system, tray, engine, budget, history>>

\* should_persist_configuration.
Persist(t) ==
  /\ At(t, "persist")
  /\ Go(t, IF Editable THEN "write" ELSE "configuration")
  /\ UNCHANGED <<files, system, tray, engine, budget, history>>

\* The fields that record what was applied.
Commit(t) ==
  /\ \/ At(t, "source") /\ Go(t, "configuration")
        /\ tray' = [tray EXCEPT !.source = "Persisted"]
     \/ At(t, "configuration") /\ Go(t, "commit_draft")
        /\ tray' = [tray EXCEPT !.configuration = thread[t].candidate]
     \/ At(t, "commit_draft") /\ Go(t, "commit_mode")
        /\ tray' = [tray EXCEPT !.draft = thread[t].candidate.device]
     \/ At(t, "commit_mode") /\ Go(t, "commit_pending")
        /\ tray' = [tray EXCEPT !.mode = thread[t].candidate.mode]
     \/ At(t, "commit_pending") /\ Go(t, "start")
        /\ tray' = [tray EXCEPT !.pending = FALSE]
  /\ UNCHANGED <<files, system, engine, budget, history>>

\* engine.start refuses an engine that is not stopped.
StartEngine(t) ==
  /\ At(t, "start")
  /\ \/ engine = Missing /\ engine' = thread[t].candidate /\ UNCHANGED budget
     \/ engine # Missing /\ UNCHANGED <<engine, budget>>
     \/ engine = Missing /\ Faulty /\ UNCHANGED engine
  /\ Return(t)
  /\ UNCHANGED <<files, system, tray, history>>

-----------------------------------------------------------------------------
(* ConfigStore::save and replace_file.  An error ends apply_current.       *)

SavePcs == {"write", "set_aside", "replace", "discard", "restore"}

\* fs::write to the temporary file.
Write(t) ==
  /\ At(t, "write")
  /\ \/ /\ files' = Written(files, "temporary", thread[t].candidate)
        /\ Go(t, "set_aside")
        /\ UNCHANGED budget
     \/ /\ Faulty
        /\ files' = Written(files, "temporary", Torn)
        /\ Return(t)
  /\ UNCHANGED <<system, tray, engine, history>>

\* A configuration becomes the backup: the test for it, the removal of an old
\* backup and the rename are one step, an exit between them changes no more than
\* the backup.
SetAside(t) ==
  /\ At(t, "set_aside")
  /\ \/ /\ ~Exists(files, "config")
        /\ Go(t, "replace")
        /\ UNCHANGED <<files, budget>>
     \/ /\ Exists(files, "config")
        /\ files' = Renamed(files, "config", "backup")
        /\ Go(t, "replace")
        /\ UNCHANGED budget
     \/ /\ Exists(files, "config")
        /\ Faulty
        /\ files' = Removed(files, "backup")
        /\ Return(t)
  /\ UNCHANGED <<system, tray, engine, history>>

\* The temporary file becomes the configuration.
Replace(t) ==
  /\ At(t, "replace")
  /\ \/ /\ Exists(files, "temporary")
        /\ files' = Renamed(files, "temporary", "config")
        /\ Go(t, "discard")
        /\ UNCHANGED budget
     \/ /\ ~Exists(files, "temporary")
        /\ Go(t, "restore")
        /\ UNCHANGED <<files, budget>>
     \/ /\ Exists(files, "temporary")
        /\ Faulty
        /\ Go(t, "restore")
        /\ UNCHANGED files
  /\ UNCHANGED <<system, tray, engine, history>>

\* The save succeeded; a backup that cannot be removed stays.
Discard(t) ==
  /\ At(t, "discard")
  /\ \/ files' = Removed(files, "backup") /\ UNCHANGED budget
     \/ Faulty /\ UNCHANGED files
  /\ history' = [history EXCEPT !.saved = thread[t].candidate]
  /\ Go(t, "source")
  /\ UNCHANGED <<system, tray, engine>>

\* The save failed; the rename of the backup may fail too, which nobody sees.
Restore(t) ==
  /\ At(t, "restore")
  /\ \/ files' = Restored(files) /\ UNCHANGED budget
     \/ Faulty /\ files' = Removed(files, "config")
  /\ Return(t)
  /\ UNCHANGED <<system, tray, engine, history>>

Save(t) == Write(t) \/ SetAside(t) \/ Replace(t) \/ Discard(t) \/ Restore(t)

Apply(t) ==
  \/ StopEngine(t) \/ ReadMode(t) \/ ReadDraft(t) \/ ReadFollows(t) \/ Validate(t)
  \/ Persist(t) \/ Save(t) \/ Commit(t) \/ StartEngine(t)

-----------------------------------------------------------------------------
(* The surroundings.                                                       *)

\* Devices come and go.
Plug ==
  /\ system' \in Inventories \ {system}
  /\ Spend("changes")
  /\ UNCHANGED <<files, tray, engine, thread, history>>

\* The process ends, whatever its threads do, and MiniAEC is started again.  A
\* write under way may leave a torn file.
Exit ==
  /\ files' \in {files} \union
       (IF \E t \in Threads : At(t, "write") THEN {Written(files, "temporary", Torn)} ELSE {})
  /\ tray' = Booted(tray.environment, files'.config)
  /\ engine' = Missing
  /\ thread' = [t \in Threads |-> Resting(IF t = "main" THEN "discover" ELSE "none")]
  /\ history' = [history EXCEPT !.cut = @ \/ \E t \in Threads : thread[t].pc \in SavePcs]
  /\ Spend("exits")
  /\ UNCHANGED system

Next ==
  \/ Wake \/ Command \/ Plug \/ Exit
  \/ \E t \in Threads : Refresh(t) \/ Apply(t)

Spec == Init /\ [][Next]_vars

-----------------------------------------------------------------------------
(* The controller, when nobody is working on it.                           *)

AllIdle == \A t \in Threads : Idle(t)

\* Operations that did not overlap leave the engine running what the tray shows
\* and has stored: the engine's configuration is the one recorded, selected and,
\* unless it comes from the environment, saved (apply_current).
QuietIsConsistent ==
  AllIdle /\ ~history.overlapped /\ ~history.cut /\ engine \notin {Missing, Torn} =>
    /\ tray.configuration = engine
    /\ tray.draft = engine.device
    /\ tray.mode = engine.mode
    /\ tray.follows = engine.follows
    /\ tray.source = "Persisted" => files["config"] = engine

\* The same of operations that overlap: the selectors show what is running.
RunsWhatIsShown ==
  AllIdle /\ engine \notin {Missing, Torn} => tray.draft = engine.device /\ tray.mode = engine.mode

\* A role that follows the system default shows the default of the inventory the
\* tray knows, across changes of devices and restarts (initialize_defaults).
DefaultIsFollowed ==
  AllIdle /\ ~history.overlapped /\ tray.inventory # NoInventory =>
    \A r \in DefaultRoles : tray.follows[r] => tray.draft[r] = tray.inventory.default[r]

\* Environment overrides are temporary: the store is not touched in a process
\* that runs with them.
EnvironmentIsTemporary ==
  tray.environment \notin {Missing, Torn} => files["config"] \in Stored

\* The store holds what was saved last, whatever call to the system failed, when
\* no save is under way, saves did not overlap and none was cut short by an exit
\* (save, replace_file).
SavedIsFound ==
  (\A t \in Threads : thread[t].pc \notin SavePcs) /\ ~history.overlapped /\ ~history.cut =>
    files["config"] = history.saved

\* A configuration that was saved is there at the next boot, also when the
\* process ends during another save.
SavedSurvivesExit ==
  ~history.overlapped /\ At("main", "discover") /\ tray.environment = Missing =>
    (history.saved # Missing => files["config"] # Missing)
=============================================================================
