----------------------------- MODULE TrayProofs -----------------------------
(***************************************************************************)
(* Theorems about TrayController for any devices, inventories, overrides   *)
(* and stored contents, and for any number of commands, changes of the     *)
(* devices and exits of the process.                                       *)
(***************************************************************************)
EXTENDS TrayController, SequenceTheorems, TLAPS

-----------------------------------------------------------------------------
(* Types.                                                                  *)

Contents == Configurations \union {Missing, Torn}
Choices == Devices \union {NoDevice}
Selections == [Roles -> Choices]
Flags == [DefaultRoles -> BOOLEAN]
InventoryType == [list : [Roles -> Seq(Devices)], default : [DefaultRoles -> Choices]]

TrayType ==
  [inventory : InventoryType, environment : Contents, configuration : Contents,
   draft : Selections, mode : Modes, follows : Flags,
   source : {"None", "Persisted", "Environment"}, pending : BOOLEAN]

Pcs == {"none", "idle", "discover", "flags", "fill", "mark", "install", "follow", "select", "stop",
        "mode", "draft", "follows", "validate", "persist", "write", "set_aside", "replace",
        "discard", "restore", "source", "configuration", "commit_draft", "commit_mode",
        "commit_pending", "start"}

ThreadType ==
  [pc : Pcs, found : InventoryType, changed : BOOLEAN, pending : BOOLEAN, follows : Flags,
   fresh : SUBSET DefaultRoles, candidate : Configurations, role : Roles \union {"none"},
   choice : Choices, follow : BOOLEAN]

BudgetType == [commands : Nat, changes : Nat, exits : Nat, faults : Nat]
HistoryType == [saved : Contents, overlapped : BOOLEAN, cut : BOOLEAN]

TypeOK ==
  /\ files \in [Names -> Contents]
  /\ system \in InventoryType
  /\ tray \in TrayType
  /\ engine \in Contents
  /\ thread \in [Threads -> ThreadType]
  /\ budget \in BudgetType
  /\ history \in HistoryType

\* Nothing selected, nothing found and nothing put together yet have their types.
LEMMA NothingTyped ==
  /\ NoSelection \in Selections /\ NoFollow \in Flags
  /\ NoInventory \in InventoryType
  /\ NoCandidate \in Configurations
  /\ Inventories \subseteq InventoryType
<1>1. NoSelection \in Selections /\ NoFollow \in Flags
  BY DEF NoSelection, NoFollow, Selections, Flags, Choices
<1>2. NoInventory \in InventoryType
  <2>1. <<>> \in Seq(Devices)
    BY EmptySeq
  <2>2. QED
    BY <2>1 DEF NoInventory, InventoryType, Choices
<1>3. NoCandidate \in Configurations
  BY <1>1 DEF NoCandidate, Configurations, Modes, Selections, Flags, Choices
<1>4. Inventories \subseteq InventoryType
  BY TrayAssumption DEF InventoryType, Choices
<1>5. QED
  BY <1>1, <1>2, <1>3, <1>4

\* What a configuration is made of.
LEMMA Parts ==
  ASSUME NEW x \in Configurations
  PROVE  /\ x.mode \in Modes /\ x.device \in Selections /\ x.follows \in Flags
         /\ \A m \in Modes : [x EXCEPT !.mode = m] \in Configurations
         /\ \A d \in Selections : [x EXCEPT !.device = d] \in Configurations
         /\ \A f \in Flags : [x EXCEPT !.follows = f] \in Configurations
BY DEF Configurations, Selections, Flags, Choices

\* A booted tray has its type, whatever was found.
LEMMA BootedType ==
  ASSUME NEW environment \in Contents, NEW stored \in Contents
  PROVE  Booted(environment, stored) \in TrayType
<1> DEFINE found == IF environment = Missing THEN stored ELSE environment
           whole == found \notin {Missing, Torn}
<1>1. found \in Contents /\ (whole => found \in Configurations)
  BY DEF Contents
<1>2. whole \in BOOLEAN
  OBVIOUS
<1> DEFINE configuration == IF whole THEN found ELSE Missing
           draft == IF whole THEN found.device ELSE NoSelection
           mode == IF whole THEN found.mode ELSE "Bypass"
           follows == IF whole THEN found.follows ELSE NoFollow
           source == CASE ~whole -> "None"
                       [] whole /\ environment = Missing -> "Persisted"
                       [] whole /\ environment # Missing -> "Environment"
           pending == environment = Missing /\ stored = Missing
<1>3. Booted(environment, stored) =
        [inventory |-> NoInventory, environment |-> environment,
         configuration |-> configuration, draft |-> draft, mode |-> mode,
         follows |-> follows, source |-> source, pending |-> pending]
  BY DEF Booted
<1> HIDE DEF whole
<1>4. source \in {"None", "Persisted", "Environment"}
  OBVIOUS
<1> HIDE DEF source
<1>5. configuration \in Contents
  BY <1>1 DEF Contents
<1>6. draft \in Selections /\ mode \in Modes /\ follows \in Flags
  <2>1. CASE whole
    BY <1>1, <2>1, Parts
  <2>2. CASE ~whole
    BY <2>2, NothingTyped DEF Modes
  <2>3. QED
    BY <2>1, <2>2
<1> HIDE DEF configuration, draft, mode, follows, found
<1>7. pending \in BOOLEAN
  OBVIOUS
<1> HIDE DEF pending
<1>8. QED
  BY <1>3, <1>4, <1>5, <1>6, <1>7, NothingTyped DEF TrayType

\* So does a thread that rests.
LEMMA RestingType ==
  ASSUME NEW pc \in Pcs
  PROVE  Resting(pc) \in ThreadType
BY NothingTyped DEF Resting, ThreadType, Choices

\* Going on and returning keep the threads typed.
LEMMA GoType ==
  ASSUME TypeOK, NEW t \in Threads, NEW pc \in Pcs, Go(t, pc)
  PROVE  thread' \in [Threads -> ThreadType]
BY DEF TypeOK, Go, ThreadType

\* A return keeps the types of the threads.
LEMMA ReturnType ==
  ASSUME TypeOK, NEW t \in Threads, Return(t)
  PROVE  thread' \in [Threads -> ThreadType]
<1>1. Resting("idle") \in ThreadType
  BY RestingType DEF Pcs
<1>2. QED
  BY <1>1 DEF TypeOK, Return, Threads

\* So does any update of a thread to a value of its type.
LEMMA BecomesType ==
  ASSUME TypeOK, NEW t \in Threads, NEW x \in ThreadType, thread' = [thread EXCEPT ![t] = x]
  PROVE  thread' \in [Threads -> ThreadType]
BY DEF TypeOK

\* Spending keeps the bounds numbers.
LEMMA SpendType ==
  ASSUME TypeOK, NEW what \in {"commands", "changes", "exits", "faults"}, Spend(what)
  PROVE  budget' \in BudgetType
BY DEF TypeOK, Spend, BudgetType

-----------------------------------------------------------------------------
(* Type correctness, one lemma per part of the controller.                 *)

\* What initialize_defaults selects are devices.
LEMMA FilledType ==
  ASSUME TypeOK, NEW t \in Threads
  PROVE  Filled(thread[t]) \in Selections
<1> DEFINE me == thread[t]
<1>1. me \in ThreadType /\ tray.draft \in Selections
  BY DEF TypeOK, TrayType
<1> HIDE DEF me
<1>2. me.found \in InventoryType /\ me.follows \in Flags
  BY <1>1 DEF ThreadType
<1>3. /\ me.found.list \in [Roles -> Seq(Devices)]
      /\ me.found.default \in [DefaultRoles -> Choices]
  BY <1>2 DEF InventoryType
<1>4. ASSUME NEW r \in Roles
      PROVE  FirstChoice(me.found, r) \in Choices
  <2>1. CASE r \in DefaultRoles
    BY <1>3, <2>1 DEF FirstChoice
  <2>2. CASE r \notin DefaultRoles /\ me.found.list[r] = <<>>
    BY <2>2 DEF FirstChoice, Choices
  <2>3. CASE r \notin DefaultRoles /\ me.found.list[r] # <<>>
    <3>1. me.found.list[r] \in Seq(Devices)
      BY <1>3
    <3>2. 1 \in 1..Len(me.found.list[r])
      BY <2>3, <3>1, EmptySeq
    <3>3. me.found.list[r][1] \in Devices
      BY <3>1, <3>2, ElementOfSeq
    <3>4. QED
      BY <2>3, <3>3 DEF FirstChoice, Choices
  <2>4. QED
    BY <2>1, <2>2, <2>3
<1>5. ASSUME NEW r \in Roles
      PROVE  (IF r \in DefaultRoles /\ me.follows[r] THEN me.found.default[r]
              ELSE IF me.pending /\ tray.draft[r] = NoDevice THEN FirstChoice(me.found, r)
              ELSE tray.draft[r]) \in Choices
  <2>1. tray.draft[r] \in Choices
    BY <1>1 DEF Selections
  <2>2. r \in DefaultRoles => me.found.default[r] \in Choices
    BY <1>3
  <2>3. QED
    BY <1>4, <2>1, <2>2
<1>6. Filled(me) \in Selections
  BY <1>5 DEF Filled, Selections
<1>7. QED
  BY <1>6 DEF me

\* What the steps of a refresh put into a thread's record.
LEMMA FoundType ==
  ASSUME NEW me \in ThreadType, NEW pc \in Pcs, NEW found \in InventoryType,
         NEW changed \in BOOLEAN
  PROVE  [me EXCEPT !.pc = pc, !.found = found, !.changed = changed] \in ThreadType
BY DEF ThreadType

LEMMA FlagsType ==
  ASSUME NEW me \in ThreadType, NEW pc \in Pcs, NEW pending \in BOOLEAN, NEW follows \in Flags
  PROVE  [me EXCEPT !.pc = pc, !.pending = pending, !.follows = follows] \in ThreadType
BY DEF ThreadType

LEMMA FreshType ==
  ASSUME NEW me \in ThreadType, NEW pc \in Pcs, NEW fresh \in SUBSET DefaultRoles
  PROVE  [me EXCEPT !.pc = pc, !.fresh = fresh] \in ThreadType
BY DEF ThreadType

\* The steps of refresh_inventory.
LEMMA RefreshType ==
  ASSUME TypeOK, NEW t \in Threads, Refresh(t)
  PROVE  TypeOK'
<1> USE DEF Pcs
<1>0. tray \in TrayType /\ thread \in [Threads -> ThreadType]
  BY DEF TypeOK
<1>1. CASE Discover(t)
  <2>1. CASE thread' = [thread EXCEPT ![t].pc = "flags", ![t].found = system,
                                      ![t].changed = system # tray.inventory]
    <3> DEFINE changed == system # tray.inventory
    <3>1. changed \in BOOLEAN /\ system \in InventoryType
      BY DEF TypeOK
    <3> DEFINE x == [thread[t] EXCEPT !.pc = "flags", !.found = system, !.changed = changed]
    <3>2. thread' = [thread EXCEPT ![t] = x]
      BY <2>1
    <3> HIDE DEF changed
    <3>6. x \in ThreadType
      BY <1>0, <3>1, FoundType
    <3> HIDE DEF x
    <3>3. thread' \in [Threads -> ThreadType]
      BY <3>2, <3>6, BecomesType
    <3>4. budget' \in BudgetType
      BY <1>1, SpendType DEF Discover, Faulty, TypeOK
    <3>5. QED
      BY <1>1, <3>3, <3>4 DEF Discover, TypeOK
  <2>2. CASE Go(t, "stop") \/ Return(t)
    <3>1. thread' \in [Threads -> ThreadType]
      BY <2>2, GoType, ReturnType
    <3>2. budget' \in BudgetType
      BY <1>1, SpendType DEF Discover, Faulty, TypeOK
    <3>3. QED
      BY <1>1, <3>1, <3>2 DEF Discover, TypeOK
  <2>3. QED
    BY <1>1, <2>1, <2>2 DEF Discover
<1>2. CASE ReadFlags(t)
  <2>1. tray.pending \in BOOLEAN /\ tray.follows \in Flags
    BY <1>0 DEF TrayType
  <2> DEFINE x == [thread[t] EXCEPT !.pc = "fill", !.pending = tray.pending,
                                    !.follows = tray.follows]
  <2>2. thread' = [thread EXCEPT ![t] = x]
    BY <1>2 DEF ReadFlags
  <2>3. x \in ThreadType
    BY <1>0, <2>1, FlagsType
  <2> HIDE DEF x
  <2>4. thread' \in [Threads -> ThreadType]
    BY <2>2, <2>3, BecomesType
  <2>5. QED
    BY <1>2, <2>4 DEF ReadFlags, TypeOK
<1>3. CASE Fill(t)
  <2> DEFINE fresh == {r \in DefaultRoles : /\ thread[t].pending /\ tray.draft[r] = NoDevice
                                            /\ ~thread[t].follows[r]
                                            /\ Filled(thread[t])[r] = thread[t].found.default[r]}
             filled == Filled(thread[t])
  <2>1. fresh \in SUBSET DefaultRoles /\ filled \in Selections
    BY FilledType
  <2>2. tray' = [tray EXCEPT !.draft = filled]
    BY <1>3 DEF Fill
  <2> DEFINE x == [thread[t] EXCEPT !.pc = "mark", !.fresh = fresh]
  <2>3. thread' = [thread EXCEPT ![t] = x]
    BY <1>3 DEF Fill
  <2> HIDE DEF fresh, filled
  <2>7. x \in ThreadType
    BY <1>0, <2>1, FreshType
  <2> HIDE DEF x
  <2>4. tray' \in TrayType
    BY <1>0, <2>1, <2>2 DEF TrayType
  <2>5. thread' \in [Threads -> ThreadType]
    BY <2>3, <2>7, BecomesType
  <2>6. QED
    BY <1>3, <2>4, <2>5 DEF Fill, TypeOK
<1>4. CASE Mark(t)
  <2> DEFINE marked == [r \in DefaultRoles |-> tray.follows[r] \/ r \in thread[t].fresh]
  <2>1. marked \in Flags
    BY DEF Flags
  <2>2. tray' = [tray EXCEPT !.follows = marked]
    BY <1>4 DEF Mark
  <2> HIDE DEF marked
  <2>3. tray' \in TrayType
    BY <1>0, <2>1, <2>2 DEF TrayType
  <2>4. thread' \in [Threads -> ThreadType]
    BY <1>4, GoType DEF Mark
  <2>5. QED
    BY <1>4, <2>3, <2>4 DEF Mark, TypeOK
<1>5. CASE Install(t)
  <2>1. thread[t].found \in InventoryType
    BY <1>0 DEF ThreadType
  <2>2. tray' \in TrayType
    BY <1>0, <1>5, <2>1 DEF Install, TrayType
  <2>3. Go(t, "stop") \/ Return(t)
    BY <1>5 DEF Install
  <2>4. thread' \in [Threads -> ThreadType]
    BY <2>3, GoType, ReturnType
  <2>5. QED
    BY <1>5, <2>2, <2>4 DEF Install, TypeOK
<1>6. QED
  BY <1>1, <1>2, <1>3, <1>4, <1>5 DEF Refresh

\* A thread that begins is noted.
LEMMA BeginsType ==
  ASSUME TypeOK, NEW t \in Threads, Begins(t)
  PROVE  history' \in HistoryType
<1> DEFINE overlapped == history.overlapped \/ \E u \in Threads \ {t} : ~Idle(u)
<1>1. overlapped \in BOOLEAN
  BY DEF TypeOK, HistoryType
<1>2. history' = [history EXCEPT !.overlapped = overlapped]
  BY DEF Begins
<1> HIDE DEF overlapped
<1>3. QED
  BY <1>1, <1>2 DEF TypeOK, HistoryType

\* The steps of the menu.
LEMMA CommandType ==
  ASSUME TypeOK, Command \/ Wake
  PROVE  TypeOK'
<1> USE DEF Pcs
<1>0. tray \in TrayType /\ thread \in [Threads -> ThreadType] /\ {"main", "poll"} \subseteq Threads
  BY DEF TypeOK, Threads
<1>1. CASE CommandMode
  <2>1. PICK mode \in Modes : tray' = [tray EXCEPT !.mode = mode]
    BY <1>1 DEF CommandMode
  <2>2. tray' \in TrayType
    BY <1>0, <2>1 DEF TrayType
  <2>3. thread' \in [Threads -> ThreadType]
    BY <1>0, <1>1, GoType DEF CommandMode
  <2>4. history' \in HistoryType /\ budget' \in BudgetType
    BY <1>0, <1>1, BeginsType, SpendType DEF CommandMode
  <2>5. QED
    BY <1>1, <2>2, <2>3, <2>4 DEF CommandMode, TypeOK
<1>2. CASE CommandDevice
  <2>1. PICK r \in Roles, d \in Devices, follow \in BOOLEAN :
          thread' = [thread EXCEPT !["main"].pc = IF r \in DefaultRoles THEN "follow" ELSE "select",
                                   !["main"].role = r,
                                   !["main"].choice = d,
                                   !["main"].follow = follow]
    BY <1>2 DEF CommandDevice
  <2>2. PICK pc \in Pcs : pc = IF r \in DefaultRoles THEN "follow" ELSE "select"
    OBVIOUS
  <2> DEFINE x == [thread["main"] EXCEPT !.pc = pc, !.role = r, !.choice = d, !.follow = follow]
  <2>3. thread' = [thread EXCEPT !["main"] = x]
    BY <2>1, <2>2
  <2>4. d \in Choices
    BY DEF Choices
  <2>9. thread["main"] \in ThreadType /\ r \in Roles \union {"none"}
    BY <1>0
  <2>8. x \in ThreadType
    BY <2>4, <2>9 DEF ThreadType
  <2> HIDE DEF x
  <2>5. thread' \in [Threads -> ThreadType]
    BY <1>0, <2>3, <2>8, BecomesType
  <2>6. history' \in HistoryType /\ budget' \in BudgetType
    BY <1>0, <1>2, BeginsType, SpendType DEF CommandDevice
  <2>7. QED
    BY <1>2, <2>5, <2>6 DEF CommandDevice, TypeOK
<1>3. CASE Follow
  <2> DEFINE follows == [tray.follows EXCEPT ![thread["main"].role] = thread["main"].follow]
  <2>1. thread["main"].follow \in BOOLEAN /\ tray.follows \in Flags
    BY <1>0 DEF ThreadType, TrayType
  <2>2. follows \in Flags
    BY <2>1 DEF Flags
  <2>3. tray' = [tray EXCEPT !.follows = follows]
    BY <1>0, <1>3 DEF Follow, TrayType
  <2> HIDE DEF follows
  <2>4. tray' \in TrayType
    BY <1>0, <2>2, <2>3 DEF TrayType
  <2>5. thread' \in [Threads -> ThreadType]
    BY <1>0, <1>3, GoType DEF Follow
  <2>6. QED
    BY <1>3, <2>4, <2>5 DEF Follow, TypeOK
<1>4. CASE Select
  <2> DEFINE draft == [tray.draft EXCEPT ![thread["main"].role] = thread["main"].choice]
  <2>1. thread["main"].choice \in Choices /\ tray.draft \in Selections
    BY <1>0 DEF ThreadType, TrayType
  <2>2. draft \in Selections
    BY <2>1 DEF Selections
  <2>3. tray' = [tray EXCEPT !.draft = draft]
    BY <1>0, <1>4 DEF Select, TrayType
  <2> HIDE DEF draft
  <2>4. tray' \in TrayType
    BY <1>0, <2>2, <2>3 DEF TrayType
  <2>5. thread' \in [Threads -> ThreadType]
    BY <1>0, <1>4, GoType DEF Select
  <2>6. QED
    BY <1>4, <2>4, <2>5 DEF Select, TypeOK
<1>5. CASE Wake
  <2>1. thread' \in [Threads -> ThreadType] /\ history' \in HistoryType
    BY <1>0, <1>5, GoType, BeginsType DEF Wake
  <2>2. QED
    BY <1>5, <2>1 DEF Wake, TypeOK
<1>6. QED
  BY <1>1, <1>2, <1>3, <1>4, <1>5 DEF Command

\* The steps of apply_current outside a save.
LEMMA ApplyType ==
  ASSUME TypeOK, NEW t \in Threads, Apply(t), ~Save(t)
  PROVE  TypeOK'
<1> USE DEF Pcs
<1>0. tray \in TrayType /\ thread \in [Threads -> ThreadType] /\ thread[t] \in ThreadType
  BY DEF TypeOK
<1>1. thread[t].candidate \in Configurations
  BY <1>0 DEF ThreadType
<1>2. CASE StopEngine(t)
  <2>1. engine' \in Contents
    BY <1>2 DEF StopEngine, Contents
  <2>2. thread' \in [Threads -> ThreadType]
    BY <1>2, GoType, ReturnType DEF StopEngine
  <2>3. budget' \in BudgetType
    BY <1>2, SpendType DEF StopEngine, Faulty, TypeOK
  <2>4. QED
    BY <1>2, <2>1, <2>2, <2>3 DEF StopEngine, TypeOK
<1>3. CASE ReadMode(t)
  <2> DEFINE candidate == [thread[t].candidate EXCEPT !.mode = tray.mode]
             x == [thread[t] EXCEPT !.pc = "draft", !.candidate = candidate]
  <2>1. tray.mode \in Modes
    BY <1>0 DEF TrayType
  <2>2. candidate \in Configurations
    BY <1>1, <2>1, Parts
  <2>3. thread' = [thread EXCEPT ![t] = x]
    BY <1>3 DEF ReadMode
  <2> HIDE DEF candidate
  <2>4. x \in ThreadType
    BY <1>0, <2>2 DEF ThreadType
  <2> HIDE DEF x
  <2>5. thread' \in [Threads -> ThreadType]
    BY <2>3, <2>4, BecomesType
  <2>6. QED
    BY <1>3, <2>5 DEF ReadMode, TypeOK
<1>4. CASE ReadDraft(t)
  <2> DEFINE candidate == [thread[t].candidate EXCEPT !.device = tray.draft]
             x == [thread[t] EXCEPT !.pc = "follows", !.candidate = candidate]
  <2>1. tray.draft \in Selections
    BY <1>0 DEF TrayType
  <2>2. candidate \in Configurations
    BY <1>1, <2>1, Parts
  <2>7. Return(t) \/ thread' = [thread EXCEPT ![t].pc = "follows",
                                             ![t].candidate.device = tray.draft]
    BY <1>4, Zenon DEF ReadDraft
  <2>8. [thread EXCEPT ![t].pc = "follows", ![t].candidate.device = tray.draft]
          = [thread EXCEPT ![t] = x]
    OBVIOUS
  <2>3. Return(t) \/ thread' = [thread EXCEPT ![t] = x]
    BY <2>7, <2>8
  <2> HIDE DEF candidate
  <2>4. x \in ThreadType
    BY <1>0, <2>2 DEF ThreadType
  <2> HIDE DEF x
  <2>5. thread' \in [Threads -> ThreadType]
    BY <2>3, <2>4, BecomesType, ReturnType
  <2>6. QED
    BY <1>4, <2>5 DEF ReadDraft, TypeOK
<1>5. CASE ReadFollows(t)
  <2> DEFINE candidate == [thread[t].candidate EXCEPT !.follows = tray.follows]
             x == [thread[t] EXCEPT !.pc = "validate", !.candidate = candidate]
  <2>1. tray.follows \in Flags
    BY <1>0 DEF TrayType
  <2>2. candidate \in Configurations
    BY <1>1, <2>1, Parts
  <2>3. thread' = [thread EXCEPT ![t] = x]
    BY <1>5 DEF ReadFollows
  <2> HIDE DEF candidate
  <2>4. x \in ThreadType
    BY <1>0, <2>2 DEF ThreadType
  <2> HIDE DEF x
  <2>5. thread' \in [Threads -> ThreadType]
    BY <2>3, <2>4, BecomesType
  <2>6. QED
    BY <1>5, <2>5 DEF ReadFollows, TypeOK
<1>6. CASE Validate(t)
  <2>1. thread' \in [Threads -> ThreadType]
    BY <1>6, GoType, ReturnType DEF Validate
  <2>2. QED
    BY <1>6, <2>1 DEF Validate, TypeOK
<1>7. CASE Persist(t)
  <2>1. Go(t, "write") \/ Go(t, "configuration")
    BY <1>7 DEF Persist
  <2>2. thread' \in [Threads -> ThreadType]
    BY <2>1, GoType
  <2>3. QED
    BY <1>7, <2>2 DEF Persist, TypeOK
<1>8. CASE Commit(t)
  <2>1. thread' \in [Threads -> ThreadType]
    BY <1>8, GoType DEF Commit
  <2>2. /\ thread[t].candidate \in Contents
        /\ thread[t].candidate.device \in Selections
        /\ thread[t].candidate.mode \in Modes
    BY <1>1, Parts DEF Contents
  <2>3. tray' \in TrayType
    <3>1. CASE tray' = [tray EXCEPT !.source = "Persisted"]
      BY <1>0, <3>1 DEF TrayType
    <3>2. CASE tray' = [tray EXCEPT !.configuration = thread[t].candidate]
      BY <1>0, <2>2, <3>2 DEF TrayType
    <3>3. CASE tray' = [tray EXCEPT !.draft = thread[t].candidate.device]
      BY <1>0, <2>2, <3>3 DEF TrayType
    <3>4. CASE tray' = [tray EXCEPT !.mode = thread[t].candidate.mode]
      BY <1>0, <2>2, <3>4 DEF TrayType
    <3>5. CASE tray' = [tray EXCEPT !.pending = FALSE]
      BY <1>0, <3>5 DEF TrayType
    <3>6. QED
      BY <1>8, <3>1, <3>2, <3>3, <3>4, <3>5 DEF Commit
  <2>4. QED
    BY <1>8, <2>1, <2>3 DEF Commit, TypeOK
<1>9. CASE StartEngine(t)
  <2>1. engine' \in Contents
    BY <1>1, <1>9 DEF StartEngine, Contents, TypeOK
  <2>2. thread' \in [Threads -> ThreadType]
    BY <1>9, ReturnType DEF StartEngine
  <2>3. budget' \in BudgetType
    BY <1>9, SpendType DEF StartEngine, Faulty, TypeOK
  <2>4. QED
    BY <1>9, <2>1, <2>2, <2>3 DEF StartEngine, TypeOK
<1>10. QED
  BY <1>2, <1>3, <1>4, <1>5, <1>6, <1>7, <1>8, <1>9 DEF Apply

\* The calls to the file system.
LEMMA FileCalls ==
  ASSUME files \in [Names -> Contents]
  PROVE  /\ \A n \in Names, x \in Contents : Written(files, n, x) \in [Names -> Contents]
         /\ \A n \in Names : Removed(files, n) \in [Names -> Contents]
         /\ \A m, n \in Names : Renamed(files, m, n) \in [Names -> Contents]
         /\ Restored(files) \in [Names -> Contents]
<1>1. Missing \in Contents /\ {"config", "backup"} \subseteq Names
  BY DEF Contents, Names
<1>2. \A n \in Names, x \in Contents : Written(files, n, x) \in [Names -> Contents]
  BY DEF Written
<1>3. \A n \in Names : Removed(files, n) \in [Names -> Contents]
  BY <1>1 DEF Removed
<1>4. \A m, n \in Names : Renamed(files, m, n) \in [Names -> Contents]
  BY <1>1 DEF Renamed
<1>5. QED
  BY <1>1, <1>2, <1>3, <1>4 DEF Restored

\* The steps of a save.
LEMMA SaveType ==
  ASSUME TypeOK, NEW t \in Threads, Save(t)
  PROVE  TypeOK'
<1> USE DEF Pcs
<1>0. /\ thread[t].candidate \in Contents /\ Torn \in Contents
      /\ {"config", "temporary", "backup"} \subseteq Names
      /\ files \in [Names -> Contents]
  BY DEF TypeOK, ThreadType, Contents, Names
<1>1. thread' \in [Threads -> ThreadType]
  <2>1. \/ Return(t)
        \/ \E pc \in {"set_aside", "replace", "discard", "restore", "source"} : Go(t, pc)
    BY DEF Save, Write, SetAside, Replace, Discard, Restore
  <2>2. QED
    BY <2>1, GoType, ReturnType
<1>2. budget' \in BudgetType
  BY SpendType DEF Save, Write, SetAside, Replace, Discard, Restore, Faulty, TypeOK
<1>3. files' \in [Names -> Contents]
  <2>1. CASE Write(t)
    <3>1. files' \in {Written(files, "temporary", thread[t].candidate),
                      Written(files, "temporary", Torn)}
      BY <2>1 DEF Write
    <3>2. /\ Written(files, "temporary", thread[t].candidate) \in [Names -> Contents]
          /\ Written(files, "temporary", Torn) \in [Names -> Contents]
      BY <1>0, FileCalls
    <3>3. QED
      BY <1>0, <3>1, <3>2
  <2>2. CASE SetAside(t)
    <3>1. files' \in {files, Renamed(files, "config", "backup"), Removed(files, "backup")}
      BY <2>2 DEF SetAside
    <3>2. /\ Renamed(files, "config", "backup") \in [Names -> Contents]
          /\ Removed(files, "backup") \in [Names -> Contents]
      BY <1>0, FileCalls
    <3>3. QED
      BY <1>0, <3>1, <3>2
  <2>3. CASE Replace(t)
    <3>1. files' \in {files, Renamed(files, "temporary", "config")}
      BY <2>3 DEF Replace
    <3>2. Renamed(files, "temporary", "config") \in [Names -> Contents]
      BY <1>0, FileCalls
    <3>3. QED
      BY <1>0, <3>1, <3>2
  <2>4. CASE Discard(t)
    <3>1. files' \in {files, Removed(files, "backup")}
      BY <2>4 DEF Discard
    <3>2. Removed(files, "backup") \in [Names -> Contents]
      BY <1>0, FileCalls
    <3>3. QED
      BY <1>0, <3>1, <3>2
  <2>5. CASE Restore(t)
    <3>1. files' \in {Restored(files), Removed(files, "config")}
      BY <2>5 DEF Restore
    <3>2. QED
      BY <1>0, <3>1, FileCalls
  <2>6. QED
    BY <2>1, <2>2, <2>3, <2>4, <2>5 DEF Save
<1>4. history' \in HistoryType
  <2>1. CASE Discard(t)
    BY <1>0, <2>1 DEF Discard, TypeOK, HistoryType
  <2>2. CASE ~Discard(t)
    BY <2>2 DEF Save, Write, SetAside, Replace, Restore, TypeOK
  <2>3. QED
    BY <2>1, <2>2
<1>5. UNCHANGED <<system, tray, engine>>
  BY DEF Save, Write, SetAside, Replace, Discard, Restore
<1>6. QED
  BY <1>1, <1>2, <1>3, <1>4, <1>5 DEF TypeOK

\* Devices that change, and a restart.
LEMMA SurroundingsType ==
  ASSUME TypeOK, Plug \/ Exit
  PROVE  TypeOK'
<1>1. CASE Plug
  <2>1. system' \in InventoryType
    BY <1>1, NothingTyped DEF Plug
  <2>2. budget' \in BudgetType
    BY <1>1, SpendType DEF Plug
  <2>3. QED
    BY <1>1, <2>1, <2>2 DEF Plug, TypeOK
<1>2. CASE Exit
  <2>1. files' \in [Names -> Contents]
    <3>1. files' \in {files, Written(files, "temporary", Torn)}
      BY <1>2 DEF Exit
    <3>2. Torn \in Contents /\ "temporary" \in Names
      BY DEF Contents, Names
    <3>3. QED
      BY <3>1, <3>2, FileCalls DEF TypeOK
  <2>2. tray' \in TrayType
    <3>1. tray.environment \in Contents
      BY DEF TypeOK, TrayType
    <3>2. files'["config"] \in Contents
      BY <2>1 DEF Names
    <3>3. tray' = Booted(tray.environment, files'["config"])
      BY <1>2 DEF Exit
    <3>4. PICK stored \in Contents : tray' = Booted(tray.environment, stored)
      BY <3>2, <3>3
    <3>5. QED
      BY <3>1, <3>4, BootedType
  <2>3. engine' \in Contents
    BY <1>2 DEF Exit, Contents
  <2>4. thread' \in [Threads -> ThreadType]
    <3>1. Resting("discover") \in ThreadType /\ Resting("none") \in ThreadType
      BY RestingType DEF Pcs
    <3>2. QED
      BY <1>2, <3>1 DEF Exit
  <2>5. budget' \in BudgetType
    BY <1>2, SpendType DEF Exit
  <2>6. history' \in HistoryType
    <3> DEFINE cut == history.cut \/ \E t \in Threads : thread[t].pc \in SavePcs
    <3>1. cut \in BOOLEAN
      BY DEF TypeOK, HistoryType
    <3>2. history' = [history EXCEPT !.cut = cut]
      BY <1>2 DEF Exit
    <3> HIDE DEF cut
    <3>3. QED
      BY <3>1, <3>2 DEF TypeOK, HistoryType
  <2>7. QED
    BY <1>2, <2>1, <2>2, <2>3, <2>4, <2>5, <2>6 DEF Exit, TypeOK
<1>3. QED
  BY <1>1, <1>2

\* The initial states.
LEMMA InitType == Init => TypeOK
<1> SUFFICES ASSUME Init
             PROVE  TypeOK
  OBVIOUS
<1>1. PICK stored \in Stored, environment \in Environments :
        /\ files = [n \in Names |-> IF n = "config" THEN stored ELSE Missing]
        /\ tray = Booted(environment, stored)
        /\ history = [saved |-> stored, overlapped |-> FALSE, cut |-> FALSE]
  BY DEF Init
<1>2. stored \in Contents /\ environment \in Contents /\ Missing \in Contents
  BY TrayAssumption DEF Contents
<1>3. files \in [Names -> Contents] /\ history \in HistoryType /\ tray \in TrayType
  BY <1>1, <1>2, BootedType DEF HistoryType
<1>4. system \in InventoryType /\ engine \in Contents
  BY <1>2, NothingTyped DEF Init
<1>5. thread \in [Threads -> ThreadType]
  <2>1. Resting("discover") \in ThreadType /\ Resting("none") \in ThreadType
    BY RestingType DEF Pcs
  <2>2. QED
    BY <2>1 DEF Init
<1>6. budget \in BudgetType
  BY TrayAssumption DEF Init, BudgetType
<1>7. QED
  BY <1>3, <1>4, <1>5, <1>6 DEF TypeOK

\* All steps.
LEMMA NextType == TypeOK /\ [Next]_vars => TypeOK'
<1> SUFFICES ASSUME TypeOK, [Next]_vars
             PROVE  TypeOK'
  OBVIOUS
<1>1. CASE UNCHANGED vars
  BY <1>1 DEF vars, TypeOK
<1>2. QED
  BY <1>1, RefreshType, CommandType, ApplyType, SaveType, SurroundingsType DEF Next

\* Every field of the tray, the files and the local variables keep their types
\* through all commands, refreshes, failing calls and restarts.
THEOREM TypeCorrect == Spec => []TypeOK
<1>1. QED
  BY InitType, NextType, PTL DEF Spec

-----------------------------------------------------------------------------
(* The step of a thread.                                                   *)

Step(t) ==
  Refresh(t) \/ Apply(t) \/ (t = "poll" /\ Wake) \/ (t = "main" /\ Command)

\* A step is one of the surroundings or of a thread.
LEMMA NextSteps == Next <=> Plug \/ Exit \/ \E t \in Threads : Step(t)
BY DEF Next, Step, Threads

\* A step of one thread: the other stays where it is, or wakes up idle.
LEMMA OneMoves ==
  ASSUME TypeOK, NEW t \in Threads, Step(t)
  PROVE  \A u \in Threads \ {t} : \/ thread'[u] = thread[u]
                                  \/ Idle(u) /\ Idle(u)' /\ thread'[u] = Resting("idle")
<1>1. thread \in [Threads -> ThreadType]
  BY DEF TypeOK
<1>2. ASSUME NEW pc, Go(t, pc)
      PROVE  \A u \in Threads \ {t} : thread'[u] = thread[u]
  BY <1>1, <1>2 DEF Go
<1>3. ASSUME Return(t)
      PROVE  \A u \in Threads \ {t} : \/ thread'[u] = thread[u]
                                      \/ Idle(u) /\ Idle(u)' /\ thread'[u] = Resting("idle")
  BY <1>1, <1>3 DEF Return, Idle, Resting, Threads
<1>4. CASE Refresh(t)
  <2>1. CASE Return(t)
    BY <1>3, <2>1
  <2>2. CASE \E pc : Go(t, pc)
    BY <1>2, <2>2
  <2>3. CASE ~Return(t) /\ ~(\E pc : Go(t, pc))
    BY <1>1, <1>4, <2>3 DEF Refresh, Discover, ReadFlags, Fill, Mark, Install
  <2>4. QED
    BY <2>1, <2>2, <2>3
<1>5. CASE Apply(t)
  <2>1. CASE Return(t)
    BY <1>3, <2>1
  <2>2. CASE \E pc : Go(t, pc)
    BY <1>2, <2>2
  <2>3. CASE ~Return(t) /\ ~(\E pc : Go(t, pc))
    BY <1>1, <1>5, <2>3 DEF Apply, StopEngine, ReadMode, ReadDraft, ReadFollows, Validate, Persist,
                            StartEngine, Commit, Save, Write, SetAside, Replace, Discard, Restore
  <2>4. QED
    BY <2>1, <2>2, <2>3
<1>6. CASE t = "poll" /\ Wake
  BY <1>2, <1>6 DEF Wake
<1>7. CASE t = "main" /\ Command
  BY <1>1, <1>2, <1>7 DEF Command, CommandMode, CommandDevice, Follow, Select
<1>8. QED
  BY <1>4, <1>5, <1>6, <1>7 DEF Step

\* The steps that lead into a save are those of Persist and of the save itself.
LEMMA StepsOutside ==
  ASSUME TypeOK, NEW t \in Threads, Step(t), ~Save(t), ~Persist(t)
  PROVE  thread'[t].pc \notin SavePcs \union {"source"}
<1>1. thread \in [Threads -> ThreadType]
  BY DEF TypeOK
<1>2. ASSUME NEW pc, pc \notin SavePcs \union {"source"}, Go(t, pc)
      PROVE  thread'[t].pc \notin SavePcs \union {"source"}
  BY <1>1, <1>2 DEF Go, ThreadType
<1>3. ASSUME Return(t)
      PROVE  thread'[t].pc \notin SavePcs \union {"source"}
  BY <1>1, <1>3 DEF Return, Resting, SavePcs, Threads
<1>4. CASE t = "poll" /\ Wake
  BY <1>2, <1>4 DEF Wake, SavePcs
<1>5. CASE t = "main" /\ Command
  <2>1. CASE CommandDevice
    BY <1>1, <1>5, <2>1 DEF CommandDevice, ThreadType, SavePcs
  <2>2. CASE ~CommandDevice
    <3>1. Go(t, "stop") \/ Go(t, "select")
      BY <1>5, <2>2 DEF Command, CommandMode, Follow, Select
    <3>2. QED
      BY <1>2, <3>1 DEF SavePcs
  <2>3. QED
    BY <2>1, <2>2
<1>6. CASE Refresh(t)
  <2>1. CASE Discover(t)
    <3>1. CASE Go(t, "stop") \/ Return(t)
      BY <1>2, <1>3, <3>1 DEF SavePcs
    <3>2. CASE ~(Go(t, "stop") \/ Return(t))
      BY <1>1, <2>1, <3>2 DEF Discover, ThreadType, SavePcs
    <3>3. QED
      BY <3>1, <3>2
  <2>2. CASE ReadFlags(t) \/ Fill(t)
    BY <1>1, <2>2 DEF ReadFlags, Fill, ThreadType, SavePcs
  <2>3. CASE Mark(t) \/ Install(t)
    BY <1>2, <1>3, <2>3 DEF Mark, Install, SavePcs
  <2>4. QED
    BY <1>6, <2>1, <2>2, <2>3 DEF Refresh
<1>7. CASE Apply(t)
  <2>1. CASE StopEngine(t) \/ Validate(t) \/ StartEngine(t)
    BY <1>2, <1>3, <2>1 DEF StopEngine, Validate, StartEngine, SavePcs
  <2>2. CASE ReadMode(t) \/ ReadFollows(t)
    BY <1>1, <2>2 DEF ReadMode, ReadFollows, ThreadType, SavePcs
  <2>3. CASE ReadDraft(t)
    <3>1. CASE Return(t)
      BY <1>3, <3>1
    <3>2. CASE ~Return(t)
      BY <1>1, <2>3, <3>2 DEF ReadDraft, ThreadType, SavePcs
    <3>3. QED
      BY <3>1, <3>2
  <2>4. CASE Commit(t)
    BY <1>2, <2>4 DEF Commit, SavePcs
  <2>5. QED
    BY <1>7, <2>1, <2>2, <2>3, <2>4 DEF Apply
<1>8. QED
  BY <1>4, <1>5, <1>6, <1>7 DEF Step

-----------------------------------------------------------------------------
(* Environment overrides are temporary.                                    *)

\* A process that runs with overrides never leaves that state, no thread of it is
\* in a save, and the stored configuration is the one it was started over.
Temporary ==
  tray.environment \notin {Missing, Torn} =>
    /\ tray.source = "Environment"
    /\ \A t \in Threads : thread[t].pc \notin SavePcs \union {"source"}
    /\ files["config"] \in Stored

\* Nobody gets into a save.
LEMMA StepsOutsideSave ==
  ASSUME TypeOK, Temporary, tray.environment \notin {Missing, Torn}, NEW t \in Threads, Step(t)
  PROVE  \A u \in Threads : thread'[u].pc \notin SavePcs \union {"source"}
<1>1. \A u \in Threads : thread[u].pc \notin SavePcs \union {"source"}
  BY DEF Temporary
<1>2. ~Save(t)
  BY <1>1 DEF Save, Write, SetAside, Replace, Discard, Restore, At, SavePcs
<1>3. CASE Persist(t)
  <2>1. Go(t, "configuration")
    BY <1>3 DEF Persist, Editable, Temporary
  <2>2. QED
    BY <1>1, <2>1 DEF Go, TypeOK, ThreadType, SavePcs
<1>4. CASE ~Persist(t)
  BY <1>1, <1>2, <1>4, StepsOutside, OneMoves DEF Resting, SavePcs
<1>5. QED
  BY <1>3, <1>4

\* The same steps leave the environment alone, the files too, and the source.
LEMMA EnvironmentKept ==
  ASSUME TypeOK, Temporary,
         NEW t \in Threads, Step(t)
  PROVE  /\ tray'.environment = tray.environment
         /\ tray.environment \notin {Missing, Torn} =>
              files' = files /\ tray'.source = tray.source
<1> USE DEF TypeOK, TrayType
<1>1. tray.environment \notin {Missing, Torn} =>
        thread[t].pc \notin SavePcs \union {"source"}
  BY DEF Temporary
<1>2. CASE Wake \/ Command
  BY <1>2 DEF Wake, Command, CommandMode, CommandDevice, Follow, Select
<1>3. ASSUME Refresh(t)
      PROVE  files' = files /\ tray'.environment = tray.environment /\ tray'.source = tray.source
  BY <1>3 DEF Refresh, Discover, ReadFlags, Fill, Mark, Install
<1>4. ASSUME Save(t)
      PROVE  tray' = tray /\ thread[t].pc \in SavePcs
  BY <1>4 DEF Save, Write, SetAside, Replace, Discard, Restore, At, SavePcs
<1>5. ASSUME Commit(t)
      PROVE  /\ files' = files /\ tray'.environment = tray.environment
             /\ thread[t].pc # "source" => tray'.source = tray.source
  BY <1>5 DEF Commit, At
<1>6. ASSUME Apply(t), ~Save(t), ~Commit(t)
      PROVE  files' = files /\ tray' = tray
  BY <1>6 DEF Apply, StopEngine, ReadMode, ReadDraft, ReadFollows, Validate, Persist, StartEngine
<1>7. QED
  BY <1>1, <1>2, <1>3, <1>4, <1>5, <1>6 DEF Step, SavePcs

\* The initial states.
LEMMA TemporaryInit == Init => Temporary
<1> SUFFICES ASSUME Init
             PROVE  Temporary
  OBVIOUS
<1>1. PICK stored \in Stored, environment \in Environments :
        /\ files = [n \in Names |-> IF n = "config" THEN stored ELSE Missing]
        /\ tray = Booted(environment, stored)
  BY DEF Init
<1>2. files["config"] \in Stored
  BY <1>1 DEF Names
<1>3. \A t \in Threads : thread[t].pc \notin SavePcs \union {"source"}
  BY DEF Init, Resting, SavePcs
<1>4. tray.environment \notin {Missing, Torn} => tray.source = "Environment"
  BY <1>1, TrayAssumption DEF Booted
<1>5. QED
  BY <1>2, <1>3, <1>4 DEF Temporary

\* All steps.
LEMMA TemporaryNext == TypeOK /\ Temporary /\ [Next]_vars => Temporary'
<1> SUFFICES ASSUME TypeOK, Temporary, [Next]_vars
             PROVE  Temporary'
  OBVIOUS
<1>1. CASE UNCHANGED vars \/ Plug
  BY <1>1 DEF vars, Plug, Temporary
<1>2. CASE Exit
  <2>1. tray' = Booted(tray.environment, files'["config"])
    BY <1>2 DEF Exit
  <2>2. tray.environment \notin {Missing, Torn} => files'["config"] = files["config"]
    BY <1>2 DEF Exit, Written, Temporary, At, SavePcs
  <2>3. \A t \in Threads : thread'[t].pc \notin SavePcs \union {"source"}
    BY <1>2 DEF Exit, Resting, SavePcs
  <2>4. tray'.environment = tray.environment
    BY <2>1 DEF Booted
  <2>5. tray.environment \notin {Missing, Torn} => tray'.source = "Environment"
    BY <2>1, TrayAssumption DEF Booted
  <2>6. QED
    BY <2>2, <2>3, <2>4, <2>5 DEF Temporary
<1>3. ASSUME NEW t \in Threads, Step(t)
      PROVE  Temporary'
  BY <1>3, EnvironmentKept, StepsOutsideSave DEF Temporary
<1>4. QED
  BY <1>1, <1>2, <1>3, NextSteps

\* EnvironmentIsTemporary: a process that runs with environment overrides never
\* touches the stored configuration (should_persist_configuration), through any
\* commands, changes of devices, failing calls and restarts.
THEOREM EnvironmentCorrect == Spec => []EnvironmentIsTemporary
<1>1. Temporary => EnvironmentIsTemporary
  BY DEF Temporary, EnvironmentIsTemporary
<1>2. TypeOK /\ Temporary /\ [Next]_vars => (TypeOK /\ Temporary)'
  BY NextType, TemporaryNext
<1>3. QED
  BY InitType, TemporaryInit, <1>1, <1>2, PTL DEF Spec

-----------------------------------------------------------------------------
(* A failed save restores what it replaces.                                *)

\* Without an overlap one thread works at a time.
Alone == ~history.overlapped => \A t, u \in Threads : t # u => Idle(t) \/ Idle(u)

\* No save is under way: the store holds what was saved last, and no backup is
\* left as long as no call failed.
Settled ==
  /\ files["config"] = history.saved
  /\ budget.faults = 0 \/ files["backup"] = Missing

\* Where the configurations are while a save is under way.
Under(t) ==
  LET me == thread[t]
  IN CASE me.pc = "write" -> Settled
       [] me.pc = "set_aside" -> Settled /\ files["temporary"] = me.candidate
       [] me.pc = "replace" -> /\ files["config"] = Missing
                               /\ files["temporary"] = me.candidate
                               /\ budget.faults = 0 \/ files["backup"] = history.saved
       [] me.pc = "discard" -> files["config"] = me.candidate
       [] me.pc = "restore" -> /\ budget.faults = 0
                               /\ files["config"] = Missing
                               /\ files["backup"] = history.saved
       [] OTHER -> TRUE

InNoSave == \A t \in Threads : thread[t].pc \notin SavePcs

Stores ==
  ~history.overlapped /\ ~history.cut =>
    /\ InNoSave => Settled
    /\ \A t \in Threads : Under(t)

SInv == TypeOK /\ budget.faults <= 1 /\ Alone /\ Stores

\* Only another thread makes an operation overlap.
LEMMA BeginsAlone ==
  ASSUME TypeOK, NEW t \in Threads, Begins(t), ~history'.overlapped
  PROVE  /\ ~history.overlapped
         /\ \A u \in Threads \ {t} : Idle(u)
         /\ history'.saved = history.saved /\ history'.cut = history.cut
BY DEF Begins, TypeOK, HistoryType

\* A thread inside an operation is the only one, and stays so.
LEMMA AloneKept ==
  ASSUME TypeOK, Alone, NEW t \in Threads, Step(t)
  PROVE  /\ Alone'
         /\ ~history'.overlapped =>
              ~history.overlapped /\ \A u \in Threads \ {t} : Idle(u) /\ Idle(u)'
<1>1. ASSUME ~history'.overlapped
      PROVE  ~history.overlapped /\ \A u \in Threads \ {t} : Idle(u)
  <2>1. CASE t = "poll" /\ Wake
    BY <1>1, <2>1, BeginsAlone DEF Wake, Threads
  <2>2. CASE t = "main" /\ (CommandMode \/ CommandDevice)
    BY <1>1, <2>2, BeginsAlone DEF CommandMode, CommandDevice, Threads
  <2>3. CASE Refresh(t) \/ Apply(t) \/ (t = "main" /\ (Follow \/ Select))
    <3>1. ~Idle(t)
      BY <2>3 DEF Refresh, Discover, ReadFlags, Fill, Mark, Install,
                  Apply, StopEngine, ReadMode, ReadDraft, ReadFollows, Validate, Persist,
                  StartEngine, Commit, Save, Write, SetAside, Replace, Discard, Restore,
                  Follow, Select, At, Idle
    <3>2. history'.overlapped = history.overlapped
      BY <2>3 DEF Refresh, Discover, ReadFlags, Fill, Mark, Install,
                  Apply, StopEngine, ReadMode, ReadDraft, ReadFollows, Validate, Persist,
                  StartEngine, Commit, Save, Write, SetAside, Replace, Discard, Restore,
                  Follow, Select, TypeOK, HistoryType
    <3>3. QED
      BY <1>1, <3>1, <3>2 DEF Alone
  <2>4. QED
    BY <2>1, <2>2, <2>3 DEF Step, Command
<1>2. QED
  BY <1>1, OneMoves DEF Alone, Idle

\* A failing call is the only one.
LEMMA Fault ==
  ASSUME TypeOK, budget.faults <= 1
  PROVE  /\ Faulty => budget.faults = 1 /\ budget'.faults = 0
         /\ \A what \in {"commands", "changes", "exits"} :
              Spend(what) => budget'.faults = budget.faults
BY DEF TypeOK, BudgetType, Faulty, Spend

\* A step outside a save changes no file.
LEMMA FilesKept ==
  ASSUME TypeOK, budget.faults <= 1, NEW t \in Threads, Step(t), ~Save(t)
  PROVE  /\ files' = files /\ history'.saved = history.saved
         /\ budget'.faults = budget.faults \/ budget'.faults = 0
<1>1. files' = files
  BY DEF Step, Wake, Command, CommandMode, CommandDevice, Follow, Select,
         Refresh, Discover, ReadFlags, Fill, Mark, Install,
         Apply, StopEngine, ReadMode, ReadDraft, ReadFollows, Validate, Persist, Commit, StartEngine
<1>2. history' = history \/ Begins("main") \/ Begins("poll")
  BY DEF Step, Wake, Command, CommandMode, CommandDevice, Follow, Select,
         Refresh, Discover, ReadFlags, Fill, Mark, Install,
         Apply, StopEngine, ReadMode, ReadDraft, ReadFollows, Validate, Persist, Commit, StartEngine
<1>3. history'.saved = history.saved
  BY <1>2 DEF Begins, TypeOK, HistoryType
<1>4. budget' = budget \/ Faulty \/ Spend("commands")
  BY DEF Step, Wake, Command, CommandMode, CommandDevice, Follow, Select,
         Refresh, Discover, ReadFlags, Fill, Mark, Install,
         Apply, StopEngine, ReadMode, ReadDraft, ReadFollows, Validate, Persist, Commit, StartEngine
<1>5. QED
  BY <1>1, <1>3, <1>4, Fault

\* Each call of a save leaves the configurations where the next one expects them.
LEMMA SaveStores ==
  ASSUME TypeOK, budget.faults <= 1, NEW t \in Threads, Save(t),
         thread[t].pc \notin SavePcs => Settled, Under(t)
  PROVE  (thread'[t].pc \notin SavePcs => Settled') /\ Under(t)'
<1>1. /\ thread \in [Threads -> ThreadType]
      /\ files \in [Names -> Contents]
      /\ {"config", "temporary", "backup"} \subseteq Names
      /\ thread[t].candidate \in Configurations /\ thread[t].candidate # Missing
      /\ budget.faults \in {0, 1}
  BY TrayAssumption DEF TypeOK, ThreadType, BudgetType, Names
<1>2. ASSUME Return(t), Settled'
      PROVE  (thread'[t].pc \notin SavePcs => Settled') /\ Under(t)'
  <2>1. thread'[t].pc = "idle"
    BY <1>1, <1>2 DEF Return, Resting, Threads
  <2>2. QED
    BY <1>2, <2>1 DEF Under
<1>3. ASSUME NEW pc, Go(t, pc)
      PROVE  thread'[t].pc = pc /\ thread'[t].candidate = thread[t].candidate
  BY <1>1, <1>3 DEF Go, ThreadType
<1>4. CASE Write(t)
  <2>1. Settled
    BY <1>4 DEF Write, At, Under
  <2>2. CASE Go(t, "set_aside")
    <3>1. /\ files' = Written(files, "temporary", thread[t].candidate)
          /\ budget' = budget /\ history' = history
      BY <1>1, <1>4, <2>2 DEF Write, Go, Return, Resting, Threads, ThreadType
    <3>2. Settled' /\ files'["temporary"] = thread[t].candidate
      BY <1>1, <2>1, <3>1 DEF Settled, Written
    <3>3. QED
      BY <1>3, <2>2, <3>2 DEF Under, SavePcs
  <2>3. CASE Return(t) /\ Faulty /\ files' = Written(files, "temporary", Torn)
    <3>1. Settled'
      BY <1>1, <1>4, <2>1, <2>3, Fault DEF Write, Settled, Written
    <3>2. QED
      BY <1>2, <2>3, <3>1
  <2>4. QED
    BY <1>4, <2>2, <2>3 DEF Write
<1>5. CASE SetAside(t)
  <2>1. Settled /\ files["temporary"] = thread[t].candidate
    BY <1>5 DEF SetAside, At, Under
  <2>2. CASE Go(t, "replace") /\ UNCHANGED <<files, budget>> /\ ~Exists(files, "config")
    <3>1. /\ files'["config"] = Missing /\ files'["temporary"] = thread[t].candidate
          /\ budget'.faults = 0 \/ files'["backup"] = history'.saved
      BY <1>5, <2>1, <2>2 DEF SetAside, Settled, Exists
    <3>2. QED
      BY <1>3, <2>2, <3>1 DEF Under, SavePcs
  <2>3. CASE Go(t, "replace") /\ files' = Renamed(files, "config", "backup") /\ UNCHANGED budget
    <3>1. /\ files'["config"] = Missing /\ files'["temporary"] = thread[t].candidate
          /\ budget'.faults = 0 \/ files'["backup"] = history'.saved
      BY <1>1, <1>5, <2>1, <2>3 DEF SetAside, Settled, Renamed
    <3>2. QED
      BY <1>3, <2>3, <3>1 DEF Under, SavePcs
  <2>4. CASE Return(t) /\ Faulty /\ files' = Removed(files, "backup")
    <3>1. Settled'
      BY <1>1, <1>5, <2>1, <2>4, Fault DEF SetAside, Settled, Removed
    <3>2. QED
      BY <1>2, <2>4, <3>1
  <2>5. QED
    BY <1>5, <2>2, <2>3, <2>4 DEF SetAside
<1>6. CASE Replace(t)
  <2>1. /\ files["config"] = Missing /\ files["temporary"] = thread[t].candidate
        /\ budget.faults = 0 \/ files["backup"] = history.saved
    BY <1>6 DEF Replace, At, Under
  <2>2. Exists(files, "temporary")
    BY <1>1, <2>1 DEF Exists
  <2>3. CASE Go(t, "discard") /\ files' = Renamed(files, "temporary", "config")
    <3>1. files'["config"] = thread[t].candidate
      BY <1>1, <2>1, <2>3 DEF Renamed
    <3>2. QED
      BY <1>3, <2>3, <3>1 DEF Under, SavePcs
  <2>4. CASE Go(t, "restore") /\ Faulty /\ UNCHANGED files
    <3>1. budget.faults = 1 /\ budget'.faults = 0
      BY <2>4, Fault
    <3>2. files'["config"] = Missing /\ files'["backup"] = history'.saved
      BY <1>6, <2>1, <2>4, <3>1 DEF Replace
    <3>3. QED
      BY <1>3, <2>4, <3>1, <3>2 DEF Under, SavePcs
  <2>5. QED
    BY <1>6, <2>2, <2>3, <2>4 DEF Replace
<1>7. CASE Discard(t)
  <2>1. files["config"] = thread[t].candidate
    BY <1>7 DEF Discard, At, Under
  <2>2. history'.saved = thread[t].candidate
    BY <1>7 DEF Discard, TypeOK, HistoryType
  <2>3. Settled'
    <3>1. CASE files' = Removed(files, "backup")
      BY <1>1, <2>1, <2>2, <3>1 DEF Settled, Removed
    <3>2. CASE Faulty /\ files' = files
      BY <2>1, <2>2, <3>2, Fault DEF Settled
    <3>3. QED
      BY <1>7, <3>1, <3>2 DEF Discard
  <2>4. thread'[t].pc = "source"
    BY <1>3, <1>7 DEF Discard
  <2>5. QED
    BY <2>3, <2>4 DEF Under
<1>8. CASE Restore(t)
  <2>1. budget.faults = 0 /\ files["config"] = Missing /\ files["backup"] = history.saved
    BY <1>8 DEF Restore, At, Under
  <2>2. files' = Restored(files) /\ Return(t) /\ budget' = budget /\ history' = history
    BY <1>8, <2>1, Fault DEF Restore
  <2>3. Settled'
    BY <1>1, <2>1, <2>2 DEF Settled, Restored, Renamed, Removed, Exists
  <2>4. QED
    BY <1>2, <2>2, <2>3
<1>9. QED
  BY <1>4, <1>5, <1>6, <1>7, <1>8 DEF Save

\* A step of a thread.
LEMMA StepStores ==
  ASSUME SInv, NEW t \in Threads, Step(t)
  PROVE  Stores'
<1> SUFFICES ASSUME ~history'.overlapped, ~history'.cut
             PROVE  (InNoSave => Settled)' /\ \A u \in Threads : Under(u)'
  BY DEF Stores
<1>1. ~history.overlapped /\ \A u \in Threads \ {t} : Idle(u) /\ Idle(u)'
  BY AloneKept DEF SInv
<1>2. ~history.cut
  <2>1. history'.cut = history.cut
    BY DEF Step, Wake, Command, CommandMode, CommandDevice, Follow, Select, Begins,
           Refresh, Discover, ReadFlags, Fill, Mark, Install,
           Apply, StopEngine, ReadMode, ReadDraft, ReadFollows, Validate, Persist, Commit, StartEngine,
           Save, Write, SetAside, Replace, Discard, Restore, SInv, TypeOK, HistoryType
  <2>2. QED
    BY <2>1
<1>3. (thread[t].pc \notin SavePcs => Settled) /\ Under(t)
  <2>1. \A u \in Threads \ {t} : thread[u].pc \notin SavePcs
    BY <1>1 DEF Idle, SavePcs
  <2>2. QED
    BY <1>1, <1>2, <2>1 DEF SInv, Stores, InNoSave
<1>4. (thread'[t].pc \notin SavePcs => Settled') /\ Under(t)'
  <2>1. CASE Save(t)
    BY <1>3, <2>1, SaveStores DEF SInv
  <2>2. CASE ~Save(t)
    <3>1. thread[t].pc \notin SavePcs
      BY <2>2 DEF Step, Wake, Command, CommandMode, CommandDevice, Follow, Select,
                  Refresh, Discover, ReadFlags, Fill, Mark, Install,
                  Apply, StopEngine, ReadMode, ReadDraft, ReadFollows, Validate, Persist, Commit,
                  StartEngine, At, SavePcs
    <3>2. Settled'
      BY <1>3, <2>2, <3>1, FilesKept DEF SInv, Settled
    <3>3. thread'[t].pc \notin SavePcs \/ thread'[t].pc = "write"
      <4>1. CASE Persist(t)
        BY <4>1 DEF Persist, Go, SInv, TypeOK, ThreadType, SavePcs
      <4>2. CASE ~Persist(t)
        BY <2>2, <4>2, StepsOutside DEF SInv
      <4>3. QED
        BY <4>1, <4>2
    <3>4. QED
      BY <3>2, <3>3 DEF Under, SavePcs
  <2>3. QED
    BY <2>1, <2>2
<1>5. \A u \in Threads \ {t} : Under(u)' /\ thread'[u].pc \notin SavePcs
  BY <1>1 DEF Idle, Under, SavePcs
<1>6. QED
  BY <1>4, <1>5 DEF InNoSave

\* The initial states.
LEMMA InitSInv == Init /\ MaxFaults <= 1 => SInv
<1> SUFFICES ASSUME Init, MaxFaults <= 1
             PROVE  SInv
  OBVIOUS
<1>1. TypeOK /\ budget.faults <= 1
  BY InitType DEF Init
<1>2. \A t \in Threads : thread[t].pc \in {"discover", "none"}
  BY DEF Init, Resting
<1>3. Alone
  <2>1. \A t \in Threads : t = "main" \/ Idle(t)
    BY DEF Init, Resting, Idle, Threads
  <2>2. QED
    BY <2>1 DEF Alone
<1>4. Settled
  BY DEF Init, Settled, Names
<1>5. Stores
  BY <1>2, <1>4 DEF Stores, Under
<1>6. QED
  BY <1>1, <1>3, <1>5 DEF SInv

\* All steps.
LEMMA NextSInv == SInv /\ [Next]_vars => SInv'
<1> SUFFICES ASSUME SInv, [Next]_vars
             PROVE  SInv'
  OBVIOUS
<1>1. TypeOK'
  BY NextType DEF SInv
<1>2. CASE UNCHANGED vars
  BY <1>1, <1>2 DEF SInv, vars, Alone, Idle, Stores, InNoSave, Settled, Under
<1>3. CASE Plug
  <2>1. budget'.faults = budget.faults
    BY <1>3, Fault DEF Plug, SInv
  <2>2. Alone' /\ Stores'
    BY <1>3, <2>1 DEF Plug, SInv, Alone, Idle, Stores, InNoSave, Settled, Under
  <2>3. QED
    BY <1>1, <2>1, <2>2 DEF SInv
<1>4. CASE Exit
  <2>1. budget'.faults = budget.faults
    BY <1>4, Fault DEF Exit, SInv
  <2>2. /\ \A t \in Threads : thread'[t].pc \in {"discover", "none"}
        /\ thread'["poll"].pc = "none"
    BY <1>4 DEF Exit, Resting, Threads
  <2>3. Alone'
    BY <2>2 DEF Alone, Idle, Threads
  <2>4. ASSUME ~history'.overlapped, ~history'.cut
        PROVE  Settled'
    <3>1. /\ ~history.overlapped /\ ~history.cut /\ InNoSave
          /\ history'.saved = history.saved
      BY <1>4, <2>4 DEF Exit, InNoSave, SInv, TypeOK, HistoryType
    <3>2. files' = files
      BY <1>4, <3>1 DEF Exit, InNoSave, At, SavePcs
    <3>3. QED
      BY <2>1, <3>1, <3>2 DEF SInv, Stores, Settled
  <2>5. Stores'
    BY <2>2, <2>4 DEF Stores, Under
  <2>6. QED
    BY <1>1, <2>1, <2>3, <2>5 DEF SInv
<1>5. ASSUME NEW t \in Threads, Step(t)
      PROVE  SInv'
  <2>1. budget'.faults <= 1
    <3>1. budget' = budget \/ Faulty \/ Spend("commands")
      BY <1>5 DEF Step, Wake, Command, CommandMode, CommandDevice, Follow, Select,
           Refresh, Discover, ReadFlags, Fill, Mark, Install,
           Apply, StopEngine, ReadMode, ReadDraft, ReadFollows, Validate, Persist, Commit, StartEngine,
           Save, Write, SetAside, Replace, Discard, Restore
    <3>2. QED
      BY <3>1, Fault DEF SInv
  <2>2. QED
    BY <1>1, <1>5, <2>1, AloneKept, StepStores DEF SInv
<1>6. QED
  BY <1>2, <1>3, <1>4, <1>5, NextSteps

\* SavedIsFound: with at most one failing call to the system, the store holds what
\* was saved last, whichever call of a save failed (save, replace_file), after any
\* commands, changes of devices and exits outside a save.  With two failing calls
\* it is false: the rename and the rename that restores the backup may both fail.
THEOREM SavedCorrect ==
  ASSUME MaxFaults <= 1
  PROVE  Spec => []SavedIsFound
<1>1. Init => SInv
  BY InitSInv
<1>2. SInv => SavedIsFound
  BY DEF SInv, Stores, InNoSave, Settled, SavedIsFound
<1>3. QED
  BY <1>1, <1>2, NextSInv, PTL DEF Spec

-----------------------------------------------------------------------------
(* What an operation leaves behind.                                        *)

Running == engine \notin {Missing, Torn}

\* The engine runs what the tray shows and has stored.
Consistent ==
  /\ tray.configuration = engine
  /\ tray.draft = engine.device /\ tray.mode = engine.mode /\ tray.follows = engine.follows
  /\ tray.source = "Persisted" => files["config"] = engine
  /\ ~tray.pending /\ tray.inventory # NoInventory

\* A role that follows the default has it selected.
Defaulted(follows, inventory) ==
  \A r \in DefaultRoles : follows[r] => tray.draft[r] = inventory.default[r]

Followed == tray.inventory # NoInventory => Defaulted(tray.follows, tray.inventory)

Agrees == (Running => Consistent) /\ Followed

RestPcs == {"idle", "none", "discover", "flags", "fill"}
KeepPcs == {"mark", "install"}
CommitPcs == {"configuration", "commit_draft", "commit_mode", "commit_pending", "start"}
BuiltPcs == {"persist", "source"} \union SavePcs \union CommitPcs
BuildPcs == {"mode", "draft", "follows", "validate"} \union BuiltPcs

\* A refresh that found what the tray knows changes nothing the engine runs with.
Finding(t) ==
  LET me == thread[t]
  IN /\ me.pc \in {"flags", "fill"} \union KeepPcs => me.changed \/ me.found = tray.inventory
     /\ me.pc = "fill" => me.pending = tray.pending /\ me.follows = tray.follows
     /\ me.pc \in KeepPcs /\ Running /\ ~me.changed =>
          Consistent /\ (me.pc = "mark" => me.fresh = {})
     /\ me.pc = "mark" => \A r \in DefaultRoles : tray.follows[r] \/ r \in me.fresh =>
                            tray.draft[r] = me.found.default[r]
     /\ me.pc = "install" => Defaulted(tray.follows, me.found)

\* A command changes one role, first whether it follows, then what is selected.
Choosing(t) ==
  LET me == thread[t]
  IN /\ me.pc = "follow" =>
          /\ Followed /\ me.role \in DefaultRoles
          /\ me.follow => me.choice = tray.inventory.default[me.role]
     /\ me.pc = "select" /\ tray.inventory # NoInventory =>
          \A r \in DefaultRoles : tray.follows[r] =>
            IF r = me.role THEN me.choice = tray.inventory.default[r]
                           ELSE tray.draft[r] = tray.inventory.default[r]

\* The candidate is what the tray shows as far as it has been read, and after the
\* save what is stored; the engine does not run meanwhile.
Building(t) ==
  LET me == thread[t]
  IN /\ me.pc \in {"stop"} \union BuildPcs => Followed
     /\ me.pc \in BuildPcs => engine = Missing
     /\ me.pc \in {"draft", "follows", "validate"} \union BuiltPcs => me.candidate.mode = tray.mode
     /\ me.pc \in {"follows", "validate"} \union BuiltPcs => me.candidate.device = tray.draft
     /\ me.pc \in {"validate"} \union BuiltPcs => me.candidate.follows = tray.follows
     /\ me.pc \in BuiltPcs => tray.inventory # NoInventory
     /\ me.pc \in {"set_aside", "replace"} => files["temporary"] = me.candidate
     /\ me.pc \in {"discard", "source"} => files["config"] = me.candidate
     /\ me.pc \in CommitPcs /\ tray.source = "Persisted" => files["config"] = me.candidate
     /\ me.pc \in CommitPcs \ {"configuration"} => tray.configuration = me.candidate
     /\ me.pc = "start" => ~tray.pending

Phase(t) ==
  (thread[t].pc \in RestPcs => Agrees) /\ Finding(t) /\ Choosing(t) /\ Building(t)

Orderly ==
  ~history.overlapped =>
    \A t \in Threads : (\A u \in Threads \ {t} : Idle(u)) => Phase(t)

QInv == TypeOK /\ Alone /\ Orderly

\* Going on changes no local variable, and an operation that ends rests.
LEMMA Went ==
  ASSUME TypeOK, NEW t \in Threads
  PROVE  /\ \A pc : Go(t, pc) => /\ thread'[t].pc = pc
                                 /\ thread'[t].found = thread[t].found
                                 /\ thread'[t].changed = thread[t].changed
                                 /\ thread'[t].fresh = thread[t].fresh
                                 /\ thread'[t].candidate = thread[t].candidate
                                 /\ thread'[t].role = thread[t].role
                                 /\ thread'[t].choice = thread[t].choice
                                 /\ thread'[t].follow = thread[t].follow
         /\ Return(t) => thread'[t].pc = "idle"
<1>1. thread \in [Threads -> ThreadType]
  BY DEF TypeOK
<1>2. ASSUME NEW pc, Go(t, pc)
      PROVE  /\ thread'[t].pc = pc
             /\ thread'[t].found = thread[t].found
             /\ thread'[t].changed = thread[t].changed
             /\ thread'[t].fresh = thread[t].fresh
             /\ thread'[t].candidate = thread[t].candidate
             /\ thread'[t].role = thread[t].role
             /\ thread'[t].choice = thread[t].choice
             /\ thread'[t].follow = thread[t].follow
  BY <1>1, <1>2 DEF Go, ThreadType
<1>3. Return(t) => thread'[t].pc = "idle"
  BY <1>1 DEF Return, Resting, Threads
<1>4. QED
  BY <1>2, <1>3

\* An operation may end wherever the tray agrees with the engine.
LEMMA PhaseEnds ==
  ASSUME TypeOK, NEW t \in Threads, Return(t), Agrees'
  PROVE  Phase(t)'
<1>1. thread'[t].pc = "idle"
  BY Went
<1>2. QED
  BY <1>1 DEF Phase, Finding, Choosing, Building, RestPcs, KeepPcs, BuildPcs, BuiltPcs, CommitPcs,
              SavePcs

\* An apply may begin wherever the defaults are followed.
LEMMA PhaseStops ==
  ASSUME TypeOK, NEW t \in Threads, Go(t, "stop"), Followed'
  PROVE  Phase(t)'
<1>1. thread'[t].pc = "stop"
  BY Went
<1>2. QED
  BY <1>1 DEF Phase, Finding, Choosing, Building, RestPcs, KeepPcs, BuildPcs, BuiltPcs, CommitPcs,
              SavePcs

-----------------------------------------------------------------------------
(* The steps of a thread, one after another.                               *)

\* Neither a refresh that found nothing new nor one that leads to an apply leaves
\* the selectors apart from the engine.
LEMMA RefreshPhase ==
  ASSUME TypeOK, NEW t \in Threads, Phase(t), Refresh(t)
  PROVE  Phase(t)'
<1> USE DEF RestPcs, KeepPcs, BuildPcs, BuiltPcs, CommitPcs, SavePcs
<1>0. /\ thread \in [Threads -> ThreadType] /\ thread[t] \in ThreadType
      /\ tray \in TrayType /\ tray.draft \in Selections /\ tray.follows \in Flags
  BY DEF TypeOK, TrayType
<1>1. CASE Discover(t)
  <2>1. Agrees /\ Agrees'
    BY <1>1 DEF Discover, At, Phase, Agrees, Running, Consistent, Followed, Defaulted
  <2>2. CASE thread' = [thread EXCEPT ![t].pc = "flags", ![t].found = system,
                                      ![t].changed = system # tray.inventory]
    <3>1. /\ thread'[t].pc = "flags" /\ thread'[t].found = system
          /\ thread'[t].changed = (system # tray.inventory)
      BY <1>0, <2>2 DEF ThreadType
    <3>2. tray' = tray
      BY <1>1 DEF Discover
    <3>3. QED
      BY <2>1, <3>1, <3>2 DEF Phase, Finding, Choosing, Building
  <2>3. CASE Go(t, "stop")
    BY <2>1, <2>3, PhaseStops DEF Agrees
  <2>4. CASE Return(t)
    BY <2>1, <2>4, PhaseEnds
  <2>5. QED
    BY <1>1, <2>2, <2>3, <2>4 DEF Discover
<1>2. CASE ReadFlags(t)
  <2>1. Agrees /\ Agrees' /\ tray' = tray
    BY <1>2 DEF ReadFlags, At, Phase, Agrees, Running, Consistent, Followed, Defaulted
  <2>2. thread[t].changed \/ thread[t].found = tray.inventory
    BY <1>2 DEF ReadFlags, At, Phase, Finding
  <2>3. /\ thread'[t].pc = "fill" /\ thread'[t].pending = tray.pending
        /\ thread'[t].follows = tray.follows
        /\ thread'[t].found = thread[t].found /\ thread'[t].changed = thread[t].changed
    BY <1>0, <1>2 DEF ReadFlags, ThreadType
  <2>4. QED
    BY <2>1, <2>2, <2>3 DEF Phase, Finding, Choosing, Building
<1>3. CASE Fill(t)
  <2> DEFINE me == thread[t]
             filled == Filled(me)
             fresh == {r \in DefaultRoles : /\ me.pending /\ tray.draft[r] = NoDevice
                                            /\ ~me.follows[r]
                                            /\ Filled(me)[r] = me.found.default[r]}
  <2>1. /\ Agrees /\ (me.changed \/ me.found = tray.inventory)
        /\ me.pending = tray.pending /\ me.follows = tray.follows
    BY <1>3 DEF Fill, At, Phase, Finding
  <2>2. /\ tray'.draft = filled /\ tray'.follows = tray.follows
        /\ tray'.inventory = tray.inventory /\ tray'.mode = tray.mode
        /\ tray'.configuration = tray.configuration /\ tray'.source = tray.source
        /\ tray'.pending = tray.pending
    BY <1>0, <1>3 DEF Fill, TrayType
  <2>3. /\ thread'[t].pc = "mark" /\ thread'[t].fresh = fresh
        /\ thread'[t].found = me.found /\ thread'[t].changed = me.changed
    BY <1>0, <1>3 DEF Fill, ThreadType
  <2>4. \A r \in DefaultRoles : r \in Roles /\ (tray.follows[r] => filled[r] = me.found.default[r])
    BY <2>1, TrayAssumption DEF Filled
  <2>5. \A r \in fresh : filled[r] = me.found.default[r]
    OBVIOUS
  <2>6. ASSUME Running, ~me.changed
        PROVE  filled = tray.draft /\ fresh = {}
    <3>1. Consistent /\ ~me.pending /\ Defaulted(me.follows, me.found)
      BY <2>1, <2>6 DEF Agrees, Followed, Consistent
    <3>2. \A r \in Roles : Filled(me)[r] = tray.draft[r]
      BY <3>1 DEF Filled, Defaulted
    <3>3. Filled(me) \in Selections
      BY FilledType
    <3>4. filled = tray.draft
      BY <1>0, <3>2, <3>3 DEF Selections
    <3>5. QED
      BY <3>1, <3>4
  <2>7. engine' = engine /\ files' = files
    BY <1>3 DEF Fill
  <2> HIDE DEF filled, fresh, me
  <2>8. (Running' <=> Running) /\ (Running /\ ~me.changed => Consistent')
    BY <2>1, <2>2, <2>6, <2>7 DEF Agrees, Running, Consistent
  <2>9. \A r \in DefaultRoles : tray'.follows[r] \/ r \in thread'[t].fresh =>
                                  tray'.draft[r] = thread'[t].found.default[r]
    BY <2>2, <2>3, <2>4, <2>5
  <2>10. Finding(t)'
    BY <2>1, <2>2, <2>3, <2>6, <2>8, <2>9 DEF Finding
  <2>11. QED
    BY <2>3, <2>10 DEF Phase, Choosing, Building
<1>4. CASE Mark(t)
  <2> DEFINE me == thread[t]
             marked == [r \in DefaultRoles |-> tray.follows[r] \/ r \in me.fresh]
  <2>1. /\ me.changed \/ me.found = tray.inventory
        /\ Running /\ ~me.changed => Consistent /\ me.fresh = {}
        /\ \A r \in DefaultRoles : tray.follows[r] \/ r \in me.fresh =>
                                     tray.draft[r] = me.found.default[r]
    BY <1>4 DEF Mark, At, Phase, Finding
  <2>2. /\ tray'.draft = tray.draft /\ tray'.follows = marked
        /\ tray'.inventory = tray.inventory /\ tray'.mode = tray.mode
        /\ tray'.configuration = tray.configuration /\ tray'.source = tray.source
        /\ tray'.pending = tray.pending
    BY <1>0, <1>4 DEF Mark, TrayType
  <2>3. /\ thread'[t].pc = "install" /\ thread'[t].found = me.found
        /\ thread'[t].changed = me.changed
    BY <1>4, Went DEF Mark
  <2>4. me.fresh = {} => marked = tray.follows
    BY <1>0 DEF Flags
  <2>5. \A r \in DefaultRoles : marked[r] => tray.draft[r] = me.found.default[r]
    BY <2>1
  <2>6. engine' = engine /\ files' = files
    BY <1>4 DEF Mark
  <2> HIDE DEF marked, me
  <2>7. (Running' <=> Running) /\ (Running /\ ~me.changed => Consistent')
    BY <2>1, <2>2, <2>4, <2>6 DEF Running, Consistent
  <2>8. \A r \in DefaultRoles : tray'.follows[r] => tray'.draft[r] = thread'[t].found.default[r]
    BY <2>2, <2>3, <2>5
  <2>9. Finding(t)'
    BY <2>1, <2>2, <2>3, <2>7, <2>8 DEF Finding, Defaulted
  <2>10. QED
    BY <2>3, <2>9 DEF Phase, Choosing, Building
<1>5. CASE Install(t)
  <2> DEFINE me == thread[t]
  <2>1. /\ me.changed \/ me.found = tray.inventory
        /\ Running /\ ~me.changed => Consistent
        /\ Defaulted(tray.follows, me.found)
    BY <1>5 DEF Install, At, Phase, Finding
  <2>2. /\ tray'.draft = tray.draft /\ tray'.follows = tray.follows
        /\ tray'.inventory = me.found /\ tray'.mode = tray.mode
        /\ tray'.configuration = tray.configuration /\ tray'.source = tray.source
        /\ tray'.pending = tray.pending /\ engine' = engine /\ files' = files
    BY <1>0, <1>5 DEF Install, TrayType
  <2>3. Followed'
    BY <2>1, <2>2 DEF Followed, Defaulted
  <2>4. CASE Go(t, "stop")
    BY <2>3, <2>4, PhaseStops
  <2>5. CASE Return(t) /\ ~me.changed
    <3>1. Running' => Consistent'
      BY <2>1, <2>2, <2>5 DEF Running, Consistent
    <3>2. QED
      BY <2>3, <2>5, <3>1, PhaseEnds DEF Agrees
  <2>6. QED
    BY <1>5, <2>4, <2>5 DEF Install
<1>6. QED
  BY <1>1, <1>2, <1>3, <1>4, <1>5 DEF Refresh

\* A command changes what the role follows before what it selects, and both before
\* anything is applied.
LEMMA CommandPhase ==
  ASSUME TypeOK, NEW t \in Threads, Phase(t), (t = "poll" /\ Wake) \/ (t = "main" /\ Command)
  PROVE  Phase(t)'
<1> USE DEF RestPcs, KeepPcs, BuildPcs, BuiltPcs, CommitPcs, SavePcs
<1>0. /\ thread \in [Threads -> ThreadType] /\ thread[t] \in ThreadType
      /\ tray \in TrayType /\ tray.draft \in Selections /\ tray.follows \in Flags
  BY DEF TypeOK, TrayType
<1>1. CASE t = "poll" /\ Wake
  <2>1. Agrees' /\ thread'[t].pc = "discover"
    BY <1>1, Went DEF Wake, At, Phase, Agrees, Running, Consistent, Followed, Defaulted
  <2>2. QED
    BY <2>1 DEF Phase, Finding, Choosing, Building
<1>2. CASE t = "main" /\ CommandMode
  <2>1. Followed /\ Go(t, "stop")
    BY <1>2 DEF CommandMode, At, Phase, Agrees
  <2>2. \E mode : tray' = [tray EXCEPT !.mode = mode]
    BY <1>2 DEF CommandMode
  <2>3. /\ tray'.draft = tray.draft /\ tray'.follows = tray.follows
        /\ tray'.inventory = tray.inventory
    BY <1>0, <2>2 DEF TrayType
  <2>4. QED
    BY <2>1, <2>3, PhaseStops DEF Followed, Defaulted
<1>3. CASE t = "main" /\ CommandDevice
  <2>1. Followed /\ tray' = tray
    BY <1>3 DEF CommandDevice, At, Phase, Agrees
  <2>2. PICK r \in Roles, d \in Devices, follow \in BOOLEAN :
          /\ IF follow THEN r \in DefaultRoles /\ d = tray.inventory.default[r]
                       ELSE d \in Listed(tray.inventory, r)
          /\ thread' = [thread EXCEPT !["main"].pc = IF r \in DefaultRoles THEN "follow"
                                                     ELSE "select",
                                      !["main"].role = r,
                                      !["main"].choice = d,
                                      !["main"].follow = follow]
    BY <1>3 DEF CommandDevice
  <2>3. /\ thread'[t].pc = IF r \in DefaultRoles THEN "follow" ELSE "select"
        /\ thread'[t].role = r /\ thread'[t].choice = d /\ thread'[t].follow = follow
    BY <1>0, <1>3, <2>2 DEF ThreadType
  <2>4. CASE r \in DefaultRoles
    <3>1. Followed'
      BY <2>1 DEF Followed, Defaulted
    <3>2. Choosing(t)'
      BY <2>1, <2>2, <2>3, <2>4, <3>1 DEF Choosing
    <3>3. QED
      BY <2>3, <2>4, <3>2 DEF Phase, Finding, Building
  <2>5. CASE r \notin DefaultRoles
    <3>1. Choosing(t)'
      BY <2>1, <2>3, <2>5 DEF Choosing, Followed, Defaulted
    <3>2. QED
      BY <2>3, <2>5, <3>1 DEF Phase, Finding, Building
  <2>6. QED
    BY <2>4, <2>5
<1>4. CASE t = "main" /\ Follow
  <2> DEFINE me == thread[t]
             follows == [tray.follows EXCEPT ![me.role] = me.follow]
  <2>1. /\ Followed /\ me.role \in DefaultRoles
        /\ me.follow => me.choice = tray.inventory.default[me.role]
    BY <1>4 DEF Follow, At, Phase, Choosing
  <2>2. tray' = [tray EXCEPT !.follows = follows]
    BY <1>0, <1>4 DEF Follow, TrayType
  <2>3. \A r \in DefaultRoles : follows[r] = IF r = me.role THEN me.follow ELSE tray.follows[r]
    BY <1>0 DEF Flags
  <2>4. /\ thread'[t].pc = "select" /\ thread'[t].role = me.role
        /\ thread'[t].choice = me.choice
    BY <1>4, Went DEF Follow
  <2> HIDE DEF follows, me
  <2>5. /\ tray'.draft = tray.draft /\ tray'.follows = follows
        /\ tray'.inventory = tray.inventory
    BY <1>0, <2>2 DEF TrayType
  <2>6. Choosing(t)'
    BY <2>1, <2>3, <2>4, <2>5 DEF Choosing, Followed, Defaulted
  <2>7. QED
    BY <2>4, <2>6 DEF Phase, Finding, Building
<1>5. CASE t = "main" /\ Select
  <2> DEFINE me == thread[t]
             draft == [tray.draft EXCEPT ![me.role] = me.choice]
  <2>1. tray.inventory # NoInventory =>
          \A r \in DefaultRoles : tray.follows[r] =>
            IF r = me.role THEN me.choice = tray.inventory.default[r]
                           ELSE tray.draft[r] = tray.inventory.default[r]
    BY <1>5 DEF Select, At, Phase, Choosing
  <2>2. tray' = [tray EXCEPT !.draft = draft]
    BY <1>0, <1>5 DEF Select, TrayType
  <2>3. \A r \in DefaultRoles : draft[r] = IF r = me.role THEN me.choice ELSE tray.draft[r]
    BY <1>0, TrayAssumption DEF Selections
  <2>4. Go(t, "stop")
    BY <1>5 DEF Select
  <2> HIDE DEF draft, me
  <2>5. /\ tray'.draft = draft /\ tray'.follows = tray.follows
        /\ tray'.inventory = tray.inventory
    BY <1>0, <2>2 DEF TrayType
  <2>6. Followed'
    BY <2>1, <2>3, <2>5 DEF Followed, Defaulted
  <2>7. QED
    BY <2>4, <2>6, PhaseStops
<1>6. QED
  BY <1>1, <1>2, <1>3, <1>4, <1>5 DEF Command

\* A candidate passes the checks only with an inventory that offers a device.
LEMMA ValidInventory ==
  ASSUME NEW candidate, Valid(candidate)
  PROVE  tray.inventory # NoInventory
<1>1. PICK r \in Roles : r # "render"
  BY TrayAssumption
<1>2. candidate.device[r] \in Listed(tray.inventory, r)
  BY <1>1 DEF Valid, Required
<1>3. Listed(NoInventory, r) = {}
  <2>1. NoInventory.list[r] = <<>>
    BY DEF NoInventory
  <2>2. QED
    BY <2>1 DEF Listed
<1>4. QED
  BY <1>2, <1>3

\* The calls of a save change nothing but the files; where the candidate is.
LEMMA SavePhase ==
  ASSUME TypeOK, NEW t \in Threads, Phase(t), Save(t)
  PROVE  Phase(t)'
<1> USE DEF RestPcs, KeepPcs, BuildPcs, BuiltPcs, CommitPcs, SavePcs
<1> DEFINE me == thread[t]
<1>0. /\ files \in [Names -> Contents]
      /\ {"config", "temporary", "backup"} \subseteq Names
  BY DEF TypeOK, Names
<1>1. me.pc \in SavePcs /\ tray' = tray /\ engine' = engine
  BY DEF Save, Write, SetAside, Replace, Discard, Restore, At
<1>2. /\ Followed /\ engine = Missing
      /\ me.candidate.mode = tray.mode /\ me.candidate.device = tray.draft
      /\ me.candidate.follows = tray.follows /\ tray.inventory # NoInventory
      /\ me.pc \in {"set_aside", "replace"} => files["temporary"] = me.candidate
      /\ me.pc = "discard" => files["config"] = me.candidate
  BY <1>1 DEF Phase, Building
<1>3. Followed' /\ engine' = Missing
  BY <1>1, <1>2 DEF Followed, Defaulted
<1>4. CASE Return(t)
  BY <1>3, <1>4, PhaseEnds DEF Agrees, Running
<1>5. ASSUME NEW pc \in SavePcs \union {"source"}, Go(t, pc),
             pc \in {"set_aside", "replace"} => files'["temporary"] = me.candidate,
             pc \in {"discard", "source"} => files'["config"] = me.candidate
      PROVE  Phase(t)'
  <2>1. thread'[t].pc = pc /\ thread'[t].candidate = me.candidate
    BY <1>5, Went
  <2> HIDE DEF me
  <2>2. Building(t)'
    BY <1>1, <1>2, <1>3, <1>5, <2>1 DEF Building
  <2>3. QED
    BY <2>1, <2>2 DEF Phase, Finding, Choosing
<1>6. CASE Write(t)
  <2>1. CASE files' = Written(files, "temporary", me.candidate) /\ Go(t, "set_aside")
    <3>1. files'["temporary"] = me.candidate
      BY <1>0, <2>1 DEF Written
    <3>2. QED
      BY <1>5, <2>1, <3>1
  <2>2. QED
    BY <1>4, <1>6, <2>1 DEF Write
<1>7. CASE SetAside(t)
  <2>1. files["temporary"] = me.candidate
    BY <1>2, <1>7 DEF SetAside, At
  <2>2. CASE Go(t, "replace")
    <3>1. files' \in {files, Renamed(files, "config", "backup")} \/ Return(t)
      BY <1>7 DEF SetAside
    <3>2. CASE files' \in {files, Renamed(files, "config", "backup")}
      <4>1. files'["temporary"] = me.candidate
        BY <1>0, <2>1, <3>2 DEF Renamed
      <4>2. QED
        BY <1>5, <2>2, <4>1
    <3>3. QED
      BY <1>4, <3>1, <3>2
  <2>3. QED
    BY <1>4, <1>7, <2>2 DEF SetAside
<1>8. CASE Replace(t)
  <2>1. files["temporary"] = me.candidate
    BY <1>2, <1>8 DEF Replace, At
  <2>2. CASE files' = Renamed(files, "temporary", "config") /\ Go(t, "discard")
    <3>1. files'["config"] = me.candidate
      BY <1>0, <2>1, <2>2 DEF Renamed
    <3>2. QED
      BY <1>5, <2>2, <3>1
  <2>3. CASE Go(t, "restore")
    BY <1>5, <2>3
  <2>4. QED
    BY <1>8, <2>2, <2>3 DEF Replace
<1>9. CASE Discard(t)
  <2>1. files["config"] = me.candidate /\ Go(t, "source")
    BY <1>2, <1>9 DEF Discard, At
  <2>2. files' \in {files, Removed(files, "backup")}
    BY <1>9 DEF Discard
  <2>3. files'["config"] = me.candidate
    BY <1>0, <2>1, <2>2 DEF Removed
  <2>4. QED
    BY <1>5, <2>1, <2>3
<1>10. CASE Restore(t)
  BY <1>4, <1>10 DEF Restore
<1>11. QED
  BY <1>6, <1>7, <1>8, <1>9, <1>10 DEF Save

\* The candidate is read field by field, checked, and recorded field by field.
LEMMA ApplyPhase ==
  ASSUME TypeOK, NEW t \in Threads, Phase(t), Apply(t), ~Save(t)
  PROVE  Phase(t)'
<1> USE DEF RestPcs, KeepPcs, BuildPcs, BuiltPcs, CommitPcs, SavePcs
<1> DEFINE me == thread[t]
<1>0. /\ thread \in [Threads -> ThreadType] /\ me \in ThreadType
      /\ tray \in TrayType /\ me.candidate \in Configurations
  BY DEF TypeOK, ThreadType
<1>1. CASE StopEngine(t)
  <2>1. Followed /\ Followed' /\ tray' = tray
    BY <1>1 DEF StopEngine, At, Phase, Building, Followed, Defaulted
  <2>2. CASE engine' = Missing /\ Go(t, "mode")
    <3>1. thread'[t].pc = "mode"
      BY <2>2, Went
    <3>2. QED
      BY <2>1, <2>2, <3>1 DEF Phase, Finding, Choosing, Building
  <2>3. CASE engine' = Torn /\ Return(t)
    BY <2>1, <2>3, PhaseEnds DEF Agrees, Running
  <2>4. QED
    BY <1>1, <2>2, <2>3 DEF StopEngine
<1>2. ASSUME engine' = engine, tray' = tray, engine = Missing, Followed
      PROVE  Followed' /\ engine' = Missing /\ (Return(t) => Phase(t)')
  <2>1. Followed'
    BY <1>2 DEF Followed, Defaulted
  <2>2. QED
    BY <1>2, <2>1, PhaseEnds DEF Agrees, Running
<1>3. CASE ReadMode(t)
  <2>1. /\ Followed /\ engine = Missing /\ tray' = tray /\ engine' = engine
    BY <1>3 DEF ReadMode, At, Phase, Building
  <2> DEFINE candidate == [me.candidate EXCEPT !.mode = tray.mode]
  <2>2. candidate.mode = tray.mode
    BY <1>0 DEF Configurations
  <2>3. thread' = [thread EXCEPT ![t].pc = "draft", ![t].candidate = candidate]
    BY <1>3 DEF ReadMode
  <2> HIDE DEF candidate
  <2>4. thread'[t].pc = "draft" /\ thread'[t].candidate = candidate
    BY <1>0, <2>3 DEF ThreadType
  <2>5. QED
    BY <1>2, <2>1, <2>2, <2>4 DEF Phase, Finding, Choosing, Building
<1>4. CASE ReadDraft(t)
  <2>1. /\ Followed /\ engine = Missing /\ tray' = tray /\ engine' = engine
        /\ me.candidate.mode = tray.mode
    BY <1>4 DEF ReadDraft, At, Phase, Building
  <2> DEFINE candidate == [me.candidate EXCEPT !.device = tray.draft]
  <2>2. candidate.device = tray.draft /\ candidate.mode = me.candidate.mode
    BY <1>0 DEF Configurations
  <2>3. CASE Return(t)
    BY <1>2, <2>1, <2>3
  <2>4. CASE thread' = [thread EXCEPT ![t].pc = "follows", ![t].candidate = candidate]
    <3> HIDE DEF candidate
    <3>1. thread'[t].pc = "follows" /\ thread'[t].candidate = candidate
      BY <1>0, <2>4 DEF ThreadType
    <3>2. QED
      BY <1>2, <2>1, <2>2, <3>1 DEF Phase, Finding, Choosing, Building
  <2>5. QED
    BY <1>4, <2>3, <2>4 DEF ReadDraft
<1>5. CASE ReadFollows(t)
  <2>1. /\ Followed /\ engine = Missing /\ tray' = tray /\ engine' = engine
        /\ me.candidate.mode = tray.mode /\ me.candidate.device = tray.draft
    BY <1>5 DEF ReadFollows, At, Phase, Building
  <2> DEFINE candidate == [me.candidate EXCEPT !.follows = tray.follows]
  <2>2. /\ candidate.follows = tray.follows /\ candidate.mode = me.candidate.mode
        /\ candidate.device = me.candidate.device
    BY <1>0 DEF Configurations
  <2>3. thread' = [thread EXCEPT ![t].pc = "validate", ![t].candidate = candidate]
    BY <1>5 DEF ReadFollows
  <2> HIDE DEF candidate
  <2>4. thread'[t].pc = "validate" /\ thread'[t].candidate = candidate
    BY <1>0, <2>3 DEF ThreadType
  <2>5. QED
    BY <1>2, <2>1, <2>2, <2>4 DEF Phase, Finding, Choosing, Building
<1>6. CASE Validate(t)
  <2>1. /\ Followed /\ engine = Missing /\ tray' = tray /\ engine' = engine
        /\ me.candidate.mode = tray.mode /\ me.candidate.device = tray.draft
        /\ me.candidate.follows = tray.follows
    BY <1>6 DEF Validate, At, Phase, Building
  <2>2. CASE Return(t)
    BY <1>2, <2>1, <2>2
  <2>3. CASE Valid(me.candidate) /\ Go(t, "persist")
    <3>1. tray.inventory # NoInventory
      BY <2>3, ValidInventory
    <3>2. thread'[t].pc = "persist" /\ thread'[t].candidate = me.candidate
      BY <2>3, Went
    <3>3. QED
      BY <1>2, <2>1, <3>1, <3>2 DEF Phase, Finding, Choosing, Building
  <2>4. QED
    BY <1>6, <2>2, <2>3 DEF Validate
<1>7. CASE Persist(t)
  <2>1. /\ Followed /\ engine = Missing /\ tray' = tray /\ engine' = engine
        /\ me.candidate.mode = tray.mode /\ me.candidate.device = tray.draft
        /\ me.candidate.follows = tray.follows /\ tray.inventory # NoInventory
    BY <1>7 DEF Persist, At, Phase, Building
  <2>2. CASE Editable /\ Go(t, "write")
    <3>1. thread'[t].pc = "write" /\ thread'[t].candidate = me.candidate
      BY <2>2, Went
    <3>2. QED
      BY <1>2, <2>1, <3>1 DEF Phase, Finding, Choosing, Building
  <2>3. CASE ~Editable /\ Go(t, "configuration")
    <3>1. thread'[t].pc = "configuration" /\ thread'[t].candidate = me.candidate
      BY <2>3, Went
    <3>2. tray'.source # "Persisted"
      BY <2>1, <2>3 DEF Editable
    <3>3. QED
      BY <1>2, <2>1, <3>1, <3>2 DEF Phase, Finding, Choosing, Building
  <2>4. QED
    BY <1>7, <2>2, <2>3 DEF Persist
<1>8. CASE Commit(t)
  <2>1. /\ Followed /\ engine = Missing /\ engine' = engine /\ files' = files
        /\ me.candidate.mode = tray.mode /\ me.candidate.device = tray.draft
        /\ me.candidate.follows = tray.follows /\ tray.inventory # NoInventory
        /\ me.pc = "source" => files["config"] = me.candidate
        /\ me.pc # "source" /\ tray.source = "Persisted" => files["config"] = me.candidate
        /\ me.pc \notin {"source", "configuration"} => tray.configuration = me.candidate
    BY <1>8 DEF Commit, At, Phase, Building
  <2>2. /\ tray'.mode = tray.mode /\ tray'.draft = tray.draft
        /\ tray'.follows = tray.follows /\ tray'.inventory = tray.inventory
    BY <1>0, <1>8, <2>1 DEF Commit, TrayType
  <2>3. /\ tray'.source = "Persisted" => files'["config"] = me.candidate
        /\ me.pc # "source" => tray'.configuration = me.candidate
        /\ me.pc = "commit_pending" => ~tray'.pending
    BY <1>0, <1>8, <2>1 DEF Commit, At, TrayType
  <2>4. PICK pc \in CommitPcs : /\ Go(t, pc)
                                /\ pc # "configuration" => me.pc # "source"
                                /\ pc = "start" => me.pc = "commit_pending"
    BY <1>8 DEF Commit, At
  <2>5. thread'[t].pc = pc /\ thread'[t].candidate = me.candidate
    BY <2>4, Went
  <2>6. Followed'
    BY <2>1, <2>2 DEF Followed, Defaulted
  <2> HIDE DEF me
  <2>7. Building(t)'
    BY <2>1, <2>2, <2>3, <2>4, <2>5, <2>6 DEF Building
  <2>8. QED
    BY <2>5, <2>7 DEF Phase, Finding, Choosing
<1>9. CASE StartEngine(t)
  <2>1. /\ Followed /\ engine = Missing /\ tray' = tray /\ files' = files
        /\ me.candidate.mode = tray.mode /\ me.candidate.device = tray.draft
        /\ me.candidate.follows = tray.follows /\ tray.inventory # NoInventory
        /\ tray.source = "Persisted" => files["config"] = me.candidate
        /\ tray.configuration = me.candidate /\ ~tray.pending
    BY <1>9 DEF StartEngine, At, Phase, Building
  <2>2. Return(t) /\ engine' \in {Missing, me.candidate}
    BY <1>9, <2>1 DEF StartEngine
  <2>3. Followed'
    BY <2>1 DEF Followed, Defaulted
  <2>4. Running' => Consistent'
    BY <2>1, <2>2 DEF Running, Consistent
  <2>5. QED
    BY <2>2, <2>3, <2>4, PhaseEnds DEF Agrees
<1>10. QED
  BY <1>1, <1>3, <1>4, <1>5, <1>6, <1>7, <1>8, <1>9 DEF Apply

-----------------------------------------------------------------------------
(* All threads.                                                            *)

\* A step of the only thread that works.
LEMMA StepOrderly ==
  ASSUME QInv, NEW t \in Threads, Step(t)
  PROVE  Orderly'
<1> SUFFICES ASSUME ~history'.overlapped
             PROVE  \A u \in Threads : (\A v \in Threads \ {u} : Idle(v)') => Phase(u)'
  BY DEF Orderly, Idle
<1>1. ~history.overlapped /\ \A u \in Threads \ {t} : Idle(u) /\ Idle(u)'
  BY AloneKept DEF QInv
<1>2. TypeOK /\ Phase(t)
  BY <1>1 DEF QInv, Orderly
<1>3. Phase(t)'
  BY <1>2, RefreshPhase, CommandPhase, SavePhase, ApplyPhase DEF Step
<1>4. ASSUME NEW u \in Threads \ {t}, Idle(t)'
      PROVE  Phase(u)'
  <2>1. Agrees' /\ Idle(u)'
    BY <1>1, <1>3, <1>4 DEF Phase, Idle, RestPcs
  <2>2. QED
    BY <2>1 DEF Idle, Phase, Finding, Choosing, Building, RestPcs, KeepPcs, BuildPcs, BuiltPcs,
                CommitPcs, SavePcs
<1>5. QED
  BY <1>3, <1>4

\* A process that has just been started.
LEMMA BootOrderly ==
  ASSUME engine = Missing, NEW e, NEW x, tray = Booted(e, x),
         thread = [t \in Threads |-> Resting(IF t = "main" THEN "discover" ELSE "none")]
  PROVE  Alone /\ Orderly
<1>1. thread["main"].pc = "discover" /\ thread["poll"].pc = "none"
  BY DEF Resting, Threads
<1>2. Agrees
  <2>1. tray.inventory = NoInventory
    BY DEF Booted
  <2>2. QED
    BY <2>1 DEF Agrees, Running, Followed
<1>3. Phase("main") /\ ~Idle("main") /\ Idle("poll")
  BY <1>1, <1>2 DEF Idle, Phase, Finding, Choosing, Building, RestPcs, KeepPcs, BuildPcs, BuiltPcs,
                    CommitPcs, SavePcs
<1>4. QED
  BY <1>3 DEF Alone, Orderly, Threads

\* The initial states.
LEMMA InitQInv == Init => QInv
<1> SUFFICES ASSUME Init
             PROVE  QInv
  OBVIOUS
<1>1. PICK stored \in Stored, environment \in Environments : tray = Booted(environment, stored)
  BY DEF Init
<1>2. QED
  BY <1>1, InitType, BootOrderly DEF Init, QInv

\* All steps.
LEMMA NextQInv == QInv /\ [Next]_vars => QInv'
<1> SUFFICES ASSUME QInv, [Next]_vars
             PROVE  QInv'
  OBVIOUS
<1>1. TypeOK'
  BY NextType DEF QInv
<1>2. CASE UNCHANGED vars \/ Plug
  <2>1. UNCHANGED <<files, tray, engine, thread, history>>
    BY <1>2 DEF vars, Plug
  <2>2. Alone' /\ Orderly'
    BY <2>1 DEF QInv, Alone, Orderly, Idle, Phase, Agrees, Running, Consistent, Followed, Defaulted,
                Finding, Choosing, Building
  <2>3. QED
    BY <1>1, <2>2 DEF QInv
<1>3. CASE Exit
  <2>1. (Alone /\ Orderly)'
    <3>1. thread'["main"].pc = "discover" /\ thread'["poll"].pc = "none"
      BY <1>3 DEF Exit, Resting, Threads
    <3>2. Agrees'
      <4>1. tray'.inventory = NoInventory /\ engine' = Missing
        BY <1>3 DEF Exit, Booted
      <4>2. QED
        BY <4>1 DEF Agrees, Running, Followed
    <3>3. Phase("main")' /\ ~Idle("main")' /\ Idle("poll")'
      BY <3>1, <3>2 DEF Idle, Phase, Finding, Choosing, Building, RestPcs, KeepPcs, BuildPcs,
                        BuiltPcs, CommitPcs, SavePcs
    <3>4. QED
      BY <3>3 DEF Alone, Orderly, Threads
  <2>2. QED
    BY <1>1, <2>1 DEF QInv
<1>4. ASSUME NEW t \in Threads, Step(t)
      PROVE  QInv'
  BY <1>1, <1>4, AloneKept, StepOrderly DEF QInv
<1>5. QED
  BY <1>2, <1>3, <1>4, NextSteps

\* Nobody works: what was left behind.
LEMMA QuietAgrees ==
  ASSUME QInv, AllIdle, ~history.overlapped
  PROVE  Agrees
<1>1. Phase("main") /\ Idle("main")
  BY DEF QInv, Orderly, AllIdle, Threads
<1>2. QED
  BY <1>1 DEF Phase, Idle, RestPcs

\* QuietIsConsistent: operations that did not overlap leave the engine running
\* what the tray shows and has stored (apply_current, refresh_inventory), after
\* any commands, changes of devices, failing calls and restarts: an apply that
\* fails anywhere leaves an engine that does not run, and a refresh that found
\* nothing new leaves what runs as it is.
THEOREM QuietCorrect == Spec => []QuietIsConsistent
<1>1. QInv => QuietIsConsistent
  BY QuietAgrees DEF QuietIsConsistent, Agrees, Running, Consistent
<1>2. QED
  BY <1>1, InitQInv, NextQInv, PTL DEF Spec

\* DefaultIsFollowed: a role that follows the system default shows the default of
\* the inventory the tray knows, whichever device came or went, whatever was
\* chosen, failed or restarted in between (initialize_defaults, select_*).
THEOREM DefaultCorrect == Spec => []DefaultIsFollowed
<1>1. QInv => DefaultIsFollowed
  BY QuietAgrees DEF DefaultIsFollowed, Agrees, Followed, Defaulted
<1>2. QED
  BY <1>1, InitQInv, NextQInv, PTL DEF Spec

=============================================================================
