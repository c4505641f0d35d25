-------------------------- MODULE SettingsCommands --------------------------
(***************************************************************************)
(* The commands that change the settings: settings_update, launcher_add,   *)
(* launcher_remove and the saving of the window position.  Each computes a *)
(* candidate from the published settings under the transaction lock, saves *)
(* it and publishes it; a launcher_add looks at files before, without any  *)
(* lock, and merges what it found into the newest list.                    *)
(***************************************************************************)
EXTENDS SettingsFiles

CONSTANTS
  Commands,    \* the invocations that may be under way
  NoActor,     \* nobody
  MaxCalls,    \* how often commands are invoked
  Enabled      \* the commands of a run

ASSUME CommandsAssumption == NoActor \notin Commands /\ MaxCalls \in Nat

VARIABLES
  settings,      \* AppState::settings; between two starts, what was published last
  transaction,   \* the holder of AppState::settings_transaction
  call,          \* what each invocation does
  calls,         \* how many were begun
  approved       \* DestinationPolicy::approved

commandVars == <<settings, transaction, call, calls>>

NoApproval == [host |-> LocalHost, addresses |-> "none"]
NoRequest == [kind |-> "none"]
Idle == [pc |-> "idle", request |-> NoRequest, candidate |-> DefaultSettings,
         dest |-> DefaultSettings.dest, found |-> "none"]

CommandsInit(document) ==
  /\ settings = document
  /\ transaction = NoActor
  /\ call = [c \in Commands |-> Idle]
  /\ calls = 0
  /\ approved = NoApproval

At(c, pc) == call[c].pc = pc
Become(c, record) == call' = [call EXCEPT ![c] = record]
Return(c) == Become(c, Idle)

\* A new invocation, MaxCalls at most.
Begin(c, command, record) ==
  /\ Running /\ At(c, "idle")
  /\ command \in Enabled
  /\ calls < MaxCalls /\ calls' = calls + 1
  /\ Become(c, record)

BeginRequest(c, command, pc, request) ==
  /\ Begin(c, command, [Idle EXCEPT !.pc = pc, !.request = request])
  /\ UNCHANGED <<settings, transaction, approved, fileVars>>

\* The frontend edits the list as it knows it when it asks.
BeginUpdate(c) ==
  \/ \E dest \in Dests \ {settings.dest} :
       BeginRequest(c, "update", "wait", DestPatch(dest))
  \/ \E ids \in Arrangements(ItemIds(settings.items)) :
       BeginRequest(c, "edit", "wait", ItemsPatch(ids))

BeginRemove(c) ==
  \E id \in ItemIds(settings.items) :
    BeginRequest(c, "remove", "wait", RemoveItem(id))

BeginWindow(c) ==
  \E position \in WindowPositions \ {settings.window} :
    BeginRequest(c, "window", "wait", MoveWindow(position))

\* The applications are prepared against a snapshot of the list; only those
\* that are new to it go on, none when all that were asked for are known.
BeginAdd(c) ==
  \E fresh \in Arrangements(Targets \ ItemTargets(settings.items)) :
    /\ fresh = <<>> => settings.items # <<>>
    /\ Extended(settings.items, fresh).ok
    /\ BeginRequest(c, "add", "build", AddItems(fresh))

BuildEnds(c) ==
  /\ At(c, "build")
  /\ \/ Become(c, [call[c] EXCEPT !.pc = "wait"])
     \/ Return(c)
  /\ UNCHANGED <<settings, transaction, calls, approved, fileVars>>

\* The candidate is made of the settings as they are now; the save looks at the
\* file first and refuses one that this version must not write.
TakeTransaction(c) ==
  /\ At(c, "wait") /\ transaction = NoActor
  /\ LET candidate == Candidate(settings, call[c].request)
     IN  IF candidate.ok /\ SaveAllowed(files["primary"])
         THEN /\ transaction' = c
              /\ steps' = SaveSteps(files["primary"], candidate.settings)
              /\ Become(c, [call[c] EXCEPT !.pc = "save",
                                           !.candidate = candidate.settings])
         ELSE Return(c) /\ UNCHANGED <<transaction, steps>>
  /\ UNCHANGED <<settings, calls, approved, files, disk, load, promised>>

SaveStep ==
  /\ Running /\ FileStep
  /\ UNCHANGED <<commandVars, approved>>

SaveFails(c) ==
  /\ At(c, "save") /\ FileStepFails
  /\ transaction' = NoActor
  /\ Return(c)
  /\ UNCHANGED <<settings, calls, approved, load>>

\* The consent of a destination ends with its settings, under their lock.
PublishSettings(c) ==
  /\ At(c, "save") /\ steps = <<>>
  /\ settings' = call[c].candidate
  /\ approved' = IF settings.dest # settings'.dest THEN NoApproval ELSE approved
  /\ transaction' = NoActor
  /\ Return(c)
  /\ UNCHANGED <<calls, fileVars>>

\* The end of the process ends what its commands do.
CallsEnd ==
  /\ transaction' = NoActor
  /\ call' = [c \in Commands |-> Idle]
  /\ approved' = NoApproval
  /\ UNCHANGED <<settings, calls>>

PublishLoaded ==
  /\ LoadCompletes
  /\ settings' = load.settings
  /\ UNCHANGED <<transaction, call, calls, approved>>
=============================================================================
