--------------------------- MODULE SettingsSystem ---------------------------
(***************************************************************************)
(* The settings as a whole: files, start and recovery, the commands that   *)
(* change the document and the consent that depends on it.                 *)
(***************************************************************************)
EXTENDS SpeechDestination

vars == <<fileVars, commandVars, approved, policyVars>>

Init ==
  /\ \E document \in Installed : FilesInit(document) /\ CommandsInit(document)
  /\ PolicyInit

ProcessStep ==
  \/ StartProcess /\ UNCHANGED <<commandVars, approved, policyVars>>
  \/ LoadStep /\ UNCHANGED <<commandVars, approved, policyVars>>
  \/ LoadFails /\ UNCHANGED <<commandVars, approved, policyVars>>
  \/ PublishLoaded /\ UNCHANGED policyVars
  \/ (ProcessStops \/ PowerLoss) /\ CallsEnd /\ PolicyEnds

OutsideStep ==
  \/ (Damage \/ OtherVersion) /\ UNCHANGED <<commandVars, approved, policyVars>>
  \/ DnsChanges

SettingsStep(c) ==
  /\ \/ BeginUpdate(c) \/ BeginRemove(c) \/ BeginWindow(c) \/ BeginAdd(c)
     \/ BuildEnds(c) \/ TakeTransaction(c) \/ SaveFails(c) \/ PublishSettings(c)
  /\ UNCHANGED policyVars

PolicyStep(c) ==
  \/ BeginAuthorize(c) \/ AuthorizeAsks(c) \/ UserAnswers(c)
  \/ AuthorizeResolvesAgain(c) \/ InstallApproval(c)
  \/ BeginDial(c) \/ DialResolves(c) \/ DialDecides(c) \/ HangUp(c)

Next ==
  \/ ProcessStep
  \/ OutsideStep
  \/ SaveStep /\ UNCHANGED policyVars
  \/ \E c \in Commands : SettingsStep(c) \/ PolicyStep(c)

Spec == Init /\ [][Next]_vars

-----------------------------------------------------------------------------
(* Properties. *)

IsChange(a, b) ==
  LET requests ==
        {DestPatch(d) : d \in Dests}
        \cup {ItemsPatch(ids) : ids \in Arrangements(ItemIds(a.items))}
        \cup {AddItems(targets) : targets \in Arrangements(Targets)}
        \cup {RemoveItem(id) : id \in ItemIds(a.items)}
        \cup {MoveWindow(p) : p \in WindowPositions}
  IN  \E request \in requests : Candidate(a, request) = Accepted(b)

Register == INSTANCE SettingsRegister
  WITH Installed <- Installed, Change <- IsChange,
       shown <- settings, kept <- Loadable, damaged <- (promised # {})

\* To whoever looks at the published settings and at what the next start finds,
\* the files are a register: an acknowledged change survives every crash and
\* loss of power, an interrupted one is there or not there as a whole, and no
\* command undoes another that ran at the same time.
RegisterSpec == Register!Spec

\* A start that does not bring back what a start before the damage would have
\* found says so: the user is told whenever the backup or the defaults stand in.
RecoveryIsHonest ==
  [][(load.stage = "finish" /\ load'.stage = "done" /\ promised # {})
       => load.notice \/ load.settings \in promised]_vars

\* A document of a later version, or with fields this version does not know, is
\* never written over, whoever saves and whenever it was put there.
ReadOnlyKept ==
  [][ReadOnlyFile(files["primary"]) /\ ~(Damage \/ OtherVersion \/ PowerLoss)
       => files' = files]_vars

\* An approval in force is one of the destination as it is configured, although
\* the dialog was open while the settings changed.
ApprovalIsConfigured ==
  approved # NoApproval =>
    settings.dest.remote /\ settings.dest.host = approved.host

\* Words leave this computer only in remote mode, to addresses the user saw and
\* confirmed for that host since the start, however DNS changed in between.
OnlyConfirmedAddresses ==
  \A c \in Commands :
    At(c, "connected") /\ call[c].found # "loop" =>
      call[c].dest.remote /\ Identity(call[c].dest, call[c].found) \in confirmed
=============================================================================
