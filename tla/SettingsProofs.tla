--------------------------- MODULE SettingsProofs ---------------------------
(***************************************************************************)
(* The settings, for every set of commands, hosts, destinations, targets   *)
(* and faults.                                                             *)
(*                                                                         *)
(* Consent: ConsentInv is inductive, and the two properties about          *)
(* approvals and connections are parts of it.                              *)
(*                                                                         *)
(* Files: FilesInv says what is left of the file operation under way and   *)
(* who does it; no step of one writes over a document that this version    *)
(* must not write.                                                         *)
(*                                                                         *)
(* Promise: while no start is cut short after a change from outside        *)
(* (Uninterrupted), HonestInv says what a start would find and whether it  *)
(* would tell, and RegisterInv that a save changes what is published by    *)
(* one command; with them the files, their start and the commands          *)
(* implement SettingsRegister.                                             *)
(***************************************************************************)
EXTENDS SettingsSystem, SequenceTheorems, TLAPS

\* The record of an invocation has the fields of Idle.
IsCall(r) ==
  r = [pc |-> r.pc, request |-> r.request, candidate |-> r.candidate,
       dest |-> r.dest, found |-> r.found]

CallsInv ==
  /\ call = [c \in Commands |-> call[c]]
  /\ \A c \in Commands : IsCall(call[c])

\* Nothing is approved and nothing asked before the settings are loaded, which
\* is what lets a start publish settings without a look at the consent.
StoppedInv ==
  ~Running => /\ approved = NoApproval
              /\ \A c \in Commands : At(c, "idle")

\* What is approved was confirmed, whoever removed other approvals meanwhile.
ApprovedInv == approved # NoApproval => approved \in confirmed

\* An authorization is one of a remote destination; once the user has answered,
\* what it would install was confirmed.
AskingInv ==
  \A c \in Commands :
    /\ call[c].pc \in {"resolve", "ask", "again", "install"} => call[c].dest.remote
    /\ call[c].pc \in {"again", "install"} =>
         Identity(call[c].dest, call[c].found) \in confirmed

ConsentInv ==
  /\ CallsInv /\ StoppedInv /\ ApprovedInv /\ AskingInv
  /\ ApprovalIsConfigured /\ OnlyConfirmedAddresses

-----------------------------------------------------------------------------
(* What a step does to the record of an invocation. *)

\* A step moves one invocation and leaves the others where they are.
LEMMA BecomeMoves ==
  ASSUME CallsInv, NEW c \in Commands, NEW r, IsCall(r), Become(c, r)
  PROVE  /\ CallsInv'
         /\ call'[c] = r
         /\ \A d \in Commands \ {c} : call'[d] = call[d]
BY DEF CallsInv, Become, IsCall

\* Idle is the record of an invocation.
LEMMA IdleIsCall == IsCall(Idle) /\ Idle.pc = "idle"
BY DEF IsCall, Idle

\* The steps that give an invocation another stage, with or without a value.
LEMMA StageMoves ==
  ASSUME CallsInv, NEW c \in Commands, NEW pc,
         Become(c, [call[c] EXCEPT !.pc = pc])
  PROVE  /\ CallsInv'
         /\ call'[c].pc = pc
         /\ call'[c].request = call[c].request
         /\ call'[c].candidate = call[c].candidate
         /\ call'[c].dest = call[c].dest
         /\ call'[c].found = call[c].found
         /\ \A d \in Commands \ {c} : call'[d] = call[d]
<1> DEFINE r == call[c]
           q == [pc |-> pc, request |-> r.request, candidate |-> r.candidate,
                 dest |-> r.dest, found |-> r.found]
<1>1. [r EXCEPT !.pc = pc] = q
  BY DEF CallsInv, IsCall
<1>2. IsCall(q) /\ Become(c, q)
  BY <1>1 DEF IsCall
<1>3. QED
  BY <1>2, BecomeMoves

\* The steps that also remember an address.
LEMMA FoundMoves ==
  ASSUME CallsInv, NEW c \in Commands, NEW pc, NEW v,
         Become(c, [call[c] EXCEPT !.pc = pc, !.found = v])
  PROVE  /\ CallsInv'
         /\ call'[c].pc = pc
         /\ call'[c].dest = call[c].dest
         /\ call'[c].found = v
         /\ \A d \in Commands \ {c} : call'[d] = call[d]
<1> DEFINE r == call[c]
           q == [pc |-> pc, request |-> r.request, candidate |-> r.candidate,
                 dest |-> r.dest, found |-> r.found]
<1>1. [r EXCEPT !.pc = pc] = q
  BY DEF CallsInv, IsCall
<1>2. [r EXCEPT !.pc = pc, !.found = v] = [q EXCEPT !.found = v]
  <2> HIDE DEF q, r
  <2>1. QED
    BY <1>1, Zenon
<1>3. /\ IsCall([q EXCEPT !.found = v])
      /\ [q EXCEPT !.found = v].pc = pc
      /\ [q EXCEPT !.found = v].dest = r.dest
      /\ [q EXCEPT !.found = v].found = v
  BY DEF IsCall
<1>4. Become(c, [q EXCEPT !.found = v])
  BY <1>2
<1>5. QED
  <2> HIDE DEF q
  <2>1. QED
    BY <1>3, <1>4, BecomeMoves

\* The step that also remembers what is saved.
LEMMA CandidateMoves ==
  ASSUME CallsInv, NEW c \in Commands, NEW pc, NEW v,
         Become(c, [call[c] EXCEPT !.pc = pc, !.candidate = v])
  PROVE  /\ CallsInv'
         /\ call'[c].pc = pc
         /\ call'[c].candidate = v
         /\ \A d \in Commands \ {c} : call'[d] = call[d]
<1> DEFINE r == call[c]
           q == [pc |-> pc, request |-> r.request, candidate |-> r.candidate,
                 dest |-> r.dest, found |-> r.found]
<1>1. [r EXCEPT !.pc = pc] = q
  BY DEF CallsInv, IsCall
<1>2. [r EXCEPT !.pc = pc, !.candidate = v] = [q EXCEPT !.candidate = v]
  <2> HIDE DEF q, r
  <2>1. QED
    BY <1>1, Zenon
<1>3. /\ IsCall([q EXCEPT !.candidate = v])
      /\ [q EXCEPT !.candidate = v].pc = pc
      /\ [q EXCEPT !.candidate = v].candidate = v
  BY DEF IsCall
<1>4. Become(c, [q EXCEPT !.candidate = v])
  BY <1>2
<1>5. QED
  <2> HIDE DEF q
  <2>1. QED
    BY <1>3, <1>4, BecomeMoves

\* The invocation of a command.
LEMMA RequestMoves ==
  ASSUME CallsInv, NEW c \in Commands, NEW pc, NEW v,
         Become(c, [Idle EXCEPT !.pc = pc, !.request = v])
  PROVE  /\ CallsInv'
         /\ call'[c].pc = pc
         /\ call'[c].request = v
         /\ \A d \in Commands \ {c} : call'[d] = call[d]
<1> DEFINE r == Idle
           q == [pc |-> pc, request |-> r.request, candidate |-> r.candidate,
                 dest |-> r.dest, found |-> r.found]
<1>1. [r EXCEPT !.pc = pc] = q
  BY IdleIsCall DEF CallsInv, IsCall
<1>2. [r EXCEPT !.pc = pc, !.request = v] = [q EXCEPT !.request = v]
  <2> HIDE DEF q, r
  <2>1. QED
    BY <1>1, Zenon
<1>3. /\ IsCall([q EXCEPT !.request = v])
      /\ [q EXCEPT !.request = v].pc = pc
      /\ [q EXCEPT !.request = v].request = v
  BY DEF IsCall
<1>4. Become(c, [q EXCEPT !.request = v])
  BY <1>2
<1>5. QED
  <2> HIDE DEF q
  <2>1. QED
    BY <1>3, <1>4, BecomeMoves

\* The invocation of an authorization or of a connection.
LEMMA DestMoves ==
  ASSUME CallsInv, NEW c \in Commands, NEW pc, NEW v,
         Become(c, [Idle EXCEPT !.pc = pc, !.dest = v])
  PROVE  /\ CallsInv'
         /\ call'[c].pc = pc
         /\ call'[c].dest = v
         /\ \A d \in Commands \ {c} : call'[d] = call[d]
<1> DEFINE r == Idle
           q == [pc |-> pc, request |-> r.request, candidate |-> r.candidate,
                 dest |-> r.dest, found |-> r.found]
<1>1. [r EXCEPT !.pc = pc] = q
  BY IdleIsCall DEF CallsInv, IsCall
<1>2. [r EXCEPT !.pc = pc, !.dest = v] = [q EXCEPT !.dest = v]
  <2> HIDE DEF q, r
  <2>1. QED
    BY <1>1, Zenon
<1>3. /\ IsCall([q EXCEPT !.dest = v])
      /\ [q EXCEPT !.dest = v].pc = pc
      /\ [q EXCEPT !.dest = v].dest = v
  BY DEF IsCall
<1>4. Become(c, [q EXCEPT !.dest = v])
  BY <1>2
<1>5. QED
  <2> HIDE DEF q
  <2>1. QED
    BY <1>3, <1>4, BecomeMoves

\* The end of an invocation.
LEMMA ReturnMoves ==
  ASSUME CallsInv, NEW c \in Commands, Return(c)
  PROVE  /\ CallsInv'
         /\ call'[c].pc = "idle"
         /\ \A d \in Commands \ {c} : call'[d] = call[d]
BY IdleIsCall, BecomeMoves DEF Return

-----------------------------------------------------------------------------
(* Steps of a running process. *)

\* Where an invocation stands that has nothing to do with the consent yet.
Innocent == {"idle", "build", "wait", "save", "dial", "check"}

\* Whoever does something does it in a running process.
LEMMA ActiveRuns ==
  ASSUME StoppedInv, NEW c \in Commands, call[c].pc # "idle"
  PROVE  Running
BY DEF StoppedInv, At

\* A step that withdraws the approval, or keeps it together with the configured
\* destination, and that advances no authorization or connection.
LEMMA InnocentStep ==
  ASSUME ConsentInv, CallsInv', Running, Running',
         confirmed \subseteq confirmed',
         approved' \in {approved, NoApproval},
         approved' # NoApproval => settings'.dest = settings.dest,
         \A d \in Commands : call'[d] = call[d] \/ call'[d].pc \in Innocent
  PROVE  ConsentInv'
<1>1. StoppedInv' /\ ApprovedInv' /\ ApprovalIsConfigured'
  BY DEF ConsentInv, StoppedInv, ApprovedInv, ApprovalIsConfigured
<1>2. AskingInv' /\ OnlyConfirmedAddresses'
  BY DEF ConsentInv, AskingInv, OnlyConfirmedAddresses, Innocent, At, Identity
<1>3. QED
  BY <1>1, <1>2 DEF ConsentInv

\* The commands leave what the consent depends on as it is, or end it.
LEMMA SettingsStepKeeps ==
  ASSUME ConsentInv, NEW c \in Commands, SettingsStep(c)
  PROVE  ConsentInv'
<1> DEFINE Moves == /\ CallsInv'
                    /\ call'[c].pc \in Innocent
                    /\ \A d \in Commands \ {c} : call'[d] = call[d]
<1>1. CallsInv /\ StoppedInv
  BY DEF ConsentInv
<1>2. confirmed' = confirmed
  BY DEF SettingsStep, policyVars
<1>3. /\ Running
      /\ Moves
      /\ load' = load
      /\ approved' \in {approved, NoApproval}
      /\ approved' # NoApproval => settings'.dest = settings.dest
  <2>1. ASSUME NEW cmd, NEW pc \in {"wait", "build"}, NEW request,
               BeginRequest(c, cmd, pc, request)
        PROVE  /\ Running
               /\ Moves
               /\ load' = load /\ approved' = approved /\ settings' = settings
    <3>1. /\ Running
          /\ Become(c, [Idle EXCEPT !.pc = pc, !.request = request])
          /\ load' = load /\ approved' = approved /\ settings' = settings
      BY <2>1 DEF BeginRequest, Begin, fileVars
    <3>2. QED
      BY <1>1, <3>1, RequestMoves DEF Innocent
  <2>2. CASE BeginUpdate(c)
    BY <2>1, <2>2 DEF BeginUpdate
  <2>3. CASE BeginRemove(c)
    BY <2>1, <2>3 DEF BeginRemove
  <2>4. CASE BeginWindow(c)
    BY <2>1, <2>4 DEF BeginWindow
  <2>5. CASE BeginAdd(c)
    BY <2>1, <2>5 DEF BeginAdd
  <2>6. CASE BuildEnds(c)
    <3>1. /\ Running
          /\ load' = load /\ approved' = approved /\ settings' = settings
      BY <1>1, <2>6, ActiveRuns DEF BuildEnds, At, fileVars
    <3>2. Become(c, [call[c] EXCEPT !.pc = "wait"]) \/ Return(c)
      BY <2>6 DEF BuildEnds
    <3>3. Moves
      BY <1>1, <3>2, StageMoves, ReturnMoves DEF Innocent
    <3>4. QED
      BY <3>1, <3>3
  <2>7. CASE TakeTransaction(c)
    <3>1. /\ Running
          /\ load' = load /\ approved' = approved /\ settings' = settings
      BY <1>1, <2>7, ActiveRuns DEF TakeTransaction, At
    <3>2. \/ \E v : Become(c, [call[c] EXCEPT !.pc = "save", !.candidate = v])
          \/ Return(c)
      BY <2>7 DEF TakeTransaction
    <3>3. Moves
      BY <1>1, <3>2, CandidateMoves, ReturnMoves DEF Innocent
    <3>4. QED
      BY <3>1, <3>3
  <2>8. CASE SaveFails(c)
    <3>1. /\ Running /\ Return(c)
          /\ load' = load /\ approved' = approved /\ settings' = settings
      BY <1>1, <2>8, ActiveRuns DEF SaveFails, At
    <3>2. QED
      BY <1>1, <3>1, ReturnMoves DEF Innocent
  <2>9. CASE PublishSettings(c)
    <3>1. Running /\ Return(c) /\ load' = load
      BY <1>1, <2>9, ActiveRuns DEF PublishSettings, At, fileVars
    <3>2. approved' = IF settings.dest # settings'.dest THEN NoApproval ELSE approved
      BY <2>9 DEF PublishSettings
    <3>3. QED
      BY <1>1, <3>1, <3>2, ReturnMoves DEF Innocent
  <2>10. QED
    BY <2>2, <2>3, <2>4, <2>5, <2>6, <2>7, <2>8, <2>9 DEF SettingsStep
<1>4. Running'
  BY <1>3 DEF Running
<1>5. QED
  BY <1>2, <1>3, <1>4, InnocentStep

-----------------------------------------------------------------------------
(* The steps of authorizations and connections. *)

PolicyMoves(c) ==
  /\ CallsInv'
  /\ \A d \in Commands \ {c} : call'[d] = call[d]

\* What is left to show of a step that moves one invocation: what it makes of
\* the approval, and what holds of this invocation.
LEMMA PolicyStepKeeps ==
  ASSUME ConsentInv, NEW c \in Commands, PolicyMoves(c),
         Running, load' = load, settings' = settings,
         confirmed \subseteq confirmed',
         approved' \in {approved, NoApproval}
           \/ /\ approved' = Identity(call[c].dest, call[c].found)
              /\ approved' \in confirmed'
              /\ settings.dest = call[c].dest /\ call[c].dest.remote,
         call'[c].pc \in {"resolve", "ask", "again", "install"} => call'[c].dest.remote,
         call'[c].pc \in {"again", "install"} =>
           Identity(call'[c].dest, call'[c].found) \in confirmed',
         call'[c].pc = "connected" /\ call'[c].found # "loop" =>
           /\ call'[c].dest.remote
           /\ Identity(call'[c].dest, call'[c].found) \in confirmed'
  PROVE  ConsentInv'
<1>1. CallsInv' /\ StoppedInv' /\ ApprovedInv'
  BY DEF ConsentInv, PolicyMoves, StoppedInv, ApprovedInv, Running
<1>2. ApprovalIsConfigured'
  BY DEF ConsentInv, ApprovalIsConfigured, Identity
<1>3. AskingInv'
  BY DEF ConsentInv, AskingInv, PolicyMoves, Identity
<1>4. OnlyConfirmedAddresses'
  BY DEF ConsentInv, OnlyConfirmedAddresses, PolicyMoves, Identity, At
<1>5. QED
  BY <1>1, <1>2, <1>3, <1>4 DEF ConsentInv

\* Up to the user's answer nothing is approved.
LEMMA AskingKeeps ==
  ASSUME ConsentInv, NEW c \in Commands,
         BeginAuthorize(c) \/ AuthorizeAsks(c) \/ UserAnswers(c)
  PROVE  ConsentInv'
<1>1. CallsInv /\ StoppedInv
  BY DEF ConsentInv
<1>2. CASE BeginAuthorize(c)
  <2>1. /\ Running /\ settings.dest.remote
        /\ Become(c, [Idle EXCEPT !.pc = "resolve", !.dest = settings.dest])
        /\ load' = load /\ settings' = settings
        /\ confirmed' = confirmed /\ approved' = approved
    BY <1>2 DEF BeginAuthorize, Begin, fileVars
  <2>2. /\ PolicyMoves(c)
        /\ call'[c].pc = "resolve" /\ call'[c].dest = settings.dest
    BY <1>1, <2>1, DestMoves DEF PolicyMoves
  <2>3. QED
    BY <2>1, <2>2, PolicyStepKeeps
<1>3. CASE AuthorizeAsks(c)
  <2>1. /\ Running
        /\ call[c].dest.remote
        /\ load' = load /\ settings' = settings /\ confirmed' = confirmed
        /\ approved' \in {approved, NoApproval}
    BY <1>1, <1>3, ActiveRuns DEF AuthorizeAsks, At, fileVars, ConsentInv, AskingInv
  <2>2. \/ Return(c)
        \/ \E v : Become(c, [call[c] EXCEPT !.pc = "ask", !.found = v])
    BY <1>3 DEF AuthorizeAsks, Refused
  <2>3. /\ PolicyMoves(c)
        /\ \/ call'[c].pc = "idle"
           \/ call'[c].pc = "ask" /\ call'[c].dest = call[c].dest
    BY <1>1, <2>2, ReturnMoves, FoundMoves DEF PolicyMoves
  <2>4. QED
    BY <2>1, <2>3, PolicyStepKeeps
<1>4. CASE UserAnswers(c)
  <2>1. /\ Running
        /\ call[c].dest.remote
        /\ load' = load /\ settings' = settings /\ approved' = approved
    BY <1>1, <1>4, ActiveRuns DEF UserAnswers, At, fileVars, ConsentInv, AskingInv
  <2>2. CASE Refused(c) /\ confirmed' = confirmed
    <3>1. PolicyMoves(c) /\ call'[c].pc = "idle"
      BY <1>1, <2>2, ReturnMoves DEF PolicyMoves, Refused
    <3>2. QED
      BY <2>1, <2>2, <3>1, PolicyStepKeeps
  <2>3. CASE /\ confirmed' = confirmed \cup {Identity(call[c].dest, call[c].found)}
             /\ Become(c, [call[c] EXCEPT !.pc = "again"])
    <3>1. /\ PolicyMoves(c) /\ call'[c].pc = "again"
          /\ call'[c].dest = call[c].dest /\ call'[c].found = call[c].found
      BY <1>1, <2>3, StageMoves DEF PolicyMoves
    <3>2. QED
      BY <2>1, <2>3, <3>1, PolicyStepKeeps
  <2>4. QED
    BY <1>4, <2>2, <2>3 DEF UserAnswers
<1>5. QED
  BY <1>2, <1>3, <1>4

\* After it the names are resolved again and the settings compared.
LEMMA InstallingKeeps ==
  ASSUME ConsentInv, NEW c \in Commands,
         AuthorizeResolvesAgain(c) \/ InstallApproval(c)
  PROVE  ConsentInv'
<1>1. CallsInv /\ StoppedInv
  BY DEF ConsentInv
<1>2. /\ Running
      /\ call[c].dest.remote
      /\ Identity(call[c].dest, call[c].found) \in confirmed
      /\ load' = load /\ settings' = settings /\ confirmed' = confirmed
  BY <1>1, ActiveRuns DEF AuthorizeResolvesAgain, InstallApproval, At, fileVars,
     policyVars, ConsentInv, AskingInv
<1>3. CASE AuthorizeResolvesAgain(c)
  <2>1. approved' = approved
    BY <1>3 DEF AuthorizeResolvesAgain
  <2>2. Return(c) \/ Become(c, [call[c] EXCEPT !.pc = "install"])
    BY <1>3 DEF AuthorizeResolvesAgain, Refused
  <2>3. /\ PolicyMoves(c)
        /\ \/ call'[c].pc = "idle"
           \/ /\ call'[c].pc = "install"
              /\ call'[c].dest = call[c].dest /\ call'[c].found = call[c].found
    BY <1>1, <2>2, ReturnMoves, StageMoves DEF PolicyMoves
  <2>4. QED
    BY <1>2, <2>1, <2>3, PolicyStepKeeps
<1>4. CASE InstallApproval(c)
  <2>1. approved' = IF settings.dest = call[c].dest
                    THEN Identity(call[c].dest, call[c].found) ELSE approved
    BY <1>4 DEF InstallApproval
  <2>2. PolicyMoves(c) /\ call'[c].pc = "idle"
    BY <1>1, <1>4, ReturnMoves DEF PolicyMoves, InstallApproval
  <2>3. QED
    BY <1>2, <2>1, <2>2, PolicyStepKeeps
<1>5. QED
  BY <1>3, <1>4

\* A connection goes on with the addresses it was decided on, and the approval
\* that decides is one that was confirmed.
LEMMA DialingKeeps ==
  ASSUME ConsentInv, NEW c \in Commands,
         BeginDial(c) \/ DialResolves(c) \/ DialDecides(c) \/ HangUp(c)
  PROVE  ConsentInv'
<1>1. CallsInv /\ StoppedInv
  BY DEF ConsentInv
<1>2. Running /\ load' = load /\ settings' = settings /\ confirmed' = confirmed
  BY <1>1, ActiveRuns DEF BeginDial, Begin, DialResolves, DialDecides, HangUp, At,
     fileVars, policyVars
<1>3. CASE BeginDial(c)
  <2>1. /\ Become(c, [Idle EXCEPT !.pc = "dial", !.dest = settings.dest])
        /\ approved' = approved
    BY <1>3 DEF BeginDial, Begin
  <2>2. PolicyMoves(c) /\ call'[c].pc = "dial"
    BY <1>1, <2>1, DestMoves DEF PolicyMoves
  <2>3. QED
    BY <1>2, <2>1, <2>2, PolicyStepKeeps
<1>4. CASE DialResolves(c)
  <2>1. /\ approved' \in {approved, NoApproval}
        /\ \/ Return(c)
           \/ \E v : Become(c, [call[c] EXCEPT !.pc = "check", !.found = v])
    BY <1>4 DEF DialResolves
  <2>2. PolicyMoves(c) /\ call'[c].pc \in {"idle", "check"}
    BY <1>1, <2>1, ReturnMoves, FoundMoves DEF PolicyMoves
  <2>3. QED
    BY <1>2, <2>1, <2>2, PolicyStepKeeps
<1>5. CASE DialDecides(c)
  <2>1. approved' = approved
    BY <1>5 DEF DialDecides
  <2>2. CASE Return(c)
    <3>1. PolicyMoves(c) /\ call'[c].pc = "idle"
      BY <1>1, <2>2, ReturnMoves DEF PolicyMoves
    <3>2. QED
      BY <1>2, <2>1, <3>1, PolicyStepKeeps
  <2>3. CASE /\ MayDial(call[c].dest, call[c].found)
             /\ Become(c, [call[c] EXCEPT !.pc = "connected"])
    <3>1. /\ PolicyMoves(c) /\ call'[c].pc = "connected"
          /\ call'[c].dest = call[c].dest /\ call'[c].found = call[c].found
      BY <1>1, <2>3, StageMoves DEF PolicyMoves
    <3>2. call[c].found # "loop" =>
            /\ call[c].dest.remote
            /\ approved = Identity(call[c].dest, call[c].found)
            /\ approved # NoApproval
      BY <2>3 DEF MayDial, Private, Identity, NoApproval
    <3>3. call[c].found # "loop" => Identity(call[c].dest, call[c].found) \in confirmed
      BY <3>2 DEF ConsentInv, ApprovedInv
    <3>4. QED
      BY <1>2, <2>1, <3>1, <3>2, <3>3, PolicyStepKeeps
  <2>4. QED
    BY <1>5, <2>2, <2>3 DEF DialDecides
<1>6. CASE HangUp(c)
  <2>1. approved' = approved /\ PolicyMoves(c) /\ call'[c].pc = "idle"
    BY <1>1, <1>6, ReturnMoves DEF PolicyMoves, HangUp
  <2>2. QED
    BY <1>2, <2>1, PolicyStepKeeps
<1>7. QED
  BY <1>3, <1>4, <1>5, <1>6

-----------------------------------------------------------------------------
(* The process, the files and the world outside. *)

\* The parts of the invariant that a step leaves alone when it touches neither
\* invocations nor consent nor the published settings.
LEMMA ConsentFrame ==
  ASSUME ConsentInv, Running => Running',
         call' = call, approved' = approved, confirmed' = confirmed,
         settings' = settings
  PROVE  ConsentInv'
BY DEF ConsentInv, CallsInv, StoppedInv, ApprovedInv, AskingInv, At, Identity,
       ApprovalIsConfigured, OnlyConfirmedAddresses

\* A start finds nothing approved, so it may publish whatever it loaded; the end
\* of a process withdraws everything.
LEMMA ProcessStepKeeps ==
  ASSUME ConsentInv, ProcessStep
  PROVE  ConsentInv'
<1>1. CASE /\ StartProcess \/ LoadStep \/ LoadFails
           /\ UNCHANGED <<commandVars, approved, policyVars>>
  <2>1. ~Running
    BY <1>1 DEF StartProcess, LoadStep, LoadMissing, LoadDecodes, LoadFindsDamage,
       RecoverFromBackup, RecoverDefaults, LoadFails, Loading, Running
  <2>2. QED
    BY <1>1, <2>1, ConsentFrame DEF commandVars, policyVars
<1>2. CASE PublishLoaded /\ UNCHANGED policyVars
  <2>1. /\ ~Running
        /\ call' = call /\ approved' = approved /\ confirmed' = confirmed
    BY <1>2 DEF PublishLoaded, LoadCompletes, Running, policyVars
  <2>2. approved = NoApproval /\ \A c \in Commands : At(c, "idle")
    BY <2>1 DEF ConsentInv, StoppedInv
  <2>3. QED
    BY <2>1, <2>2 DEF ConsentInv, CallsInv, StoppedInv, ApprovedInv, AskingInv, At,
       ApprovalIsConfigured, OnlyConfirmedAddresses
<1>3. CASE CallsEnd /\ PolicyEnds
  <2>1. /\ call' = [c \in Commands |-> Idle]
        /\ approved' = NoApproval
    BY <1>3 DEF CallsEnd
  <2>2. CallsInv'
    BY <2>1, IdleIsCall DEF CallsInv
  <2>3. \A c \in Commands : call'[c].pc = "idle"
    BY <2>1, IdleIsCall
  <2>4. QED
    BY <2>1, <2>2, <2>3 DEF ConsentInv, StoppedInv, ApprovedInv, AskingInv, At,
       ApprovalIsConfigured, OnlyConfirmedAddresses
<1>4. QED
  BY <1>1, <1>2, <1>3 DEF ProcessStep

\* Files and names change without a change of what was approved or connected.
LEMMA OutsideStepKeeps ==
  ASSUME ConsentInv, OutsideStep \/ (SaveStep /\ UNCHANGED policyVars)
  PROVE  ConsentInv'
<1>1. load' = load
  BY DEF OutsideStep, Damage, OtherVersion, PutFile, DnsChanges, fileVars,
     SaveStep, FileStep
<1>2. /\ call' = call /\ approved' = approved /\ confirmed' = confirmed
      /\ settings' = settings
  BY DEF OutsideStep, DnsChanges, SaveStep, commandVars, policyVars
<1>3. QED
  BY <1>1, <1>2, ConsentFrame DEF Running

-----------------------------------------------------------------------------
(* The theorems. *)

\* Nothing is approved or asked before the first start.
LEMMA ConsentInit == Init => ConsentInv
<1> SUFFICES ASSUME Init PROVE ConsentInv
  OBVIOUS
<1>1. call = [c \in Commands |-> Idle] /\ approved = NoApproval
  BY DEF Init, CommandsInit
<1>2. CallsInv /\ \A c \in Commands : call[c].pc = "idle"
  BY <1>1, IdleIsCall DEF CallsInv
<1>3. QED
  BY <1>1, <1>2 DEF ConsentInv, StoppedInv, ApprovedInv, AskingInv, At,
     ApprovalIsConfigured, OnlyConfirmedAddresses

\* ConsentInv is inductive.
LEMMA ConsentStep == ConsentInv /\ [Next]_vars => ConsentInv'
<1> SUFFICES ASSUME ConsentInv, [Next]_vars PROVE ConsentInv'
  OBVIOUS
<1>1. CASE ProcessStep
  BY <1>1, ProcessStepKeeps
<1>2. CASE OutsideStep \/ (SaveStep /\ UNCHANGED policyVars)
  BY <1>2, OutsideStepKeeps
<1>3. ASSUME NEW c \in Commands, SettingsStep(c)
      PROVE  ConsentInv'
  BY <1>3, SettingsStepKeeps
<1>4. ASSUME NEW c \in Commands, PolicyStep(c)
      PROVE  ConsentInv'
  BY <1>4, AskingKeeps, InstallingKeeps, DialingKeeps DEF PolicyStep
<1>5. CASE UNCHANGED vars
  BY <1>5, ConsentFrame DEF vars, fileVars, commandVars, policyVars, Running
<1>6. QED
  BY <1>1, <1>2, <1>3, <1>4, <1>5 DEF Next

\* The consent to a destination, in every reachable state (destination.rs).
THEOREM Consent == Spec => []ConsentInv
BY ConsentInit, ConsentStep, PTL DEF Spec

\* An approval in force is one of the destination as it is configured, although
\* the dialog of speech_authorize_endpoint is open while the settings change.
THEOREM ApprovalFollowsSettings == Spec => []ApprovalIsConfigured
<1>1. ConsentInv => ApprovalIsConfigured
  BY DEF ConsentInv
<1>2. QED
  BY <1>1, Consent, PTL

\* connection_addresses lets words go out only to this computer or to addresses
\* the user has confirmed since the start, whatever the resolver answers.
THEOREM WordsGoWhereConfirmed == Spec => []OnlyConfirmedAddresses
<1>1. ConsentInv => OnlyConfirmedAddresses
  BY DEF ConsentInv
<1>2. QED
  BY <1>1, Consent, PTL

-----------------------------------------------------------------------------
(* Files: what is left of an operation, in every stage of the process. *)

\* What is left of a save of a document over a file that may be written over.
Saving(primary, todo, document) ==
  \/ /\ SaveAllowed(primary)
     /\ \/ todo = <<Replace("backup", primary), SyncDirectory,
                    Replace("primary", Current(document)), SyncDirectory>>
        \/ todo = <<SyncDirectory, Replace("primary", Current(document)), SyncDirectory>>
        \/ todo = <<Replace("primary", Current(document)), SyncDirectory>>
  \/ primary = Current(document) /\ todo = <<SyncDirectory>>

\* What is left of putting the backup in the place of a damaged file; an old
\* one is saved again in the form of this version.
Restoring(primary, backup, todo, document) ==
  /\ Decodable(backup) /\ document = Decoded(backup)
  /\ \/ /\ primary = Missing /\ ~NeedsResave(backup)
        /\ todo = <<Replace("primary", backup), SyncDirectory>>
     \/ /\ primary = backup /\ ~NeedsResave(backup)
        /\ todo = <<SyncDirectory>>
     \/ /\ primary = Missing /\ NeedsResave(backup)
        /\ todo = <<Replace("primary", backup), SyncDirectory,
                    Replace("backup", backup), SyncDirectory,
                    Replace("primary", Current(document)), SyncDirectory>>
     \/ /\ primary = backup /\ NeedsResave(backup)
        /\ todo = <<SyncDirectory, Replace("backup", backup), SyncDirectory,
                    Replace("primary", Current(document)), SyncDirectory>>

\* What is left before the defaults are saved when the backup is damaged too.
Discarding(primary, todo, document) ==
  /\ primary = Missing
  /\ todo = <<SetAside("backup"), SyncDirectory,
              Replace("primary", Current(document)), SyncDirectory>>

DirectoryInv ==
  /\ files = [n \in Names |-> files[n]] /\ disk = [n \in Names |-> disk[n]]
  /\ \A n \in Names : files[n] \in disk[n]
  /\ load = [stage |-> load.stage, settings |-> load.settings, notice |-> load.notice]
  /\ load.stage \in {"off", "read", "recover", "finish", "done"}

OperationInv ==
  /\ load.stage \in {"off", "read"} => steps = <<>>
  /\ load.stage = "recover" =>
       \/ files["primary"].kind = "damaged" /\ steps = <<SetAside("primary"), SyncDirectory>>
       \/ files["primary"] = Missing /\ steps = <<SyncDirectory>>
       \/ files["primary"] = Missing /\ steps = <<>> /\ disk["primary"] = {Missing}
  /\ load.stage = "finish" =>
       \/ steps = <<>>
       \/ Saving(files["primary"], steps, load.settings)
       \/ Restoring(files["primary"], files["backup"], steps, load.settings)
       \/ Discarding(files["primary"], steps, load.settings)
  /\ load.stage = "done" =>
       \/ steps = <<>>
       \/ \E c \in Commands :
            At(c, "save") /\ Saving(files["primary"], steps, call[c].candidate)

\* One command saves, the one that holds the transaction.
TransactionInv ==
  /\ transaction \in Commands \cup {NoActor}
  /\ \A c \in Commands : At(c, "save") <=> transaction = c

FilesInv == DirectoryInv /\ OperationInv /\ TransactionInv

-----------------------------------------------------------------------------
(* The promise: what a start finds, and whether it would say so. *)

Uninterrupted == "interrupted" \notin Faults

\* What a start makes of a file that is not damaged, without a look at the backup.
Found(primary) == IF Decodable(primary) THEN Decoded(primary) ELSE DefaultSettings

Undamaged == \A p \in disk["primary"] : p.kind # "damaged"

\* Nothing a start finds is damaged unless that was done from outside; a load
\* that finds no damage restores nothing and keeps what it found.
PromisedInv ==
  promised = {} =>
    /\ Undamaged
    /\ load.stage # "recover"
    /\ load.stage = "finish" =>
         /\ steps = <<>> \/ Saving(files["primary"], steps, load.settings)
         /\ Found(files["primary"]) = load.settings

\* After a change from outside that matters, nothing is written before the next
\* start, and that start tells the user.
BrokenInv ==
  promised # {} =>
    /\ load.stage \in {"off", "read", "done"} =>
         /\ files["primary"].kind \in {"future", "damaged"}
         /\ disk["primary"] = {files["primary"]}
         /\ steps = <<>>
    /\ load.stage = "finish" => Undamaged /\ load.notice

HonestInv == PromisedInv /\ BrokenInv

\* What a command has been asked for, whatever the settings are by now.
IsRequest(request) ==
  \/ \E dest \in Dests : request = DestPatch(dest)
  \/ request.kind = "items" /\ request = ItemsPatch(request.ids)
       /\ request.ids \in Arrangements(ToSet(request.ids))
  \/ \E targets \in Arrangements(Targets) : request = AddItems(targets)
  \/ request.kind = "remove" /\ request = RemoveItem(request.id)
  \/ \E position \in WindowPositions : request = MoveWindow(position)

RequestInv ==
  \A c \in Commands : call[c].pc \in {"build", "wait"} => IsRequest(call[c].request)

\* What a command saves is one change of what is published; when nothing is left
\* to write, every start finds it.
CandidateInv ==
  \A c \in Commands : At(c, "save") =>
    /\ IsChange(settings, call[c].candidate)
    /\ promised = {} /\ steps = <<>> => Loadable = {call[c].candidate}

RegisterInv == RequestInv /\ CandidateInv

-----------------------------------------------------------------------------
(* One step of a file operation. *)

\* The fields of the steps.
LEMMA Steps ==
  /\ SyncDirectory.op = "sync"
  /\ \A n, f : Replace(n, f).op = "replace" /\ Replace(n, f).name = n /\ Replace(n, f).file = f
  /\ \A n : SetAside(n).op = "aside" /\ SetAside(n).name = n
BY DEF SyncDirectory, Replace, SetAside

\* The two entries of the directory.
LEMMA Entries == Names = {"primary", "backup"} /\ "primary" # "backup"
BY DEF Names

\* What a program sees and what power may leave agree after a sync.
Synced == files' = files /\ disk' = [n \in Names |-> {files[n]}]

\* A sync changes nothing that programs see.
LEMMA SyncStep ==
  ASSUME DirectoryInv, FileStep, Head(steps) = SyncDirectory
  PROVE  Synced /\ DirectoryInv' /\ steps' = Tail(steps)
<1>1. Synced /\ steps' = Tail(steps) /\ load' = load
  BY Steps DEF FileStep, Synced
<1> QED
  BY <1>1 DEF DirectoryInv, Synced

\* An entry gets a file, and the other entry stays as it is.
Replaces(n, f) ==
  /\ files'[n] = f /\ disk'[n] = disk[n] \cup {f}
  /\ \A m \in Names \ {n} : files'[m] = files[m] /\ disk'[m] = disk[m]

\* A replacement changes one entry.
LEMMA ReplaceStep ==
  ASSUME DirectoryInv, FileStep, NEW n \in Names, NEW f, Head(steps) = Replace(n, f)
  PROVE  Replaces(n, f) /\ DirectoryInv' /\ steps' = Tail(steps)
<1>0. Head(steps).op = "replace" /\ Head(steps).name = n /\ Head(steps).file = f
  BY Steps
<1>1. /\ files' = [files EXCEPT ![n] = f] /\ disk' = [disk EXCEPT ![n] = @ \cup {f}]
      /\ steps' = Tail(steps) /\ load' = load
  BY <1>0 DEF FileStep, Lasting
<1>2. DirectoryInv /\ files = [m \in Names |-> files[m]] /\ disk = [m \in Names |-> disk[m]]
  BY DEF DirectoryInv
<1>3. Replaces(n, f)
  BY <1>1, <1>2 DEF Replaces
<1>4. files' = [m \in Names |-> files'[m]] /\ disk' = [m \in Names |-> disk'[m]]
  BY <1>1, <1>2
<1>5. \A m \in Names : files'[m] \in disk'[m]
  BY <1>2, <1>3 DEF DirectoryInv, Replaces
<1> QED
  BY <1>1, <1>2, <1>3, <1>4, <1>5 DEF DirectoryInv

\* Moving a file aside puts nothing in its place.
LEMMA AsideStep ==
  ASSUME DirectoryInv, FileStep, NEW n \in Names, Head(steps) = SetAside(n)
  PROVE  Replaces(n, Missing) /\ DirectoryInv' /\ steps' = Tail(steps)
<1>0. Head(steps).op = "aside" /\ Head(steps).name = n
  BY Steps
<1>1. /\ files' = [files EXCEPT ![n] = Missing]
      /\ disk' = [disk EXCEPT ![n] = @ \cup {Missing}]
      /\ steps' = Tail(steps) /\ load' = load
  BY <1>0 DEF FileStep
<1>2. DirectoryInv /\ files = [m \in Names |-> files[m]] /\ disk = [m \in Names |-> disk[m]]
  BY DEF DirectoryInv
<1>3. Replaces(n, Missing)
  BY <1>1, <1>2 DEF Replaces
<1>4. files' = [m \in Names |-> files'[m]] /\ disk' = [m \in Names |-> disk'[m]]
  BY <1>1, <1>2
<1>5. \A m \in Names : files'[m] \in disk'[m]
  BY <1>2, <1>3 DEF DirectoryInv, Replaces
<1> QED
  BY <1>1, <1>2, <1>3, <1>4, <1>5 DEF DirectoryInv

\* A file that this version wrote, that is not there or that is old may be
\* written over; no other may.
LEMMA FileKindsApart ==
  /\ Missing.kind = "missing" /\ SaveAllowed(Missing) /\ ~ReadOnlyFile(Missing)
  /\ \A document : /\ Current(document).kind = "current"
                   /\ Decodable(Current(document)) /\ Decoded(Current(document)) = document
                   /\ SaveAllowed(Current(document)) /\ ~ReadOnlyFile(Current(document))
  /\ \A f : NeedsResave(f) => Decodable(f) /\ SaveAllowed(f) /\ ~ReadOnlyFile(f)
  /\ \A f : SaveAllowed(f) => ~ReadOnlyFile(f) /\ f.kind # "damaged"
  /\ \A f : Decodable(f) => f.kind # "damaged" /\ f.kind # "missing"
BY DEF Missing, Current, File, SaveAllowed, ReadOnlyFile, Decodable, NeedsResave, Decoded

-----------------------------------------------------------------------------
(* What is left of an operation after one step of it. *)

\* A save replaces the backup, then the file, and syncs after each.
LEMMA SavingGoesOn ==
  ASSUME DirectoryInv, NEW document, FileStep,
         Saving(files["primary"], steps, document)
  PROVE  /\ DirectoryInv'
         /\ Saving(files'["primary"], steps', document) \/ steps' = <<>>
         /\ ReadOnlyFile(files["primary"]) => files' = files
         /\ \/ Replaces("backup", files["primary"])
            \/ Replaces("primary", Current(document))
            \/ Synced
         /\ steps' = <<>> => Synced /\ files["primary"] = Current(document)
         /\ files["primary"].kind # "damaged"
<1> DEFINE primary == files["primary"]
           back == Replace("backup", primary)
           put == Replace("primary", Current(document))
<1>1. "primary" \in Names /\ "backup" \in Names \ {"primary"}
  BY Entries
<1>2. CASE SaveAllowed(primary) /\ steps = <<back, SyncDirectory, put, SyncDirectory>>
  <2>1. Head(steps) = back /\ Tail(steps) = <<SyncDirectory, put, SyncDirectory>>
    BY <1>2
  <2>2. Replaces("backup", primary) /\ DirectoryInv' /\ steps' = Tail(steps)
    BY <1>1, <2>1, ReplaceStep
  <2>3. files'["primary"] = primary
    BY <1>1, <2>2 DEF Replaces
  <2>4. ~ReadOnlyFile(primary)
    BY <1>2, FileKindsApart
  <2> QED
    BY <1>2, <2>1, <2>2, <2>3, <2>4, FileKindsApart DEF Saving
<1>3. CASE SaveAllowed(primary) /\ steps = <<SyncDirectory, put, SyncDirectory>>
  <2>1. Head(steps) = SyncDirectory /\ Tail(steps) = <<put, SyncDirectory>>
    BY <1>3
  <2>2. Synced /\ DirectoryInv' /\ steps' = <<put, SyncDirectory>>
    BY <2>1, SyncStep
  <2> QED
    BY <1>3, <2>2, FileKindsApart DEF Saving, Synced
<1>4. CASE SaveAllowed(primary) /\ steps = <<put, SyncDirectory>>
  <2>1. Head(steps) = put /\ Tail(steps) = <<SyncDirectory>>
    BY <1>4
  <2>2. Replaces("primary", Current(document)) /\ DirectoryInv' /\ steps' = <<SyncDirectory>>
    BY <1>1, <2>1, ReplaceStep
  <2>3. files'["primary"] = Current(document)
    BY <2>2 DEF Replaces
  <2>4. ~ReadOnlyFile(primary)
    BY <1>4, FileKindsApart
  <2> QED
    BY <1>4, <2>2, <2>3, <2>4, FileKindsApart DEF Saving
<1>5. CASE primary = Current(document) /\ steps = <<SyncDirectory>>
  <2>1. Head(steps) = SyncDirectory /\ Tail(steps) = <<>>
    BY <1>5
  <2>2. Synced /\ DirectoryInv' /\ steps' = <<>>
    BY <2>1, SyncStep
  <2> QED
    BY <1>5, <2>2, FileKindsApart DEF Synced
<1> QED
  BY <1>2, <1>3, <1>4, <1>5 DEF Saving

\* A backup is put back, and an old one is saved again after that.
LEMMA RestoringGoesOn ==
  ASSUME DirectoryInv, NEW document, FileStep,
         Restoring(files["primary"], files["backup"], steps, document)
  PROVE  /\ DirectoryInv'
         /\ \/ Restoring(files'["primary"], files'["backup"], steps', document)
            \/ Saving(files'["primary"], steps', document)
            \/ steps' = <<>>
         /\ ReadOnlyFile(files["primary"]) => files' = files
         /\ Replaces("primary", files["backup"]) \/ Synced
<1> DEFINE backup == files["backup"]
           restore == Replace("primary", backup)
           back == Replace("backup", backup)
           put == Replace("primary", Current(document))
<1>1. "primary" \in Names /\ "backup" \in Names \ {"primary"}
  BY Entries
<1>2. Decodable(backup) /\ document = Decoded(backup)
  BY DEF Restoring
<1>3. CASE files["primary"] = Missing /\ Head(steps) = restore
  <2>1. Replaces("primary", backup) /\ DirectoryInv' /\ steps' = Tail(steps)
    BY <1>1, <1>3, ReplaceStep
  <2>2. files'["primary"] = backup /\ files'["backup"] = backup
    BY <1>1, <2>1 DEF Replaces
  <2>3. ~ReadOnlyFile(files["primary"])
    BY <1>3, FileKindsApart
  <2>4. CASE ~NeedsResave(backup) /\ steps = <<restore, SyncDirectory>>
    <3>1. steps' = <<SyncDirectory>>
      BY <2>1, <2>4
    <3> QED
      BY <1>2, <2>1, <2>2, <2>3, <2>4, <3>1 DEF Restoring
  <2>5. CASE NeedsResave(backup) /\ steps = <<restore, SyncDirectory, back, SyncDirectory,
                                              put, SyncDirectory>>
    <3>1. steps' = <<SyncDirectory, back, SyncDirectory, put, SyncDirectory>>
      BY <2>1, <2>5
    <3> QED
      BY <1>2, <2>1, <2>2, <2>3, <2>5, <3>1 DEF Restoring
  <2>6. CASE Head(steps) = SyncDirectory
    BY <1>3, <2>6, Steps
  <2> QED
    BY <2>4, <2>5, <2>6 DEF Restoring
<1>4. CASE files["primary"] = backup /\ ~NeedsResave(backup) /\ steps = <<SyncDirectory>>
  <2>1. Head(steps) = SyncDirectory /\ Tail(steps) = <<>>
    BY <1>4
  <2>2. Synced /\ DirectoryInv' /\ steps' = <<>>
    BY <2>1, SyncStep
  <2> QED
    BY <2>2 DEF Synced
<1>5. CASE /\ files["primary"] = backup /\ NeedsResave(backup)
           /\ steps = <<SyncDirectory, back, SyncDirectory, put, SyncDirectory>>
  <2>1. Head(steps) = SyncDirectory /\ Tail(steps) = <<back, SyncDirectory, put, SyncDirectory>>
    BY <1>5
  <2>2. Synced /\ DirectoryInv' /\ steps' = <<back, SyncDirectory, put, SyncDirectory>>
    BY <2>1, SyncStep
  <2>3. SaveAllowed(backup) /\ files'["primary"] = backup
    BY <1>5, <2>2, FileKindsApart DEF Synced
  <2> QED
    BY <2>2, <2>3 DEF Saving, Synced
<1>6. \/ files["primary"] = Missing /\ Head(steps) = restore
      \/ files["primary"] = backup /\ ~NeedsResave(backup) /\ steps = <<SyncDirectory>>
      \/ /\ files["primary"] = backup /\ NeedsResave(backup)
         /\ steps = <<SyncDirectory, back, SyncDirectory, put, SyncDirectory>>
  <2> HIDE DEF restore, back, put
  <2> QED
    BY DEF Restoring, restore, back, put
<1> QED
  BY <1>3, <1>4, <1>5, <1>6

\* A damaged backup is moved aside, then the defaults are saved.
LEMMA DiscardingGoesOn ==
  ASSUME DirectoryInv, NEW document, FileStep, Discarding(files["primary"], steps, document)
  PROVE  /\ DirectoryInv'
         /\ Saving(files'["primary"], steps', document)
         /\ ~ReadOnlyFile(files["primary"])
         /\ Replaces("backup", Missing)
<1> DEFINE put == Replace("primary", Current(document))
<1>1. "primary" \in Names \ {"backup"} /\ "backup" \in Names
  BY Entries
<1>2. steps = <<SetAside("backup"), SyncDirectory, put, SyncDirectory>>
  BY DEF Discarding
<1>3. Head(steps) = SetAside("backup") /\ Tail(steps) = <<SyncDirectory, put, SyncDirectory>>
  BY <1>2
<1>4. Replaces("backup", Missing) /\ DirectoryInv' /\ steps' = <<SyncDirectory, put, SyncDirectory>>
  BY <1>1, <1>3, AsideStep
<1>5. files'["primary"] = Missing /\ files["primary"] = Missing
  BY <1>1, <1>4 DEF Replaces, Discarding
<1> QED
  BY <1>4, <1>5, FileKindsApart DEF Saving

-----------------------------------------------------------------------------
(* The steps of the whole, by what they do to files, settings and saves. *)

Still == UNCHANGED <<fileVars, settings, transaction>>

\* One invocation goes on that neither saves nor begins to.
Quiet(c) ==
  /\ Still
  /\ call[c].pc # "save" /\ call'[c].pc # "save"
  /\ \A d \in Commands \ {c} : call'[d] = call[d]
  /\ call'[c].pc \in {"build", "wait"} =>
       \/ IsRequest(call'[c].request)
       \/ call[c].pc \in {"build", "wait"} /\ call'[c].request = call[c].request

\* A command begins to save what it made of the settings.
Takes(c) ==
  /\ transaction = NoActor /\ transaction' = c
  /\ call[c].pc = "wait" /\ call'[c].pc = "save"
  /\ \A d \in Commands \ {c} : call'[d] = call[d]
  /\ SaveAllowed(files["primary"])
  /\ LET candidate == Candidate(settings, call[c].request)
     IN  /\ candidate.ok /\ call'[c].candidate = candidate.settings
         /\ steps' = SaveSteps(files["primary"], candidate.settings)
  /\ UNCHANGED <<settings, files, disk, load, promised>>

\* It ends, with or without a publication.
Ends(c) ==
  /\ call[c].pc = "save" /\ call'[c].pc = "idle" /\ transaction' = NoActor
  /\ \A d \in Commands \ {c} : call'[d] = call[d]
  /\ steps' = <<>>
  /\ \/ settings' = settings
     \/ steps = <<>> /\ settings' = call[c].candidate
  /\ UNCHANGED <<files, disk, load, promised>>

OutsideFiles == (Damage \/ OtherVersion) /\ UNCHANGED <<settings, transaction, call>>

\* An invocation that begins asks for something and touches nothing.
LEMMA BeginIsQuiet ==
  ASSUME CallsInv, NEW c \in Commands, NEW cmd, NEW pc \in {"wait", "build"},
         NEW request, IsRequest(request), BeginRequest(c, cmd, pc, request)
  PROVE  Quiet(c)
<1>1. /\ call[c].pc = "idle" /\ Still
      /\ Become(c, [Idle EXCEPT !.pc = pc, !.request = request])
  BY DEF BeginRequest, Begin, At, Still
<1>2. /\ call'[c].pc = pc /\ call'[c].request = request
      /\ \A d \in Commands \ {c} : call'[d] = call[d]
  BY <1>1, RequestMoves
<1> QED
  BY <1>1, <1>2 DEF Quiet

\* The lists without repetition of a set are lists of the things they name.
LEMMA ArrangementsNamed ==
  ASSUME NEW S, NEW list \in Arrangements(S)
  PROVE  /\ ToSet(list) \subseteq S
         /\ \A T : ToSet(list) \subseteq T => list \in Arrangements(T)
<1>1. PICK n \in 0 .. MaxItems : list \in [1 .. n -> S]
  BY DEF Arrangements, SeqOf
<1>2. ToSet(list) = {list[i] : i \in 1 .. n}
  BY <1>1 DEF ToSet
<1>3. ASSUME NEW T, ToSet(list) \subseteq T
      PROVE  list \in Arrangements(T)
  <2>1. list \in [1 .. n -> T]
    BY <1>1, <1>2, <1>3
  <2> QED
    BY <2>1 DEF Arrangements, SeqOf
<1> QED
  BY <1>1, <1>2, <1>3

\* What the steps of the commands are in these terms.
LEMMA SettingsStepKinds ==
  ASSUME CallsInv, NEW c \in Commands, SettingsStep(c)
  PROVE  Quiet(c) \/ Takes(c) \/ Ends(c)
<1>1. CASE BeginUpdate(c)
  <2>1. ASSUME NEW dest \in Dests, BeginRequest(c, "update", "wait", DestPatch(dest))
        PROVE  Quiet(c)
    <3>1. IsRequest(DestPatch(dest))
      BY DEF IsRequest
    <3> QED
      BY <2>1, <3>1, BeginIsQuiet
  <2>2. ASSUME NEW ids \in Arrangements(ItemIds(settings.items)),
               BeginRequest(c, "edit", "wait", ItemsPatch(ids))
        PROVE  Quiet(c)
    <3>1. ids \in Arrangements(ToSet(ids))
      BY ArrangementsNamed
    <3>2. IsRequest(ItemsPatch(ids))
      BY <3>1 DEF IsRequest, ItemsPatch
    <3> QED
      BY <2>2, <3>2, BeginIsQuiet
  <2> QED
    BY <1>1, <2>1, <2>2 DEF BeginUpdate
<1>2. CASE BeginRemove(c)
  <2>1. PICK id : BeginRequest(c, "remove", "wait", RemoveItem(id))
    BY <1>2 DEF BeginRemove
  <2>2. IsRequest(RemoveItem(id))
    BY DEF IsRequest, RemoveItem
  <2> QED
    BY <2>1, <2>2, BeginIsQuiet
<1>3. CASE BeginWindow(c)
  <2>1. PICK position \in WindowPositions :
               BeginRequest(c, "window", "wait", MoveWindow(position))
    BY <1>3 DEF BeginWindow
  <2>2. IsRequest(MoveWindow(position))
    BY DEF IsRequest
  <2> QED
    BY <2>1, <2>2, BeginIsQuiet
<1>4. CASE BeginAdd(c)
  <2>1. PICK fresh \in Arrangements(Targets \ ItemTargets(settings.items)) :
               BeginRequest(c, "add", "build", AddItems(fresh))
    BY <1>4 DEF BeginAdd
  <2>2. ToSet(fresh) \subseteq Targets
    BY ArrangementsNamed
  <2>3. fresh \in Arrangements(Targets)
    BY <2>2, ArrangementsNamed
  <2>4. IsRequest(AddItems(fresh))
    BY <2>3 DEF IsRequest
  <2> QED
    BY <2>1, <2>4, BeginIsQuiet
<1>5. CASE BuildEnds(c)
  <2>1. call[c].pc = "build" /\ Still
    BY <1>5 DEF BuildEnds, At, Still
  <2>2. CASE Become(c, [call[c] EXCEPT !.pc = "wait"])
    BY <2>1, <2>2, StageMoves DEF Quiet
  <2>3. CASE Return(c)
    BY <2>1, <2>3, ReturnMoves DEF Quiet
  <2> QED
    BY <1>5, <2>2, <2>3 DEF BuildEnds
<1>6. CASE TakeTransaction(c)
  <2> DEFINE candidate == Candidate(settings, call[c].request)
  <2>1. /\ call[c].pc = "wait" /\ transaction = NoActor
        /\ UNCHANGED <<settings, files, disk, load, promised>>
    BY <1>6 DEF TakeTransaction, At
  <2>2. CASE candidate.ok /\ SaveAllowed(files["primary"])
    <3>1. /\ transaction' = c /\ steps' = SaveSteps(files["primary"], candidate.settings)
          /\ Become(c, [call[c] EXCEPT !.pc = "save", !.candidate = candidate.settings])
      BY <1>6, <2>2 DEF TakeTransaction
    <3>2. /\ call'[c].pc = "save" /\ call'[c].candidate = candidate.settings
          /\ \A d \in Commands \ {c} : call'[d] = call[d]
      <4> HIDE DEF candidate
      <4> QED
        BY <3>1, CandidateMoves
    <3> QED
      BY <2>1, <2>2, <3>1, <3>2 DEF Takes
  <2>3. CASE ~ (candidate.ok /\ SaveAllowed(files["primary"]))
    <3>1. Return(c) /\ UNCHANGED <<transaction, steps>>
      BY <1>6, <2>3 DEF TakeTransaction
    <3> QED
      BY <2>1, <3>1, ReturnMoves DEF Quiet, Still, fileVars
  <2> QED
    BY <2>2, <2>3
<1>7. CASE SaveFails(c)
  <2>1. /\ call[c].pc = "save" /\ transaction' = NoActor /\ steps' = <<>> /\ Return(c)
        /\ UNCHANGED <<settings, files, disk, load, promised>>
    BY <1>7 DEF SaveFails, FileStepFails, At
  <2> QED
    BY <2>1, ReturnMoves DEF Ends
<1>8. CASE PublishSettings(c)
  <2>1. /\ call[c].pc = "save" /\ transaction' = NoActor /\ steps = <<>> /\ steps' = <<>>
        /\ settings' = call[c].candidate /\ Return(c)
        /\ UNCHANGED <<files, disk, load, promised>>
    BY <1>8 DEF PublishSettings, At, fileVars
  <2> QED
    BY <2>1, ReturnMoves DEF Ends
<1> QED
  BY <1>1, <1>2, <1>3, <1>4, <1>5, <1>6, <1>7, <1>8 DEF SettingsStep

\* Consent and connections have nothing to do with files.
LEMMA PolicyStepKinds ==
  ASSUME CallsInv, NEW c \in Commands, PolicyStep(c)
  PROVE  Quiet(c)
<1>1. /\ Still
      /\ call[c].pc \in {"idle", "resolve", "ask", "again", "install", "dial", "check", "connected"}
  BY DEF PolicyStep, BeginAuthorize, AuthorizeAsks, UserAnswers, AuthorizeResolvesAgain,
     InstallApproval, BeginDial, DialResolves, DialDecides, HangUp, Begin, At, Still,
     policyVars
<1>2. CASE Return(c)
  BY <1>1, <1>2, ReturnMoves DEF Quiet
<1>3. CASE BeginAuthorize(c)
  <2>1. Become(c, [Idle EXCEPT !.pc = "resolve", !.dest = settings.dest])
    BY <1>3 DEF BeginAuthorize, Begin
  <2> QED
    BY <1>1, <2>1, DestMoves DEF Quiet
<1>4. CASE AuthorizeAsks(c) /\ ~Return(c)
  <2>1. PICK v : Become(c, [call[c] EXCEPT !.pc = "ask", !.found = v])
    BY <1>4 DEF AuthorizeAsks, Refused
  <2>2. call'[c].pc = "ask" /\ \A d \in Commands \ {c} : call'[d] = call[d]
    BY <2>1, FoundMoves
  <2> QED
    BY <1>1, <2>2 DEF Quiet
<1>5. CASE UserAnswers(c) /\ ~Return(c)
  <2>1. Become(c, [call[c] EXCEPT !.pc = "again"])
    BY <1>5 DEF UserAnswers, Refused
  <2> QED
    BY <1>1, <2>1, StageMoves DEF Quiet
<1>6. CASE AuthorizeResolvesAgain(c) /\ ~Return(c)
  <2>1. Become(c, [call[c] EXCEPT !.pc = "install"])
    BY <1>6 DEF AuthorizeResolvesAgain, Refused
  <2> QED
    BY <1>1, <2>1, StageMoves DEF Quiet
<1>7. CASE BeginDial(c)
  <2>1. Become(c, [Idle EXCEPT !.pc = "dial", !.dest = settings.dest])
    BY <1>7 DEF BeginDial, Begin
  <2> QED
    BY <1>1, <2>1, DestMoves DEF Quiet
<1>8. CASE DialResolves(c) /\ ~Return(c)
  <2>1. PICK v : Become(c, [call[c] EXCEPT !.pc = "check", !.found = v])
    BY <1>8 DEF DialResolves
  <2>2. call'[c].pc = "check" /\ \A d \in Commands \ {c} : call'[d] = call[d]
    BY <2>1, FoundMoves
  <2> QED
    BY <1>1, <2>2 DEF Quiet
<1>9. CASE DialDecides(c) /\ ~Return(c)
  <2>1. Become(c, [call[c] EXCEPT !.pc = "connected"])
    BY <1>9 DEF DialDecides
  <2> QED
    BY <1>1, <2>1, StageMoves DEF Quiet
<1> QED
  BY <1>2, <1>3, <1>4, <1>5, <1>6, <1>7, <1>8, <1>9 DEF PolicyStep, InstallApproval, HangUp

\* Every step of the whole is one of a few kinds.
LEMMA StepKinds ==
  ASSUME CallsInv, [Next]_vars
  PROVE  \/ ProcessStep
         \/ OutsideFiles
         \/ Running /\ FileStep /\ UNCHANGED <<settings, transaction, call>>
         \/ \E c \in Commands : Quiet(c) \/ Takes(c) \/ Ends(c)
         \/ Still /\ call' = call
<1>1. CASE OutsideStep
  BY <1>1 DEF OutsideStep, OutsideFiles, commandVars, DnsChanges, Still
<1>2. CASE SaveStep
  BY <1>2 DEF SaveStep, commandVars
<1>3. CASE UNCHANGED vars
  BY <1>3 DEF vars, commandVars, Still
<1> QED
  BY <1>1, <1>2, <1>3, SettingsStepKinds, PolicyStepKinds DEF Next

-----------------------------------------------------------------------------
(* The files and what is being done to them, in every reachable state. *)

\* The joined lists of steps, written out.
LEMMA TwoAndTwo ==
  ASSUME NEW a, NEW b, NEW c, NEW d
  PROVE  <<a, b>> \o <<c, d>> = <<a, b, c, d>>
<1> DEFINE S == {a, b, c, d}
           joined == <<a, b>> \o <<c, d>>
           all == <<a, b, c, d>>
<1>1. all \in Seq(S) /\ Len(all) = 4
  OBVIOUS
<1>2. joined \in Seq(S) /\ Len(joined) = 4
  OBVIOUS
<1>3. \A i \in 1 .. 4 : joined[i] = all[i]
  <2>1. joined[1] = a /\ joined[2] = b /\ joined[3] = c /\ joined[4] = d
    OBVIOUS
  <2> QED
    BY <2>1
<1> QED
  BY <1>1, <1>2, <1>3, SeqEqual

\* The same for an old backup that is put back.
LEMMA TwoAndFour ==
  ASSUME NEW a, NEW b, NEW c, NEW d, NEW e, NEW f
  PROVE  <<a, b>> \o <<c, d, e, f>> = <<a, b, c, d, e, f>>
<1> DEFINE S == {a, b, c, d, e, f}
           joined == <<a, b>> \o <<c, d, e, f>>
           all == <<a, b, c, d, e, f>>
<1>1. all \in Seq(S) /\ Len(all) = 6
  OBVIOUS
<1>2. joined \in Seq(S) /\ Len(joined) = 6
  OBVIOUS
<1>3. \A i \in 1 .. 6 : joined[i] = all[i]
  <2>1. /\ joined[1] = a /\ joined[2] = b /\ joined[3] = c /\ joined[4] = d
        /\ joined[5] = e /\ joined[6] = f
    OBVIOUS
  <2> QED
    BY <2>1
<1> QED
  BY <1>1, <1>2, <1>3, SeqEqual

\* SaveSteps written out, and where a save begins.
LEMMA SaveStepsAre ==
  ASSUME NEW primary, NEW document
  PROVE  /\ primary.kind = "missing" =>
              SaveSteps(primary, document) =
                <<Replace("primary", Current(document)), SyncDirectory>>
         /\ primary.kind # "missing" =>
              SaveSteps(primary, document) =
                <<Replace("backup", primary), SyncDirectory,
                  Replace("primary", Current(document)), SyncDirectory>>
         /\ SaveAllowed(primary) => Saving(primary, SaveSteps(primary, document), document)
<1> DEFINE back == Replace("backup", primary)
           put == Replace("primary", Current(document))
<1>1. ASSUME primary.kind = "missing"
      PROVE  SaveSteps(primary, document) = <<put, SyncDirectory>>
  <2>1. SaveSteps(primary, document) = <<>> \o <<put, SyncDirectory>>
    BY <1>1 DEF SaveSteps
  <2> HIDE DEF put
  <2> QED
    BY <2>1
<1>2. ASSUME primary.kind # "missing"
      PROVE  SaveSteps(primary, document) = <<back, SyncDirectory, put, SyncDirectory>>
  <2>1. SaveSteps(primary, document) = <<back, SyncDirectory>> \o <<put, SyncDirectory>>
    BY <1>2 DEF SaveSteps
  <2> QED
    BY <2>1, TwoAndTwo
<1> QED
  BY <1>1, <1>2 DEF Saving

\* A start that finds no damage keeps what it found, and saves it again when it
\* was not there or is old; it tells about a document of a later version.
LEMMA LoadFinds ==
  ASSUME LoadMissing \/ LoadDecodes
  PROVE  \E notice, todo :
           /\ Finish(Found(files["primary"]), notice, todo)
           /\ todo = <<>> \/ Saving(files["primary"], todo, Found(files["primary"]))
           /\ files["primary"].kind \notin {"future", "damaged"} \/ notice
           /\ load.stage = "read" /\ files["primary"].kind # "damaged"
<1> DEFINE primary == files["primary"]
<1>1. CASE LoadMissing
  <2>1. primary.kind = "missing" /\ SaveAllowed(primary) /\ Found(primary) = DefaultSettings
    BY <1>1 DEF LoadMissing, SaveAllowed, Found, Decodable
  <2>2. SaveSteps(Missing, DefaultSettings) = SaveSteps(primary, DefaultSettings)
    BY <2>1, SaveStepsAre, FileKindsApart
  <2>3. Saving(primary, SaveSteps(Missing, DefaultSettings), DefaultSettings)
    BY <2>1, <2>2, SaveStepsAre
  <2>4. /\ load.stage = "read"
        /\ Finish(DefaultSettings, FALSE, SaveSteps(Missing, DefaultSettings))
    BY <1>1 DEF LoadMissing
  <2> QED
    BY <2>1, <2>3, <2>4
<1>2. CASE LoadDecodes
  <2>1. /\ load.stage = "read" /\ Decodable(primary) /\ Found(primary) = Decoded(primary)
        /\ primary.kind # "damaged"
    BY <1>2, FileKindsApart DEF LoadDecodes, Found
  <2>2. CASE NeedsResave(primary)
    <3>1. Saving(primary, SaveSteps(primary, Decoded(primary)), Decoded(primary))
      BY <2>2, SaveStepsAre, FileKindsApart
    <3>2. Finish(Decoded(primary), primary.kind = "future",
                 SaveSteps(primary, Decoded(primary)))
      BY <1>2, <2>2 DEF LoadDecodes
    <3> QED
      BY <2>1, <3>1, <3>2
  <2>3. CASE ~NeedsResave(primary)
    <3>1. Finish(Decoded(primary), primary.kind = "future", <<>>)
      BY <1>2, <2>3 DEF LoadDecodes
    <3> QED
      BY <2>1, <3>1
  <2> QED
    BY <2>2, <2>3
<1> QED
  BY <1>1, <1>2

\* The steps of the load but the file operations it begins.
LEMMA LoadBegins ==
  ASSUME FilesInv,
         LoadMissing \/ LoadDecodes \/ LoadFindsDamage \/ RecoverFromBackup \/ RecoverDefaults
  PROVE  DirectoryInv' /\ OperationInv' /\ UNCHANGED <<files, disk, promised>>
<1>1. UNCHANGED <<files, disk, promised>>
  BY DEF LoadMissing, LoadDecodes, LoadFindsDamage, RecoverFromBackup, RecoverDefaults, Finish
<1>2. DirectoryInv /\ OperationInv
  BY DEF FilesInv
<1> SUFFICES DirectoryInv' /\ OperationInv'
  BY <1>1
<1>3. ASSUME NEW document, NEW notice, NEW todo, Finish(document, notice, todo),
             \/ todo = <<>> \/ Saving(files["primary"], todo, document)
             \/ Restoring(files["primary"], files["backup"], todo, document)
             \/ Discarding(files["primary"], todo, document)
      PROVE  DirectoryInv' /\ OperationInv'
  <2>1. /\ load' = [stage |-> "finish", settings |-> document, notice |-> notice]
        /\ steps' = todo
    BY <1>3 DEF Finish
  <2>2. load'.stage = "finish" /\ load'.settings = document
    BY <2>1
  <2> QED
    BY <1>1, <1>2, <1>3, <2>1, <2>2 DEF DirectoryInv, OperationInv
<1>4. CASE LoadMissing \/ LoadDecodes
  BY <1>3, <1>4, LoadFinds
<1>6. CASE LoadFindsDamage
  <2>1. /\ load.stage = "read" /\ files["primary"].kind = "damaged"
        /\ load' = [load EXCEPT !.stage = "recover"]
        /\ steps' = <<SetAside("primary"), SyncDirectory>>
    BY <1>6 DEF LoadFindsDamage
  <2>2. load = [stage |-> load.stage, settings |-> load.settings, notice |-> load.notice]
    BY <1>2 DEF DirectoryInv
  <2>3. /\ load'.stage = "recover"
        /\ load' = [stage |-> load'.stage, settings |-> load'.settings, notice |-> load'.notice]
    BY <2>1, <2>2
  <2> QED
    BY <1>1, <1>2, <2>1, <2>3 DEF DirectoryInv, OperationInv
<1>7. CASE RecoverFromBackup
  <2> DEFINE backup == files["backup"]
             restore == Replace("primary", backup)
  <2>1. files["primary"] = Missing /\ Decodable(backup)
    BY <1>2, <1>7, Steps DEF RecoverFromBackup, OperationInv
  <2>2. CASE NeedsResave(backup)
    <3>1. Finish(Decoded(backup), TRUE,
                 <<restore, SyncDirectory>> \o SaveSteps(backup, Decoded(backup)))
      BY <1>7, <2>2 DEF RecoverFromBackup
    <3> DEFINE back == Replace("backup", backup)
               put == Replace("primary", Current(Decoded(backup)))
    <3>2. backup.kind # "missing"
      BY <2>1, FileKindsApart
    <3>3. SaveSteps(backup, Decoded(backup)) = <<back, SyncDirectory, put, SyncDirectory>>
      BY <3>2, SaveStepsAre
    <3>4. <<restore, SyncDirectory>> \o SaveSteps(backup, Decoded(backup))
            = <<restore, SyncDirectory, back, SyncDirectory, put, SyncDirectory>>
      BY <3>3, TwoAndFour
    <3>5. Restoring(files["primary"], backup,
                    <<restore, SyncDirectory>> \o SaveSteps(backup, Decoded(backup)),
                    Decoded(backup))
      BY <2>1, <2>2, <3>4 DEF Restoring
    <3> QED
      BY <1>3, <3>1, <3>5
  <2>3. CASE ~NeedsResave(backup)
    <3>1. Finish(Decoded(backup), TRUE, <<restore, SyncDirectory>> \o <<>>)
      BY <1>7, <2>3 DEF RecoverFromBackup
    <3>2. <<restore, SyncDirectory>> \o <<>> = <<restore, SyncDirectory>>
      <4> HIDE DEF restore
      <4> QED
        OBVIOUS
    <3>3. Restoring(files["primary"], backup, <<restore, SyncDirectory>>, Decoded(backup))
      BY <2>1, <2>3 DEF Restoring
    <3> QED
      BY <1>3, <3>1, <3>2, <3>3
  <2> QED
    BY <2>2, <2>3
<1>8. CASE RecoverDefaults
  <2> DEFINE backup == files["backup"]
             put == Replace("primary", Current(DefaultSettings))
  <2>1. files["primary"] = Missing
    BY <1>2, <1>8, Steps DEF RecoverDefaults, OperationInv
  <2>2. SaveSteps(Missing, DefaultSettings) = <<put, SyncDirectory>>
    BY SaveStepsAre, FileKindsApart
  <2>3. CASE backup.kind = "damaged"
    <3>1. Finish(DefaultSettings, TRUE,
                 <<SetAside("backup"), SyncDirectory>> \o SaveSteps(Missing, DefaultSettings))
      BY <1>8, <2>3 DEF RecoverDefaults
    <3>2. <<SetAside("backup"), SyncDirectory>> \o SaveSteps(Missing, DefaultSettings)
            = <<SetAside("backup"), SyncDirectory, put, SyncDirectory>>
      BY <2>2, TwoAndTwo
    <3> QED
      BY <1>3, <2>1, <3>1, <3>2 DEF Discarding
  <2>4. CASE backup.kind # "damaged"
    <3>1. Finish(DefaultSettings, TRUE, <<>> \o SaveSteps(Missing, DefaultSettings))
      BY <1>8, <2>4 DEF RecoverDefaults
    <3>2. <<>> \o SaveSteps(Missing, DefaultSettings) = SaveSteps(Missing, DefaultSettings)
      <4> HIDE DEF put
      <4> QED
        BY <2>2
    <3>3. Saving(files["primary"], SaveSteps(Missing, DefaultSettings), DefaultSettings)
      BY <2>1, SaveStepsAre, FileKindsApart
    <3> QED
      BY <1>3, <3>1, <3>2, <3>3
  <2> QED
    BY <2>3, <2>4
<1> QED
  BY <1>4, <1>6, <1>7, <1>8

\* The steps on the disk during a load.
LEMMA LoadWrites ==
  ASSUME FilesInv, Loading, FileStep
  PROVE  /\ DirectoryInv' /\ OperationInv'
         /\ load' = load /\ promised' = promised
         /\ ReadOnlyFile(files["primary"]) => files' = files
<1>1. DirectoryInv /\ OperationInv
  BY DEF FilesInv
<1>2. load' = load /\ promised' = promised /\ steps # <<>>
  BY DEF FileStep
<1>3. CASE load.stage = "recover"
  <2>1. CASE /\ files["primary"].kind = "damaged"
             /\ steps = <<SetAside("primary"), SyncDirectory>>
    <3>1. Head(steps) = SetAside("primary") /\ Tail(steps) = <<SyncDirectory>>
      BY <2>1
    <3>2. Replaces("primary", Missing) /\ DirectoryInv' /\ steps' = <<SyncDirectory>>
      BY <1>1, <3>1, AsideStep, Entries
    <3>3. files'["primary"] = Missing
      BY <3>2 DEF Replaces
    <3>4. ~ReadOnlyFile(files["primary"])
      BY <2>1 DEF ReadOnlyFile
    <3> QED
      BY <1>2, <1>3, <3>2, <3>3, <3>4 DEF OperationInv
  <2>2. CASE files["primary"] = Missing /\ steps = <<SyncDirectory>>
    <3>1. Head(steps) = SyncDirectory /\ Tail(steps) = <<>>
      BY <2>2
    <3>2. Synced /\ DirectoryInv' /\ steps' = <<>>
      BY <1>1, <3>1, SyncStep
    <3>3. files' = files /\ disk'["primary"] = {Missing}
      BY <2>2, <3>2, Entries DEF Synced
    <3> QED
      BY <1>2, <1>3, <2>2, <3>2, <3>3 DEF OperationInv
  <2> QED
    BY <1>1, <1>2, <1>3, <2>1, <2>2 DEF OperationInv
<1>4. CASE load.stage = "finish"
  <2> DEFINE primary == files["primary"]
             document == load.settings
  <2>1. CASE Saving(primary, steps, document)
    <3>1. /\ DirectoryInv'
          /\ Saving(files'["primary"], steps', document) \/ steps' = <<>>
          /\ ReadOnlyFile(primary) => files' = files
      BY <1>1, <2>1, SavingGoesOn
    <3> QED
      BY <1>2, <1>4, <3>1 DEF OperationInv
  <2>2. CASE Restoring(primary, files["backup"], steps, document)
    <3>1. /\ DirectoryInv'
          /\ \/ Restoring(files'["primary"], files'["backup"], steps', document)
             \/ Saving(files'["primary"], steps', document)
             \/ steps' = <<>>
          /\ ReadOnlyFile(primary) => files' = files
      BY <1>1, <2>2, RestoringGoesOn
    <3> QED
      BY <1>2, <1>4, <3>1 DEF OperationInv
  <2>3. CASE Discarding(primary, steps, document)
    <3>1. /\ DirectoryInv' /\ Saving(files'["primary"], steps', document)
          /\ ~ReadOnlyFile(primary)
      BY <1>1, <2>3, DiscardingGoesOn
    <3> QED
      BY <1>2, <1>4, <3>1 DEF OperationInv
  <2> QED
    BY <1>1, <1>2, <1>4, <2>1, <2>2, <2>3 DEF OperationInv
<1>5. load.stage # "read"
  BY <1>1, <1>2 DEF OperationInv
<1> QED
  BY <1>2, <1>3, <1>4, <1>5 DEF Loading

\* The steps on the disk for a command.
LEMMA SaveWrites ==
  ASSUME FilesInv, Running, FileStep, call' = call
  PROVE  /\ DirectoryInv' /\ OperationInv'
         /\ load' = load /\ promised' = promised
         /\ ReadOnlyFile(files["primary"]) => files' = files
<1>1. DirectoryInv /\ OperationInv
  BY DEF FilesInv
<1>2. load' = load /\ promised' = promised /\ steps # <<>> /\ load.stage = "done"
  BY DEF FileStep, Running
<1>3. PICK c \in Commands : At(c, "save") /\ Saving(files["primary"], steps, call[c].candidate)
  BY <1>1, <1>2 DEF OperationInv
<1>4. /\ DirectoryInv'
      /\ Saving(files'["primary"], steps', call[c].candidate) \/ steps' = <<>>
      /\ ReadOnlyFile(files["primary"]) => files' = files
  BY <1>1, <1>3, SavingGoesOn
<1>5. At(c, "save")'
  BY <1>3 DEF At
<1> QED
  BY <1>2, <1>4, <1>5 DEF OperationInv

\* Files that change from outside change between operations.
LEMMA OutsidePuts ==
  ASSUME DirectoryInv, Damage \/ OtherVersion
  PROVE  /\ steps = <<>> /\ ~Loading /\ UNCHANGED <<steps, load>> /\ DirectoryInv'
         /\ \E f : \E n \in Names :
              /\ files'[n] = f /\ disk'[n] = {f}
              /\ \A m \in Names \ {n} : files'[m] = files[m] /\ disk'[m] = disk[m]
              /\ \/ f = Damaged
                 \/ /\ n = "primary" /\ files["primary"].kind = "current"
                    /\ \E kind \in {"old", "extra", "future"} :
                         f = File(kind, files["primary"].settings)
         /\ promised' = IF promised = {}
                           /\ (files'["primary"] = Damaged \/ ~(Loadable' \subseteq Loadable))
                        THEN Loadable ELSE promised
<1>1. PICK n, f :
        /\ n \in Names
        /\ PutFile(n, f)
        /\ \/ f = Damaged
           \/ /\ n = "primary" /\ files["primary"].kind = "current"
              /\ \E kind \in {"old", "extra", "future"} :
                   f = File(kind, files["primary"].settings)
  BY Entries DEF Damage, OtherVersion
<1>2. /\ files' = [files EXCEPT ![n] = f] /\ disk' = [disk EXCEPT ![n] = {f}]
      /\ steps = <<>> /\ ~Loading /\ UNCHANGED <<steps, load>>
      /\ promised' = IF promised = {}
                        /\ (files'["primary"] = Damaged \/ ~(Loadable' \subseteq Loadable))
                     THEN Loadable ELSE promised
  BY <1>1 DEF PutFile
<1>3. files = [m \in Names |-> files[m]] /\ disk = [m \in Names |-> disk[m]]
  BY DEF DirectoryInv
<1>4. /\ files'[n] = f /\ disk'[n] = {f}
      /\ \A m \in Names \ {n} : files'[m] = files[m] /\ disk'[m] = disk[m]
  BY <1>1, <1>2, <1>3
<1>5. files' = [m \in Names |-> files'[m]] /\ disk' = [m \in Names |-> disk'[m]]
  BY <1>2, <1>3
<1>6. \A m \in Names : files'[m] \in disk'[m]
  BY <1>4 DEF DirectoryInv
<1>7. DirectoryInv'
  BY <1>2, <1>5, <1>6 DEF DirectoryInv
<1> QED
  BY <1>1, <1>2, <1>4, <1>7

\* Where the end of the process leaves the files.
LEMMA StopLeaves ==
  ASSUME DirectoryInv, ProcessStops \/ PowerLoss
  PROVE  /\ DirectoryInv' /\ load'.stage = "off" /\ steps' = <<>> /\ promised' = promised
         /\ load.stage # "off" /\ (Loading /\ promised # {} => "interrupted" \in Faults)
         /\ \A n \in Names : files'[n] \in disk[n] /\ disk'[n] \subseteq disk[n]
         /\ ProcessStops => UNCHANGED <<files, disk>>
<1>1. /\ load' = [stage |-> "off", settings |-> DefaultSettings, notice |-> FALSE]
      /\ steps' = <<>> /\ promised' = promised
      /\ load.stage # "off" /\ (Loading /\ promised # {} => "interrupted" \in Faults)
  BY DEF ProcessStops, PowerLoss, Off, MayStop
<1>2. CASE ProcessStops
  <2>1. UNCHANGED <<files, disk>>
    BY <1>2 DEF ProcessStops
  <2> QED
    BY <1>1, <2>1 DEF DirectoryInv
<1>3. CASE PowerLoss
  <2>1. PICK p \in disk["primary"], b \in disk["backup"] :
           /\ files' = [n \in Names |-> IF n = "primary" THEN p ELSE b]
           /\ disk' = [n \in Names |-> {files'[n]}]
    BY <1>3 DEF PowerLoss
  <2>2. \A n \in Names : files'[n] \in disk[n] /\ disk'[n] = {files'[n]}
    BY <2>1, Entries
  <2>3. files' = [n \in Names |-> files'[n]] /\ disk' = [n \in Names |-> disk'[n]]
    BY <2>1
  <2>4. load' = [stage |-> load'.stage, settings |-> load'.settings, notice |-> load'.notice]
        /\ load'.stage = "off"
    BY <1>1
  <2>5. DirectoryInv'
    BY <2>2, <2>3, <2>4 DEF DirectoryInv
  <2>6. ProcessStops => UNCHANGED <<files, disk>>
    BY DEF ProcessStops
  <2> QED
    BY <1>1, <2>2, <2>4, <2>5, <2>6
<1> QED
  BY <1>2, <1>3

\* Before the first start nothing is under way.
LEMMA FilesStart == Init => FilesInv
<1> SUFFICES ASSUME Init PROVE FilesInv
  OBVIOUS
<1>1. PICK document \in Installed : FilesInit(document) /\ CommandsInit(document)
  BY DEF Init
<1>2. /\ files = [n \in Names |-> IF n = "primary" /\ document # DefaultSettings
                                  THEN Current(document) ELSE Missing]
      /\ disk = [n \in Names |-> {files[n]}]
      /\ steps = <<>>
      /\ load = [stage |-> "off", settings |-> DefaultSettings, notice |-> FALSE]
  BY <1>1 DEF FilesInit, Off
<1>3. files = [n \in Names |-> files[n]]
  BY <1>2
<1>4. disk = [n \in Names |-> disk[n]] /\ \A n \in Names : files[n] \in disk[n]
  BY <1>2
<1>5. load.stage = "off"
  BY <1>2
<1>6. load = [stage |-> load.stage, settings |-> load.settings, notice |-> load.notice]
  BY <1>2
<1>7. DirectoryInv /\ OperationInv
  BY <1>2, <1>3, <1>4, <1>5, <1>6 DEF DirectoryInv, OperationInv
<1>8. transaction = NoActor /\ call = [c \in Commands |-> Idle]
  BY <1>1 DEF CommandsInit
<1>9. \A c \in Commands : call[c].pc = "idle"
  BY <1>8, IdleIsCall
<1> QED
  BY <1>7, <1>8, <1>9, CommandsAssumption DEF FilesInv, TransactionInv, At

\* A save changes hands only when a command takes or ends a transaction.
LEMMA SavesFrame ==
  ASSUME DirectoryInv, OperationInv, TransactionInv, Still, NEW c \in Commands,
         call[c].pc # "save", call'[c].pc # "save",
         \A d \in Commands \ {c} : call'[d] = call[d]
  PROVE  FilesInv'
<1>1. \A d \in Commands : /\ At(d, "save")' <=> At(d, "save")
                          /\ At(d, "save") => call'[d] = call[d]
  BY DEF At
<1>2. UNCHANGED <<files, disk, steps, load, promised, transaction>>
  BY DEF Still, fileVars
<1>3. DirectoryInv' /\ TransactionInv'
  BY <1>1, <1>2 DEF DirectoryInv, TransactionInv
<1>4. OperationInv'
  <2>1. \A d \in Commands :
          At(d, "save") /\ Saving(files["primary"], steps, call[d].candidate) =>
            At(d, "save")' /\ Saving(files'["primary"], steps', call'[d].candidate)
    BY <1>1, <1>2
  <2>2. load.stage = "done" =>
          steps' = <<>> \/ \E d \in Commands :
             At(d, "save")' /\ Saving(files'["primary"], steps', call'[d].candidate)
    BY <1>2, <2>1 DEF OperationInv
  <2> QED
    BY <1>2, <2>2 DEF OperationInv
<1> QED
  BY <1>3, <1>4 DEF FilesInv

\* FilesInv is inductive.
LEMMA FilesStep ==
  ASSUME CallsInv, StoppedInv, FilesInv, [Next]_vars
  PROVE  FilesInv'
<1>1. DirectoryInv /\ OperationInv /\ TransactionInv
  BY DEF FilesInv
<1>2. CASE ProcessStep
  <2>1. CASE /\ StartProcess \/ LoadStep \/ LoadFails
             /\ UNCHANGED <<commandVars, approved, policyVars>>
    <3>1. TransactionInv' /\ call' = call
      BY <1>1, <2>1 DEF TransactionInv, At, commandVars
    <3>2. CASE StartProcess
      <4>1. /\ load' = [stage |-> "read", settings |-> DefaultSettings, notice |-> FALSE]
            /\ steps' = <<>> /\ UNCHANGED <<files, disk>>
        BY <1>1, <3>2 DEF StartProcess, Off, OperationInv
      <4>2. load'.stage = "read"
        BY <4>1
      <4> QED
        BY <1>1, <3>1, <4>1, <4>2 DEF FilesInv, DirectoryInv, OperationInv
    <3>3. CASE LoadMissing \/ LoadDecodes \/ LoadFindsDamage \/ RecoverFromBackup
                \/ RecoverDefaults
      BY <3>1, <3>3, LoadBegins DEF FilesInv
    <3>4. CASE Loading /\ FileStep
      BY <3>1, <3>4, LoadWrites DEF FilesInv
    <3>5. CASE LoadFails
      <4>1. /\ load' = [stage |-> "off", settings |-> DefaultSettings, notice |-> FALSE]
            /\ steps' = <<>> /\ UNCHANGED <<files, disk>>
        BY <3>5 DEF LoadFails, FileStepFails, Off
      <4>2. load'.stage = "off"
        BY <4>1
      <4> QED
        BY <1>1, <3>1, <4>1, <4>2 DEF FilesInv, DirectoryInv, OperationInv
    <3> QED
      BY <2>1, <3>2, <3>3, <3>4, <3>5 DEF LoadStep
  <2>2. CASE PublishLoaded
    <3>1. /\ load' = [load EXCEPT !.stage = "done"] /\ steps' = <<>>
          /\ UNCHANGED <<files, disk, transaction, call>>
      BY <2>2 DEF PublishLoaded, LoadCompletes
    <3>2. load'.stage = "done"
          /\ load' = [stage |-> load'.stage, settings |-> load'.settings, notice |-> load'.notice]
      <4>1. load = [stage |-> load.stage, settings |-> load.settings, notice |-> load.notice]
        BY <1>1 DEF DirectoryInv
      <4> QED
        BY <3>1, <4>1
    <3> QED
      BY <1>1, <3>1, <3>2 DEF FilesInv, DirectoryInv, OperationInv, TransactionInv, At
  <2>3. CASE (ProcessStops \/ PowerLoss) /\ CallsEnd
    <3>1. DirectoryInv' /\ load'.stage = "off" /\ steps' = <<>>
      BY <1>1, <2>3, StopLeaves
    <3>2. transaction' = NoActor /\ call' = [c \in Commands |-> Idle]
      BY <2>3 DEF CallsEnd
    <3>3. \A c \in Commands : call'[c].pc = "idle"
      BY <3>2, IdleIsCall
    <3> QED
      BY <3>1, <3>2, <3>3, CommandsAssumption DEF FilesInv, OperationInv, TransactionInv, At
  <2> QED
    BY <1>2, <2>1, <2>2, <2>3 DEF ProcessStep
<1>3. CASE OutsideFiles
  <2>1. steps' = <<>> /\ ~Loading /\ load' = load /\ DirectoryInv'
    BY <1>1, <1>3, OutsidePuts DEF OutsideFiles
  <2>2. TransactionInv'
    BY <1>1, <1>3 DEF OutsideFiles, TransactionInv, At
  <2> QED
    BY <2>1, <2>2 DEF FilesInv, OperationInv, Loading
<1>4. CASE Running /\ FileStep /\ UNCHANGED <<settings, transaction, call>>
  <2>1. TransactionInv'
    BY <1>1, <1>4 DEF TransactionInv, At
  <2> QED
    BY <1>4, <2>1, SaveWrites DEF FilesInv
<1>5. ASSUME NEW c \in Commands, Quiet(c)
      PROVE  FilesInv'
  BY <1>1, <1>5, SavesFrame DEF Quiet
<1>6. ASSUME NEW c \in Commands, Takes(c)
      PROVE  FilesInv'
  <2> DEFINE candidate == Candidate(settings, call[c].request)
  <2>1. /\ transaction = NoActor /\ transaction' = c
        /\ call[c].pc = "wait" /\ call'[c].pc = "save"
        /\ \A d \in Commands \ {c} : call'[d] = call[d]
        /\ SaveAllowed(files["primary"]) /\ call'[c].candidate = candidate.settings
        /\ steps' = SaveSteps(files["primary"], candidate.settings)
        /\ UNCHANGED <<files, disk, load>>
    BY <1>6 DEF Takes
  <2> HIDE DEF candidate
  <2>2. load.stage = "done"
    BY <2>1, ActiveRuns DEF Running
  <2>3. Saving(files["primary"], steps', call'[c].candidate)
    BY <2>1, SaveStepsAre
  <2>4. TransactionInv'
    BY <1>1, <2>1, CommandsAssumption DEF TransactionInv, At
  <2>5. At(c, "save")'
    BY <2>1 DEF At
  <2>6. DirectoryInv' /\ OperationInv'
    BY <1>1, <2>1, <2>2, <2>3, <2>5 DEF DirectoryInv, OperationInv
  <2> QED
    BY <2>4, <2>6 DEF FilesInv
<1>7. ASSUME NEW c \in Commands, Ends(c)
      PROVE  FilesInv'
  <2>1. /\ call[c].pc = "save" /\ call'[c].pc = "idle" /\ transaction' = NoActor
        /\ \A d \in Commands \ {c} : call'[d] = call[d]
        /\ steps' = <<>> /\ UNCHANGED <<files, disk, load>>
    BY <1>7 DEF Ends
  <2>2. load.stage = "done"
    BY <2>1, ActiveRuns DEF Running
  <2>3. TransactionInv'
    BY <1>1, <2>1, CommandsAssumption DEF TransactionInv, At
  <2> QED
    BY <1>1, <2>1, <2>2, <2>3 DEF FilesInv, DirectoryInv, OperationInv
<1>8. CASE Still /\ call' = call
  BY <1>1, <1>8 DEF Still, fileVars, FilesInv, DirectoryInv, OperationInv, TransactionInv, At
<1> QED
  BY <1>2, <1>3, <1>4, <1>5, <1>6, <1>7, <1>8, StepKinds

\* What the files and the operation on them look like in every reachable state,
\* for every fault: one operation at a time, of the command that holds the
\* transaction or of the start (persistence.rs, settings/mod.rs).
THEOREM FilesInvariance == Spec => []FilesInv
<1>1. ConsentInv => CallsInv /\ StoppedInv
  BY DEF ConsentInv
<1>2. CallsInv /\ StoppedInv /\ FilesInv /\ [Next]_vars => FilesInv'
  BY FilesStep
<1> QED
  BY <1>1, <1>2, FilesStart, Consent, PTL DEF Spec

\* ReadOnlyKept: no save and no recovery writes over a document of a later
\* version or with unknown fields, whoever put it there and whenever.
THEOREM ReadOnlyDocumentsStay == Spec => ReadOnlyKept
<1>1. CallsInv /\ FilesInv /\ [Next]_vars =>
        [ReadOnlyFile(files["primary"]) /\ ~(Damage \/ OtherVersion \/ PowerLoss)
           => files' = files]_vars
  <2> SUFFICES ASSUME CallsInv, FilesInv, [Next]_vars, ReadOnlyFile(files["primary"]),
                      ~(Damage \/ OtherVersion \/ PowerLoss)
               PROVE  files' = files
    OBVIOUS
  <2>1. CASE ProcessStep
    <3>1. CASE LoadStep
      BY <3>1, LoadBegins, LoadWrites DEF LoadStep
    <3>2. CASE ~LoadStep
      BY <2>1, <3>2 DEF ProcessStep, StartProcess, LoadFails, FileStepFails, PublishLoaded,
         LoadCompletes, ProcessStops
    <3> QED
      BY <3>1, <3>2
  <2>2. CASE Running /\ FileStep /\ UNCHANGED <<settings, transaction, call>>
    BY <2>2, SaveWrites
  <2>3. CASE OutsideFiles
    BY <2>3 DEF OutsideFiles
  <2>4. CASE Still /\ call' = call
    BY <2>4 DEF Still, fileVars
  <2>5. ASSUME NEW c \in Commands, Quiet(c) \/ Takes(c) \/ Ends(c)
        PROVE  files' = files
    BY <2>5 DEF Quiet, Takes, Ends, Still, fileVars
  <2> QED
    BY <2>1, <2>2, <2>3, <2>4, <2>5, StepKinds
<1>2. ConsentInv => CallsInv
  BY DEF ConsentInv
<1> QED
  BY <1>1, <1>2, FilesInvariance, Consent, PTL DEF Spec, ReadOnlyKept

-----------------------------------------------------------------------------
(* What a start finds. *)

\* Only a damaged file makes a start look at the backup.
LEMMA BackupUnread ==
  \A p, b : p.kind # "damaged" => LoadOutcome(p, b) = Found(p)
BY DEF LoadOutcome, Found

\* As long as no file is damaged the backup makes no difference.
LEMMA UndamagedFinds ==
  /\ DirectoryInv /\ Undamaged => Loadable = {Found(p) : p \in disk["primary"]}
  /\ DirectoryInv' /\ Undamaged' => Loadable' = {Found(p) : p \in disk'["primary"]}
<1>1. ASSUME DirectoryInv, Undamaged
      PROVE  Loadable = {Found(p) : p \in disk["primary"]}
  <2>1. disk["backup"] # {} /\ \A p \in disk["primary"] : p.kind # "damaged"
    BY <1>1, Entries DEF DirectoryInv, Undamaged
  <2>2. \A p \in disk["primary"], b \in disk["backup"] : LoadOutcome(p, b) = Found(p)
    BY <2>1, BackupUnread
  <2> QED
    BY <2>1, <2>2 DEF Loadable
<1>2. ASSUME DirectoryInv', Undamaged'
      PROVE  Loadable' = {Found(p) : p \in disk'["primary"]}
  <2>1. disk'["backup"] # {} /\ \A p \in disk'["primary"] : p.kind # "damaged"
    BY <1>2, Entries DEF DirectoryInv, Undamaged
  <2>2. \A p \in disk'["primary"], b \in disk'["backup"] : LoadOutcome(p, b) = Found(p)
    BY <2>1, BackupUnread
  <2> QED
    BY <2>1, <2>2 DEF Loadable
<1> QED
  BY <1>1, <1>2

\* A start always finds something.
LEMMA LoadableSomething ==
  /\ DirectoryInv => Loadable # {}
  /\ DirectoryInv' => Loadable' # {}
BY Entries DEF DirectoryInv, Loadable

\* Less on the disk, no more to find.
LEMMA LessToFind ==
  ASSUME \A n \in Names : disk'[n] \subseteq disk[n]
  PROVE  Loadable' \subseteq Loadable
BY Entries DEF Loadable

\* A start finds in the file what was saved.
LEMMA FoundIsSaved == \A document : Found(Current(document)) = document
BY FileKindsApart DEF Found

\* A save adds its document to what a start may find, and in the end nothing
\* else is left to find.
LEMMA SavingFinds ==
  ASSUME DirectoryInv, NEW document, FileStep, Undamaged,
         Saving(files["primary"], steps, document)
  PROVE  /\ Undamaged'
         /\ files'["primary"] \in {files["primary"], Current(document)}
         /\ Loadable' = Loadable \cup {document} \/ Loadable' \subseteq Loadable
         /\ steps' = <<>> => Loadable' = {document}
<1>1. /\ DirectoryInv'
      /\ \/ Replaces("backup", files["primary"])
         \/ Replaces("primary", Current(document))
         \/ Synced
      /\ steps' = <<>> => Synced /\ files["primary"] = Current(document)
  BY SavingGoesOn
<1>2. Loadable = {Found(p) : p \in disk["primary"]}
  BY UndamagedFinds
<1>3. files["primary"] \in disk["primary"] /\ "primary" \in Names \ {"backup"}
  BY Entries DEF DirectoryInv
<1>4. CASE Replaces("backup", files["primary"])
  <2>1. files'["primary"] = files["primary"] /\ disk'["primary"] = disk["primary"]
    BY <1>3, <1>4 DEF Replaces
  <2>2. Undamaged'
    BY <2>1 DEF Undamaged
  <2>3. Loadable' = Loadable
    BY <1>1, <1>2, <2>1, <2>2, UndamagedFinds
  <2>4. steps' # <<>> \/ Synced
    BY <1>1
  <2>5. CASE Synced
    <3>1. disk["primary"] = {files["primary"]}
      BY <1>3, <2>1, <2>5 DEF Synced
    <3>2. Loadable' = {Found(files["primary"])}
      BY <1>2, <2>3, <3>1
    <3> QED
      BY <1>1, <2>1, <2>2, <2>3, <3>2, FoundIsSaved
  <2> QED
    BY <2>1, <2>2, <2>3, <2>4, <2>5
<1>5. CASE Replaces("primary", Current(document))
  <2>1. /\ files'["primary"] = Current(document)
        /\ disk'["primary"] = disk["primary"] \cup {Current(document)}
    BY <1>5 DEF Replaces
  <2>2. Undamaged'
    BY <2>1, FileKindsApart DEF Undamaged
  <2>3. Loadable' = {Found(p) : p \in disk["primary"] \cup {Current(document)}}
    BY <1>1, <2>1, <2>2, UndamagedFinds
  <2>4. Loadable' = Loadable \cup {document}
    BY <1>2, <2>3, FoundIsSaved
  <2>5. steps' = <<>> => Loadable' = {document}
    <3> SUFFICES ASSUME Synced PROVE Loadable' = {document}
      BY <1>1
    <3>1. disk'["primary"] = {Current(document)}
      BY <1>3, <2>1 DEF Synced
    <3> QED
      BY <1>1, <2>2, <3>1, UndamagedFinds, FoundIsSaved
  <2> QED
    BY <2>1, <2>2, <2>4, <2>5
<1>6. CASE Synced
  <2>1. files'["primary"] = files["primary"] /\ disk'["primary"] = {files["primary"]}
    BY <1>3, <1>6 DEF Synced
  <2>2. Undamaged'
    BY <1>3, <2>1 DEF Undamaged
  <2>3. Loadable' = {Found(files["primary"])}
    BY <1>1, <2>1, <2>2, UndamagedFinds
  <2>4. Loadable' \subseteq Loadable
    BY <1>2, <1>3, <2>3
  <2> QED
    BY <1>1, <2>1, <2>2, <2>3, <2>4, FoundIsSaved
<1> QED
  BY <1>1, <1>4, <1>5, <1>6

-----------------------------------------------------------------------------
(* A start that nothing interrupts tells whatever it cannot bring back. *)

\* A change from outside either leaves everything a start finds as it was, or
\* is one that the next start tells about.
LEMMA OutsideBreaks ==
  ASSUME DirectoryInv, promised = {}, Undamaged, Damage \/ OtherVersion
  PROVE  \/ promised' = {} /\ Undamaged' /\ Loadable' \subseteq Loadable
         \/ /\ promised' # {} /\ disk'["primary"] = {files'["primary"]}
            /\ files'["primary"].kind \in {"future", "damaged"}
<1>1. PICK n, f :
        /\ n \in Names
        /\ files'[n] = f /\ disk'[n] = {f}
        /\ \A m \in Names \ {n} : files'[m] = files[m] /\ disk'[m] = disk[m]
        /\ \/ f = Damaged
           \/ /\ n = "primary" /\ files["primary"].kind = "current"
              /\ \E kind \in {"old", "extra", "future"} :
                   f = File(kind, files["primary"].settings)
  BY OutsidePuts
<1>2. /\ DirectoryInv'
      /\ promised' = IF files'["primary"] = Damaged \/ ~(Loadable' \subseteq Loadable)
                     THEN Loadable ELSE promised
  BY OutsidePuts
<1>3. Loadable # {} /\ files["primary"] \in disk["primary"] /\ "primary" \in Names \ {"backup"}
  BY LoadableSomething, Entries DEF DirectoryInv
<1>4. Damaged.kind = "damaged"
  BY DEF Damaged, File
<1>5. Loadable = {Found(p) : p \in disk["primary"]}
  BY UndamagedFinds
<1>6. CASE n = "backup"
  <2>1. files'["primary"] = files["primary"] /\ disk'["primary"] = disk["primary"]
    BY <1>1, <1>3, <1>6
  <2>2. Undamaged' /\ files'["primary"] # Damaged
    BY <1>3, <1>4, <2>1 DEF Undamaged
  <2>3. Loadable' = Loadable
    BY <1>2, <1>5, <2>1, <2>2, UndamagedFinds
  <2> QED
    BY <1>2, <2>2, <2>3
<1>7. CASE n = "primary" /\ f = Damaged
  <2>1. files'["primary"] = Damaged /\ disk'["primary"] = {files'["primary"]}
    BY <1>1, <1>7
  <2> QED
    BY <1>2, <1>3, <1>4, <2>1
<1>8. CASE n = "primary" /\ f # Damaged
  <2>1. PICK kind \in {"old", "extra", "future"} : f = File(kind, files["primary"].settings)
    BY <1>1, <1>8
  <2>2. /\ files'["primary"] = f /\ disk'["primary"] = {f} /\ f.kind = kind
        /\ f.settings = files["primary"].settings /\ files["primary"].kind = "current"
    BY <1>1, <1>8, <2>1 DEF File
  <2>3. Undamaged' /\ files'["primary"] # Damaged
    BY <1>4, <2>2 DEF Undamaged
  <2>4. CASE kind = "future"
    BY <1>2, <1>3, <2>2, <2>3, <2>4
  <2>5. CASE kind # "future"
    <3>1. Found(f) = Found(files["primary"])
      BY <2>2, <2>5 DEF Found, Decodable, Decoded
    <3>2. Loadable' = {Found(f)}
      BY <1>2, <2>2, <2>3, UndamagedFinds
    <3>3. Loadable' \subseteq Loadable
      BY <1>3, <1>5, <3>1, <3>2
    <3> QED
      BY <1>2, <2>3, <3>3
  <2> QED
    BY <2>4, <2>5
<1> QED
  BY <1>1, <1>6, <1>7, <1>8, Entries

\* Nothing is damaged before the first start.
LEMMA HonestStart == Init => HonestInv
<1> SUFFICES ASSUME Init PROVE HonestInv
  OBVIOUS
<1>1. PICK document \in Installed : FilesInit(document)
  BY DEF Init
<1>2. /\ files = [n \in Names |-> IF n = "primary" /\ document # DefaultSettings
                                  THEN Current(document) ELSE Missing]
      /\ disk = [n \in Names |-> {files[n]}]
      /\ load.stage = "off" /\ promised = {}
  BY <1>1 DEF FilesInit, Off
<1>3. disk["primary"] = {files["primary"]} /\ files["primary"] \in {Current(document), Missing}
  BY <1>2, Entries
<1>4. Undamaged
  BY <1>3, FileKindsApart DEF Undamaged
<1> QED
  BY <1>2, <1>4 DEF HonestInv, PromisedInv, BrokenInv

\* A load that nothing interrupts, up to the end of its work on the disk.
LEMMA HonestLoad ==
  ASSUME FilesInv, HonestInv, LoadStep
  PROVE  HonestInv'
<1>1. DirectoryInv /\ OperationInv /\ PromisedInv /\ BrokenInv
  BY DEF FilesInv, HonestInv
<1>2. files["primary"] \in disk["primary"]
  BY <1>1, Entries DEF DirectoryInv
<1>3. CASE LoadMissing \/ LoadDecodes
  <2>1. PICK notice, todo :
           /\ Finish(Found(files["primary"]), notice, todo)
           /\ todo = <<>> \/ Saving(files["primary"], todo, Found(files["primary"]))
           /\ files["primary"].kind \notin {"future", "damaged"} \/ notice
           /\ load.stage = "read" /\ files["primary"].kind # "damaged"
    BY <1>3, LoadFinds
  <2>2. /\ load' = [stage |-> "finish", settings |-> Found(files["primary"]), notice |-> notice]
        /\ steps' = todo /\ UNCHANGED <<files, disk, promised>>
    BY <2>1 DEF Finish
  <2>3. load'.stage = "finish" /\ load'.settings = Found(files["primary"]) /\ load'.notice = notice
    BY <2>2
  <2>4. PromisedInv'
    BY <1>1, <2>1, <2>2, <2>3 DEF PromisedInv, Undamaged
  <2>5. BrokenInv'
    BY <1>1, <2>1, <2>2, <2>3 DEF BrokenInv, Undamaged
  <2> QED
    BY <2>4, <2>5 DEF HonestInv
<1>4. CASE LoadFindsDamage
  <2>1. /\ load.stage = "read" /\ files["primary"].kind = "damaged"
        /\ load' = [load EXCEPT !.stage = "recover"] /\ promised' = promised
    BY <1>4 DEF LoadFindsDamage
  <2>2. load'.stage = "recover"
    BY <1>1, <2>1 DEF DirectoryInv
  <2>3. promised # {}
    BY <1>1, <1>2, <2>1 DEF PromisedInv, Undamaged
  <2> QED
    BY <2>1, <2>2, <2>3 DEF HonestInv, PromisedInv, BrokenInv
<1>5. CASE RecoverFromBackup \/ RecoverDefaults
  <2>1. PICK document, todo :
           Finish(document, TRUE, todo) /\ load.stage = "recover" /\ steps = <<>>
    BY <1>5 DEF RecoverFromBackup, RecoverDefaults
  <2>2. load' = [stage |-> "finish", settings |-> document, notice |-> TRUE]
        /\ UNCHANGED <<files, disk, promised>>
    BY <2>1 DEF Finish
  <2>3. load'.stage = "finish" /\ load'.notice
    BY <2>2
  <2>4. promised' # {}
    BY <1>1, <2>1, <2>2 DEF PromisedInv
  <2>5. disk["primary"] = {Missing}
    BY <1>1, <2>1, Steps DEF OperationInv
  <2>6. Undamaged'
    BY <2>2, <2>5, FileKindsApart DEF Undamaged
  <2> QED
    BY <2>3, <2>4, <2>6 DEF HonestInv, PromisedInv, BrokenInv
<1>6. CASE Loading /\ FileStep
  <2>1. load' = load /\ promised' = promised /\ steps # <<>>
    BY <1>6 DEF FileStep
  <2>2. load.stage \in {"recover", "finish"}
    BY <1>1, <1>6, <2>1 DEF OperationInv, Loading
  <2>3. CASE load.stage = "recover"
    BY <1>1, <2>1, <2>3 DEF HonestInv, PromisedInv, BrokenInv
  <2>4. CASE load.stage = "finish" /\ promised = {}
    <3>1. /\ Undamaged /\ Saving(files["primary"], steps, load.settings)
          /\ Found(files["primary"]) = load.settings
      BY <1>1, <2>1, <2>4 DEF PromisedInv
    <3>2. /\ Undamaged'
          /\ files'["primary"] \in {files["primary"], Current(load.settings)}
      BY <1>1, <1>6, <3>1, SavingFinds
    <3>3. Saving(files'["primary"], steps', load.settings) \/ steps' = <<>>
      BY <1>1, <1>6, <3>1, SavingGoesOn
    <3>4. Found(files'["primary"]) = load.settings
      BY <3>1, <3>2, FoundIsSaved
    <3> QED
      BY <2>1, <2>4, <3>2, <3>3, <3>4 DEF HonestInv, PromisedInv, BrokenInv
  <2>5. CASE load.stage = "finish" /\ promised # {}
    <3>1. Undamaged /\ load.notice
      BY <1>1, <2>5 DEF BrokenInv
    <3>2. ASSUME Saving(files["primary"], steps, load.settings)
          PROVE  Undamaged'
      BY <1>1, <1>6, <3>1, <3>2, SavingFinds
    <3>3. ASSUME Restoring(files["primary"], files["backup"], steps, load.settings)
          PROVE  Undamaged'
      <4>1. /\ Replaces("primary", files["backup"]) \/ Synced
            /\ Decodable(files["backup"])
        BY <1>1, <1>6, <3>3, RestoringGoesOn DEF Restoring
      <4>2. \A p \in disk'["primary"] : p \in disk["primary"] \/ p = files["backup"]
        BY <1>2, <4>1, Entries DEF Replaces, Synced
      <4> QED
        BY <3>1, <4>1, <4>2, FileKindsApart DEF Undamaged
    <3>4. ASSUME Discarding(files["primary"], steps, load.settings)
          PROVE  Undamaged'
      <4>1. Replaces("backup", Missing)
        BY <1>1, <1>6, <3>4, DiscardingGoesOn
      <4>2. disk'["primary"] = disk["primary"]
        BY <4>1, Entries DEF Replaces
      <4> QED
        BY <3>1, <4>2 DEF Undamaged
    <3>5. Undamaged'
      BY <1>1, <2>1, <2>5, <3>2, <3>3, <3>4 DEF OperationInv
    <3> QED
      BY <2>1, <2>5, <3>1, <3>5 DEF HonestInv, PromisedInv, BrokenInv
  <2> QED
    BY <2>2, <2>3, <2>4, <2>5
<1> QED
  BY <1>3, <1>4, <1>5, <1>6 DEF LoadStep

\* HonestInv is inductive while no recovery is cut short.
LEMMA HonestStep ==
  ASSUME Uninterrupted, CallsInv, StoppedInv, FilesInv, HonestInv, [Next]_vars
  PROVE  HonestInv'
<1>1. DirectoryInv /\ OperationInv /\ PromisedInv /\ BrokenInv
  BY DEF FilesInv, HonestInv
<1>2. files["primary"] \in disk["primary"]
  BY <1>1, Entries DEF DirectoryInv
<1>3. CASE ProcessStep
  <2>1. CASE StartProcess
    <3>1. /\ load.stage = "off" /\ load' = [Off EXCEPT !.stage = "read"]
          /\ UNCHANGED <<files, disk, steps, promised>>
      BY <2>1 DEF StartProcess
    <3>2. load'.stage = "read"
      BY <3>1 DEF Off
    <3> QED
      BY <1>1, <3>1, <3>2 DEF HonestInv, PromisedInv, BrokenInv, Undamaged
  <2>2. CASE LoadStep
    BY <2>2, HonestLoad
  <2>3. CASE LoadFails
    <3>1. /\ promised = {} /\ promised' = {} /\ disk' = disk /\ load'.stage = "off"
      BY <2>3 DEF LoadFails, MayStop, FileStepFails, Off, Uninterrupted
    <3> QED
      BY <1>1, <3>1 DEF HonestInv, PromisedInv, BrokenInv, Undamaged
  <2>4. CASE PublishLoaded
    <3>1. /\ load.stage = "finish" /\ load' = [load EXCEPT !.stage = "done"]
          /\ promised' = {} /\ disk' = disk
      BY <2>4 DEF PublishLoaded, LoadCompletes
    <3>2. load'.stage = "done"
      BY <1>1, <3>1 DEF DirectoryInv
    <3>3. Undamaged
      BY <1>1, <3>1 DEF PromisedInv, BrokenInv
    <3> QED
      BY <3>1, <3>2, <3>3 DEF HonestInv, PromisedInv, BrokenInv, Undamaged
  <2>5. CASE ProcessStops \/ PowerLoss
    <3>1. /\ DirectoryInv' /\ load'.stage = "off" /\ steps' = <<>> /\ promised' = promised
          /\ load.stage # "off" /\ (promised = {} \/ ~Loading)
          /\ files'["primary"] \in disk["primary"] /\ disk'["primary"] \subseteq disk["primary"]
      BY <1>1, <2>5, StopLeaves, Entries DEF Uninterrupted
    <3>2. CASE promised = {}
      BY <1>1, <3>1, <3>2 DEF HonestInv, PromisedInv, BrokenInv, Undamaged
    <3>3. CASE promised # {}
      <4>1. load.stage = "done"
        BY <1>1, <3>1, <3>3 DEF DirectoryInv, Loading
      <4>2. disk["primary"] = {files["primary"]} /\ files["primary"].kind \in {"future", "damaged"}
        BY <1>1, <3>3, <4>1 DEF BrokenInv
      <4>3. files'["primary"] \in disk'["primary"]
        BY <3>1, Entries DEF DirectoryInv
      <4>4. files'["primary"] = files["primary"] /\ disk'["primary"] = {files'["primary"]}
        BY <3>1, <4>2, <4>3
      <4> QED
        BY <3>1, <3>3, <4>2, <4>4 DEF HonestInv, PromisedInv, BrokenInv
    <3> QED
      BY <3>2, <3>3
  <2> QED
    BY <1>3, <2>1, <2>2, <2>3, <2>4, <2>5 DEF ProcessStep
<1>4. CASE OutsideFiles
  <2>1. /\ Damage \/ OtherVersion
        /\ steps = <<>> /\ ~Loading /\ UNCHANGED <<steps, load>> /\ DirectoryInv'
    BY <1>1, <1>4, OutsidePuts DEF OutsideFiles
  <2>2. load.stage \in {"off", "done"}
    BY <1>1, <2>1 DEF DirectoryInv, Loading
  <2>3. CASE promised = {}
    <3>1. Undamaged
      BY <1>1, <2>3 DEF PromisedInv
    <3> QED
      BY <1>1, <2>1, <2>2, <2>3, <3>1, OutsideBreaks DEF HonestInv, PromisedInv, BrokenInv
  <2>4. CASE promised # {}
    <3>1. /\ files["primary"].kind \in {"future", "damaged"}
          /\ disk["primary"] = {files["primary"]}
      BY <1>1, <2>2, <2>4 DEF BrokenInv
    <3>2. PICK n, f :
            /\ n \in Names
            /\ files'[n] = f /\ disk'[n] = {f}
            /\ \A m \in Names \ {n} : files'[m] = files[m] /\ disk'[m] = disk[m]
            /\ f = Damaged \/ files["primary"].kind = "current"
      BY <1>1, <2>1, OutsidePuts
    <3>3. f.kind = "damaged"
      BY <3>1, <3>2 DEF Damaged, File
    <3>4. /\ files'["primary"].kind \in {"future", "damaged"}
          /\ disk'["primary"] = {files'["primary"]}
      BY <3>1, <3>2, <3>3, Entries
    <3>5. promised' = promised
      BY <1>1, <2>1, <2>4, OutsidePuts
    <3> QED
      BY <2>1, <2>2, <2>4, <3>4, <3>5 DEF HonestInv, PromisedInv, BrokenInv
  <2> QED
    BY <2>3, <2>4
<1>5. CASE Running /\ FileStep /\ UNCHANGED <<settings, transaction, call>>
  <2>1. load' = load /\ promised' = promised /\ steps # <<>> /\ load.stage = "done"
    BY <1>5 DEF FileStep, Running
  <2>2. promised = {} /\ Undamaged
    BY <1>1, <2>1 DEF BrokenInv, PromisedInv
  <2>3. PICK c \in Commands : Saving(files["primary"], steps, call[c].candidate)
    BY <1>1, <2>1 DEF OperationInv
  <2>4. Undamaged'
    BY <1>1, <1>5, <2>2, <2>3, SavingFinds
  <2> QED
    BY <2>1, <2>2, <2>4 DEF HonestInv, PromisedInv, BrokenInv
<1>6. ASSUME Still
      PROVE  HonestInv'
  BY <1>1, <1>6 DEF Still, fileVars, HonestInv, PromisedInv, BrokenInv, Undamaged
<1>7. ASSUME NEW c \in Commands, Takes(c) \/ Ends(c)
      PROVE  HonestInv'
  <2>1. UNCHANGED <<files, disk, load, promised>> /\ call[c].pc # "idle"
    BY <1>7 DEF Takes, Ends
  <2>2. load.stage = "done"
    BY <2>1, ActiveRuns DEF Running
  <2>3. promised = {} \/ steps' = <<>>
    BY <1>1, <1>7, <2>2 DEF Takes, Ends, BrokenInv, SaveAllowed, ReadOnlyFile, Decodable
  <2> QED
    BY <1>1, <2>1, <2>2, <2>3 DEF HonestInv, PromisedInv, BrokenInv, Undamaged
<1> QED
  BY <1>3, <1>4, <1>5, <1>6, <1>7, StepKinds DEF Quiet

\* A start that nothing interrupts, whatever else goes wrong.
THEOREM HonestInvariance == Uninterrupted /\ Spec => []HonestInv
<1>1. ConsentInv => CallsInv /\ StoppedInv
  BY DEF ConsentInv
<1>2. Uninterrupted /\ CallsInv /\ StoppedInv /\ FilesInv /\ HonestInv /\ [Next]_vars => HonestInv'
  BY HonestStep
<1>3. Uninterrupted => Uninterrupted'
  BY DEF Uninterrupted
<1> QED
  BY <1>1, <1>2, <1>3, HonestStart, FilesInvariance, Consent, PTL DEF Spec

\* RecoveryIsHonest: a start that publishes something else than an undamaged
\* start would have found has told the user (persistence.rs, the notice of
\* load_from_path), unless an earlier start was cut short in its recovery.
THEOREM RecoveriesAreHonest == Uninterrupted /\ Spec => RecoveryIsHonest
<1>1. HonestInv =>
        [(load.stage = "finish" /\ load'.stage = "done" /\ promised # {})
           => load.notice \/ load.settings \in promised]_vars
  BY DEF HonestInv, BrokenInv
<1> QED
  BY <1>1, HonestInvariance, PTL DEF RecoveryIsHonest

-----------------------------------------------------------------------------
(* What a command makes of the settings. *)

\* A command refuses or makes a document.
LEMMA CandidateIsDocument ==
  ASSUME NEW s, NEW request,
         request.kind \in {"dest", "window", "items", "add", "remove"}
  PROVE  \/ Candidate(s, request) = Refusal
         \/ \E b : Candidate(s, request) = Accepted(b)
<1>1. CASE request.kind = "dest"
  <2>1. Candidate(s, request) = Accepted([s EXCEPT !.dest = request.dest])
    BY <1>1 DEF Candidate
  <2> QED
    BY <2>1
<1>2. CASE request.kind = "window"
  BY <1>2 DEF Candidate
<1>3. CASE request.kind = "items"
  BY <1>3 DEF Candidate
<1>4. CASE request.kind = "add"
  BY <1>4 DEF Candidate
<1>5. CASE request.kind = "remove"
  BY <1>5 DEF Candidate
<1> QED
  BY <1>1, <1>2, <1>3, <1>4, <1>5

\* An accepted candidate is one change of the settings it was computed from,
\* whatever they were when the command was invoked.
LEMMA CandidateIsChange ==
  ASSUME NEW s, NEW request, IsRequest(request), Candidate(s, request).ok
  PROVE  IsChange(s, Candidate(s, request).settings)
<1> DEFINE b == Candidate(s, request).settings
<1>1. request.kind \in {"dest", "window", "items", "add", "remove"}
  BY DEF IsRequest, DestPatch, ItemsPatch, AddItems, RemoveItem, MoveWindow
<1>2. Candidate(s, request) = Accepted(b)
  <2>1. Candidate(s, request) # Refusal
    BY DEF Refusal
  <2>2. \A d : Accepted(d).settings = d
    BY DEF Accepted
  <2> QED
    BY <1>1, <2>1, <2>2, CandidateIsDocument
<1>3. \/ \E dest \in Dests : request = DestPatch(dest)
      \/ \E ids \in Arrangements(ItemIds(s.items)) : request = ItemsPatch(ids)
      \/ \E targets \in Arrangements(Targets) : request = AddItems(targets)
      \/ \E id \in ItemIds(s.items) : request = RemoveItem(id)
      \/ \E position \in WindowPositions : request = MoveWindow(position)
  <2>0. ~Refusal.ok
    BY DEF Refusal
  <2>1. CASE /\ request.kind = "items" /\ request = ItemsPatch(request.ids)
             /\ request.ids \in Arrangements(ToSet(request.ids))
    <3>1. EditsKnown(s.items, request.ids)
      BY <2>0, <2>1 DEF Candidate
    <3> QED
      BY <2>1, <3>1, ArrangementsNamed DEF EditsKnown
  <2>2. CASE request.kind = "remove" /\ request = RemoveItem(request.id)
    <3>1. request.id \in ItemIds(s.items)
      BY <2>0, <2>2 DEF Candidate
    <3> QED
      BY <2>2, <3>1
  <2> QED
    BY <2>1, <2>2 DEF IsRequest
<1> HIDE DEF b
<1> QED
  BY <1>2, <1>3, Zenon DEF IsChange, b

-----------------------------------------------------------------------------
(* What is being saved. *)

\* Nothing is asked for before the first start.
LEMMA RegisterStart == Init => RegisterInv
<1> SUFFICES ASSUME Init PROVE RegisterInv
  OBVIOUS
<1>1. call = [c \in Commands |-> Idle]
  BY DEF Init, CommandsInit
<1>2. \A c \in Commands : call[c].pc = "idle"
  BY <1>1, IdleIsCall
<1> QED
  BY <1>2 DEF RegisterInv, RequestInv, CandidateInv, At

\* Nobody asks for anything while nothing is loaded.
LEMMA IdleRegister ==
  ASSUME \A c \in Commands : call'[c].pc = "idle"
  PROVE  RegisterInv'
BY DEF RegisterInv, RequestInv, CandidateInv, At

\* A save under way when the process runs, and what it finds on the disk.
LEMMA SavingCommand ==
  ASSUME FilesInv, HonestInv, RegisterInv, Running, FileStep
  PROVE  /\ promised = {} /\ promised' = {}
         /\ \E c \in Commands :
              /\ At(c, "save") /\ transaction = c
              /\ IsChange(settings, call[c].candidate)
              /\ Loadable' = Loadable \cup {call[c].candidate} \/ Loadable' \subseteq Loadable
              /\ steps' = <<>> => Loadable' = {call[c].candidate}
<1>1. /\ DirectoryInv /\ OperationInv /\ TransactionInv /\ PromisedInv /\ BrokenInv
      /\ CandidateInv
  BY DEF FilesInv, HonestInv, RegisterInv
<1>2. promised' = promised /\ steps # <<>> /\ load.stage = "done"
  BY DEF FileStep, Running
<1>3. promised = {} /\ Undamaged
  BY <1>1, <1>2 DEF BrokenInv, PromisedInv
<1>4. PICK c \in Commands : At(c, "save") /\ Saving(files["primary"], steps, call[c].candidate)
  BY <1>1, <1>2 DEF OperationInv
<1>5. transaction = c /\ IsChange(settings, call[c].candidate)
  BY <1>1, <1>4 DEF TransactionInv, CandidateInv
<1>6. /\ Loadable' = Loadable \cup {call[c].candidate} \/ Loadable' \subseteq Loadable
      /\ steps' = <<>> => Loadable' = {call[c].candidate}
  BY <1>1, <1>3, <1>4, SavingFinds
<1> QED
  BY <1>2, <1>3, <1>4, <1>5, <1>6

\* What can be found depends on what is on the disk.
LEMMA SameDisk == disk' = disk => Loadable' = Loadable
BY DEF Loadable

\* Something is left to do until a save ends.
LEMMA SavesNothing ==
  ASSUME NEW primary, NEW todo, NEW document, Saving(primary, todo, document)
  PROVE  todo # <<>>
BY DEF Saving

\* RegisterInv is inductive where FilesInv and HonestInv hold.
LEMMA RegisterStep ==
  ASSUME CallsInv, StoppedInv, FilesInv, HonestInv, RegisterInv, [Next]_vars
  PROVE  RegisterInv'
<1>1. /\ DirectoryInv /\ OperationInv /\ TransactionInv /\ PromisedInv /\ BrokenInv
      /\ RequestInv /\ CandidateInv
  BY DEF FilesInv, HonestInv, RegisterInv
<1>2. CASE ProcessStep
  <2>1. CASE (ProcessStops \/ PowerLoss) /\ CallsEnd
    <3>1. call' = [c \in Commands |-> Idle]
      BY <2>1 DEF CallsEnd
    <3> QED
      BY <3>1, IdleIsCall, IdleRegister
  <2>2. CASE ~((ProcessStops \/ PowerLoss) /\ CallsEnd)
    <3>1. call' = call /\ load.stage # "done"
      BY <1>2, <2>2 DEF ProcessStep, StartProcess, LoadStep, LoadMissing, LoadDecodes,
         LoadFindsDamage, RecoverFromBackup, RecoverDefaults, LoadFails, PublishLoaded,
         LoadCompletes, Loading, commandVars
    <3>2. \A c \in Commands : call[c].pc = "idle"
      BY <3>1 DEF StoppedInv, Running, At
    <3> QED
      BY <3>1, <3>2, IdleRegister
  <2> QED
    BY <2>1, <2>2
<1>3. CASE OutsideFiles
  <2>1. /\ Damage \/ OtherVersion
        /\ UNCHANGED <<settings, transaction, call>> /\ steps' = steps /\ DirectoryInv'
    BY <1>1, <1>3, OutsidePuts DEF OutsideFiles
  <2>2. ASSUME promised' = {}
        PROVE  promised = {} /\ Loadable' \subseteq Loadable /\ Loadable' # {}
    <3>1. Loadable # {} /\ Loadable' # {}
      BY <1>1, <2>1, LoadableSomething
    <3>2. promised = {}
      BY <1>1, <2>1, <2>2, <3>1, OutsidePuts
    <3>3. Undamaged
      BY <1>1, <3>2 DEF PromisedInv
    <3> QED
      BY <1>1, <2>1, <2>2, <3>1, <3>2, <3>3, OutsideBreaks
  <2>3. ASSUME NEW c \in Commands, At(c, "save"), promised' = {}, steps' = <<>>
        PROVE  Loadable' = {call'[c].candidate}
    <3>1. Loadable = {call[c].candidate}
      BY <1>1, <2>1, <2>2, <2>3 DEF CandidateInv
    <3> QED
      BY <2>1, <2>2, <2>3, <3>1
  <2> QED
    BY <1>1, <2>1, <2>3 DEF RegisterInv, RequestInv, CandidateInv, At
<1>4. CASE Running /\ FileStep /\ UNCHANGED <<settings, transaction, call>>
  <2>1. PICK c \in Commands :
              /\ transaction = c
              /\ steps' = <<>> => Loadable' = {call[c].candidate}
    BY <1>4, SavingCommand
  <2>2. \A d \in Commands : At(d, "save") => d = c
    BY <1>1, <2>1 DEF TransactionInv
  <2> QED
    BY <1>1, <1>4, <2>1, <2>2 DEF RegisterInv, RequestInv, CandidateInv, At
<1>5. ASSUME NEW c \in Commands, Quiet(c)
      PROVE  RegisterInv'
  <2>1. UNCHANGED <<settings, disk, steps, promised>>
    BY <1>5 DEF Quiet, Still, fileVars
  <2>2. Loadable' = Loadable
    BY <2>1, SameDisk
  <2>3. RequestInv'
    BY <1>1, <1>5 DEF Quiet, RequestInv
  <2>4. CandidateInv'
    BY <1>1, <1>5, <2>1, <2>2 DEF Quiet, CandidateInv, At
  <2> QED
    BY <2>3, <2>4 DEF RegisterInv
<1>6. ASSUME NEW c \in Commands, Takes(c)
      PROVE  RegisterInv'
  <2> DEFINE candidate == Candidate(settings, call[c].request)
  <2>1. /\ transaction = NoActor /\ call[c].pc = "wait" /\ call'[c].pc = "save"
        /\ \A d \in Commands \ {c} : call'[d] = call[d]
        /\ SaveAllowed(files["primary"]) /\ candidate.ok
        /\ call'[c].candidate = candidate.settings
        /\ steps' = SaveSteps(files["primary"], candidate.settings)
        /\ settings' = settings
    BY <1>6 DEF Takes
  <2>2. IsChange(settings, candidate.settings)
    BY <1>1, <2>1, CandidateIsChange DEF RequestInv
  <2> HIDE DEF candidate
  <2>3. steps' # <<>>
    BY <2>1, SaveStepsAre, SavesNothing
  <2>4. \A d \in Commands \ {c} : ~At(d, "save")
    BY <1>1, <2>1, CommandsAssumption DEF TransactionInv
  <2>5. CandidateInv'
    <3> SUFFICES ASSUME NEW d \in Commands, At(d, "save")'
                 PROVE  IsChange(settings, call[d].candidate)'
      BY <2>3 DEF CandidateInv
    <3>1. d = c
      BY <2>1, <2>4 DEF At
    <3>2. call'[d].candidate = candidate.settings /\ settings' = settings
      BY <2>1, <3>1
    <3> QED
      BY <2>2, <3>2 DEF IsChange
  <2>6. RequestInv'
    BY <1>1, <2>1 DEF RequestInv
  <2> QED
    BY <2>5, <2>6 DEF RegisterInv
<1>7. ASSUME NEW c \in Commands, Ends(c)
      PROVE  RegisterInv'
  <2>1. /\ call[c].pc = "save" /\ call'[c].pc = "idle"
        /\ \A d \in Commands \ {c} : call'[d] = call[d]
    BY <1>7 DEF Ends
  <2>2. \A d \in Commands \ {c} : ~At(d, "save")
    BY <1>1, <2>1 DEF TransactionInv, At
  <2>3. \A d \in Commands : ~At(d, "save")'
    BY <2>1, <2>2 DEF At
  <2> QED
    BY <1>1, <2>1, <2>3 DEF RegisterInv, RequestInv, CandidateInv
<1>8. CASE Still /\ call' = call
  <2>1. UNCHANGED <<settings, disk, steps, promised, call>>
    BY <1>8 DEF Still, fileVars
  <2>2. Loadable' = Loadable
    BY <2>1, SameDisk
  <2> QED
    BY <1>1, <2>1, <2>2 DEF RegisterInv, RequestInv, CandidateInv, At
<1> QED
  BY <1>2, <1>3, <1>4, <1>5, <1>6, <1>7, <1>8, StepKinds

\* A save under way is one change of the published settings, in every reachable
\* state, and all that a start finds once nothing of it is left to do.
THEOREM RegisterInvariance == Uninterrupted /\ Spec => []RegisterInv
<1>1. ConsentInv => CallsInv /\ StoppedInv
  BY DEF ConsentInv
<1>2. CallsInv /\ StoppedInv /\ FilesInv /\ HonestInv /\ RegisterInv /\ [Next]_vars
        => RegisterInv'
  BY RegisterStep
<1> QED
  BY <1>1, <1>2, RegisterStart, FilesInvariance, HonestInvariance, Consent, PTL DEF Spec

-----------------------------------------------------------------------------
(* The refinement: the published settings and what a start finds are a register. *)

\* The initial states are initial states of the register.
LEMMA RegisterBegins == Init => Register!Init
<1> SUFFICES ASSUME Init PROVE Register!Init
  OBVIOUS
<1>1. PICK document \in Installed : FilesInit(document) /\ CommandsInit(document)
  BY DEF Init
<1>2. /\ files = [n \in Names |-> IF n = "primary" /\ document # DefaultSettings
                                  THEN Current(document) ELSE Missing]
      /\ disk = [n \in Names |-> {files[n]}]
      /\ promised = {} /\ settings = document
  BY <1>1 DEF FilesInit, CommandsInit
<1>3. /\ files["primary"] = IF document # DefaultSettings THEN Current(document) ELSE Missing
      /\ disk["primary"] = {files["primary"]}
  BY <1>2, Entries
<1>4. DirectoryInv /\ Undamaged
  BY FilesStart, HonestStart, <1>2 DEF FilesInv, HonestInv, PromisedInv
<1>5. Found(files["primary"]) = document
  BY <1>3, FoundIsSaved DEF Found, Missing, File, Decodable
<1>6. Loadable = {document}
  BY <1>3, <1>4, <1>5, UndamagedFinds
<1> QED
  BY <1>1, <1>2, <1>6 DEF Register!Init

\* Less to find is what the register calls settled.
LEMMA RegisterSettles ==
  ASSUME UNCHANGED settings, promised = {}, promised' = {},
         Loadable' \subseteq Loadable, Loadable' # {}
  PROVE  Register!Next
BY DEF Register!Next, Register!Settle

\* A step that leaves disk, settings and promise alone is a stutter.
LEMMA RegisterStays ==
  ASSUME UNCHANGED <<settings, disk, promised>>
  PROVE  UNCHANGED Register!registerVars
BY SameDisk DEF Register!registerVars

\* Every step is a step of the register or a stutter.
LEMMA RegisterSteps ==
  ASSUME CallsInv, StoppedInv, FilesInv, HonestInv, RegisterInv, [Next]_vars,
         FilesInv'
  PROVE  [Register!Next]_(Register!registerVars)
<1>1. /\ DirectoryInv /\ OperationInv /\ TransactionInv /\ PromisedInv /\ BrokenInv
      /\ CandidateInv
  BY DEF FilesInv, HonestInv, RegisterInv
<1>2. Loadable' # {}
  BY LoadableSomething DEF FilesInv
<1>3. CASE promised # {} \/ promised' # {}
  BY <1>3 DEF Register!Next, Register!Outside
<1>4. CASE promised = {} /\ promised' = {}
  <2>1. Undamaged /\ load.stage # "recover"
    BY <1>1, <1>4 DEF PromisedInv
  <2>2. Loadable = {Found(p) : p \in disk["primary"]} /\ files["primary"] \in disk["primary"]
    BY <1>1, <2>1, UndamagedFinds, Entries DEF DirectoryInv
  <2>3. CASE ProcessStep
    <3>1. CASE Loading /\ FileStep /\ settings' = settings
      <4>1. load.stage = "finish" /\ steps # <<>>
        BY <1>1, <2>1, <3>1 DEF OperationInv, Loading, FileStep
      <4>2. Saving(files["primary"], steps, load.settings) /\ load.settings \in Loadable
        BY <1>1, <1>4, <2>2, <4>1 DEF PromisedInv
      <4>3. Loadable' = Loadable \cup {load.settings} \/ Loadable' \subseteq Loadable
        BY <1>1, <2>1, <3>1, <4>2, SavingFinds
      <4>4. Loadable' \subseteq Loadable
        BY <4>2, <4>3
      <4> QED
        BY <1>2, <1>4, <3>1, <4>4, RegisterSettles
    <3>2. CASE PublishLoaded
      <4>1. /\ load.stage = "finish" /\ settings' = load.settings /\ disk' = disk
        BY <3>2 DEF PublishLoaded, LoadCompletes
      <4>2. settings' \in Loadable
        BY <1>1, <1>4, <2>2, <4>1 DEF PromisedInv
      <4>3. Loadable' = Loadable
        BY <4>1, SameDisk
      <4> QED
        BY <1>4, <4>2, <4>3 DEF Register!Next, Register!Restart
    <3>3. CASE (ProcessStops \/ PowerLoss) /\ CallsEnd
      <4>1. Loadable' \subseteq Loadable
        BY <1>1, <3>3, StopLeaves, LessToFind
      <4> QED
        BY <1>2, <1>4, <3>3, <4>1, RegisterSettles DEF CallsEnd
    <3>4. CASE StartProcess /\ settings' = settings
      BY <3>4, RegisterStays DEF StartProcess
    <3>5. CASE LoadFails /\ settings' = settings
      BY <3>5, RegisterStays DEF LoadFails, FileStepFails
    <3>6. CASE /\ LoadMissing \/ LoadDecodes \/ LoadFindsDamage \/ RecoverFromBackup
                    \/ RecoverDefaults
               /\ settings' = settings
      BY <3>6, LoadBegins, RegisterStays
    <3> QED
      BY <2>3, <3>1, <3>2, <3>3, <3>4, <3>5, <3>6 DEF ProcessStep, LoadStep, commandVars
  <2>4. CASE OutsideFiles
    <3>1. Loadable' \subseteq Loadable
      BY <1>1, <1>4, <2>1, <2>4, OutsideBreaks DEF OutsideFiles
    <3> QED
      BY <1>2, <1>4, <2>4, <3>1, RegisterSettles DEF OutsideFiles
  <2>5. CASE Running /\ FileStep /\ UNCHANGED <<settings, transaction, call>>
    <3>1. PICK c \in Commands :
                /\ IsChange(settings, call[c].candidate)
                /\ Loadable' = Loadable \cup {call[c].candidate} \/ Loadable' \subseteq Loadable
      BY <2>5, SavingCommand
    <3>2. CASE Loadable' \subseteq Loadable
      BY <1>2, <1>4, <2>5, <3>2, RegisterSettles
    <3>3. CASE ~(Loadable' \subseteq Loadable)
      <4>1. /\ Loadable' = Loadable \cup {call[c].candidate}
            /\ call[c].candidate \in Loadable' \ Loadable
        BY <3>1, <3>3
      <4> QED
        BY <1>4, <2>5, <3>1, <4>1 DEF Register!Next, Register!Attempt
    <3> QED
      BY <3>2, <3>3
  <2>6. ASSUME NEW c \in Commands, Quiet(c) \/ Takes(c)
        PROVE  UNCHANGED Register!registerVars
    BY <2>6, RegisterStays DEF Quiet, Takes, Still, fileVars
  <2>7. ASSUME NEW c \in Commands, Ends(c)
        PROVE  [Register!Next]_(Register!registerVars)
    <3>1. call[c].pc = "save" /\ UNCHANGED <<disk, promised>>
      BY <2>7 DEF Ends
    <3>2. CASE settings' = settings
      BY <3>1, <3>2, RegisterStays
    <3>3. CASE settings' # settings
      <4>1. steps = <<>> /\ settings' = call[c].candidate
        BY <2>7, <3>3 DEF Ends
      <4>2. IsChange(settings, settings') /\ Loadable = {settings'}
        BY <1>1, <1>4, <3>1, <4>1 DEF CandidateInv, At
      <4>3. Loadable' = Loadable
        BY <3>1, SameDisk
      <4> QED
        BY <1>4, <3>3, <4>2, <4>3 DEF Register!Next, Register!Acknowledge
    <3> QED
      BY <3>2, <3>3
  <2>8. CASE Still /\ call' = call
    BY <2>8, RegisterStays DEF Still, fileVars
  <2> QED
    BY <2>3, <2>4, <2>5, <2>6, <2>7, <2>8, StepKinds
<1> QED
  BY <1>3, <1>4

\* RegisterSpec: files, starts, recovery, crashes, losses of power and concurrent
\* commands implement the register, for every number of commands, every list of
\* targets and every combination of faults but a recovery that is cut short.
THEOREM SettingsAreARegister == Uninterrupted /\ Spec => RegisterSpec
<1>1. ConsentInv => CallsInv /\ StoppedInv
  BY DEF ConsentInv
<1>2. CallsInv /\ StoppedInv /\ FilesInv /\ FilesInv' /\ HonestInv /\ RegisterInv /\ [Next]_vars
        => [Register!Next]_(Register!registerVars)
  BY RegisterSteps
<1> QED
  BY <1>1, <1>2, RegisterBegins, FilesInvariance, HonestInvariance, RegisterInvariance,
     Consent, PTL DEF Spec, RegisterSpec, Register!Spec
=============================================================================
