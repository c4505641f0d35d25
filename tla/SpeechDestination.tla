------------------------- MODULE SpeechDestination -------------------------
(***************************************************************************)
(* The privacy boundary of the speech destination.  A connection goes only *)
(* to this computer, or in remote mode to the private addresses the user   *)
(* confirmed in a native dialog.  The dialog and the resolver are awaited  *)
(* without a lock, while settings are published and DNS answers change.    *)
(***************************************************************************)
EXTENDS SettingsCommands

VARIABLES
  dns,         \* what the resolver answers for each remote host
  asking,      \* the holder of DestinationPolicy::pending
  confirmed    \* what the user said yes to since the start

policyVars == <<dns, asking, confirmed>>

\* "loop" stands for addresses of this computer, "lan" and "vpn" for two sets of
\* private addresses, "public" for a set that has any other, "none" for failure.
Answers == {"loop", "lan", "vpn", "public", "none"}
Private(addresses) == addresses \in {"loop", "lan", "vpn"}
Identity(dest, addresses) == [host |-> dest.host, addresses |-> addresses]

PolicyInit ==
  /\ dns = [h \in RemoteHosts |-> "lan"]
  /\ asking = NoActor
  /\ confirmed = {}

Resolve(dest) == IF dest.host = LocalHost THEN "loop" ELSE dns[dest.host]

\* Answers that change while nobody resolves are seen by the next who does, so
\* it is enough to change them then.
DnsChanges ==
  /\ "dns" \in Faults
  /\ \E c \in Commands : call[c].pc \in {"resolve", "ask", "again", "dial"}
  /\ \E h \in RemoteHosts, answer \in Answers :
       answer # dns[h] /\ dns' = [dns EXCEPT ![h] = answer]
  /\ UNCHANGED <<asking, confirmed, commandVars, approved, fileVars>>

Refused(c) ==
  /\ Return(c)
  /\ asking' = IF asking = c THEN NoActor ELSE asking

-----------------------------------------------------------------------------
(* speech_authorize_endpoint *)

\* One confirmation at a time, of the destination the settings have now.
BeginAuthorize(c) ==
  /\ settings.dest.remote /\ asking = NoActor
  /\ Begin(c, "authorize", [Idle EXCEPT !.pc = "resolve", !.dest = settings.dest])
  /\ asking' = c
  /\ UNCHANGED <<dns, confirmed, settings, transaction, approved, fileVars>>

\* An older approval does not outlive the new question.  The limit of one
\* question in 30 seconds may refuse any of them.
AuthorizeAsks(c) ==
  LET addresses == Resolve(call[c].dest)
  IN  /\ At(c, "resolve")
      /\ \/ Refused(c) /\ UNCHANGED approved
         \/ /\ Private(addresses)
            /\ approved' = NoApproval
            /\ Become(c, [call[c] EXCEPT !.pc = "ask", !.found = addresses])
            /\ UNCHANGED asking
      /\ UNCHANGED <<dns, confirmed, settings, transaction, calls, fileVars>>

UserAnswers(c) ==
  /\ At(c, "ask")
  /\ \/ Refused(c) /\ UNCHANGED confirmed
     \/ /\ confirmed' = confirmed \cup {Identity(call[c].dest, call[c].found)}
        /\ Become(c, [call[c] EXCEPT !.pc = "again"])
        /\ UNCHANGED asking
  /\ UNCHANGED <<dns, settings, transaction, calls, approved, fileVars>>

AuthorizeResolvesAgain(c) ==
  /\ At(c, "again")
  /\ IF Resolve(call[c].dest) = call[c].found
     THEN Become(c, [call[c] EXCEPT !.pc = "install"]) /\ asking' = NoActor
     ELSE Refused(c)
  /\ UNCHANGED <<dns, confirmed, settings, transaction, calls, approved, fileVars>>

\* Fault: the settings are not compared with those the user was asked about.
InstallUncompared(c) ==
  /\ At(c, "install")
  /\ approved' = Identity(call[c].dest, call[c].found)
  /\ Return(c)
  /\ UNCHANGED <<policyVars, settings, transaction, calls, fileVars>>

\* Under the lock of the settings, and only for the destination they still have.
InstallApproval(c) ==
  /\ At(c, "install")
  /\ approved' = IF settings.dest = call[c].dest
                 THEN Identity(call[c].dest, call[c].found) ELSE approved
  /\ Return(c)
  /\ UNCHANGED <<policyVars, settings, transaction, calls, fileVars>>

-----------------------------------------------------------------------------
(* connection_addresses, for every connection of the speech adapter *)

BeginDial(c) ==
  /\ Begin(c, "dial", [Idle EXCEPT !.pc = "dial", !.dest = settings.dest])
  /\ UNCHANGED <<policyVars, settings, transaction, approved, fileVars>>

\* Addresses other than the approved ones end the approval for good.
DialResolves(c) ==
  LET addresses == Resolve(call[c].dest)
  IN  /\ At(c, "dial")
      /\ IF addresses = "none"
         THEN approved' = NoApproval /\ Return(c)
         ELSE /\ approved' = IF approved = Identity(call[c].dest, addresses)
                             THEN approved ELSE NoApproval
              /\ Become(c, [call[c] EXCEPT !.pc = "check", !.found = addresses])
      /\ UNCHANGED <<policyVars, settings, transaction, calls, fileVars>>

\* Fault: an approval of the host is one of whatever addresses it has.
MayDialHost(dest, addresses) ==
  \/ addresses = "loop"
  \/ /\ dest.remote /\ Private(addresses)
     /\ approved # NoApproval /\ approved.host = dest.host

MayDial(dest, addresses) ==
  \/ addresses = "loop"
  \/ /\ dest.remote /\ Private(addresses)
     /\ approved = Identity(dest, addresses)

\* The caller connects to the addresses that were checked.
DialDecides(c) ==
  /\ At(c, "check")
  /\ IF MayDial(call[c].dest, call[c].found)
     THEN Become(c, [call[c] EXCEPT !.pc = "connected"])
     ELSE Return(c)
  /\ UNCHANGED <<policyVars, settings, transaction, calls, approved, fileVars>>

HangUp(c) ==
  /\ At(c, "connected")
  /\ Return(c)
  /\ UNCHANGED <<policyVars, settings, transaction, calls, approved, fileVars>>

\* The consent is kept in memory only.
PolicyEnds ==
  /\ asking' = NoActor
  /\ confirmed' = {}
  /\ UNCHANGED dns
=============================================================================
