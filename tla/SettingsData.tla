---------------------------- MODULE SettingsData ----------------------------
(***************************************************************************)
(* The settings document and what the backend computes about it: the      *)
(* launcher list with its ids, orders and limit, the commands as functions *)
(* from one document to the next, and the decoding of a file.  A section   *)
(* no property tells apart from another (channel, voice, rules) is left    *)
(* out; the destination of the speech, the launcher items and the window   *)
(* position stand for the document.                                        *)
(***************************************************************************)
EXTENDS Naturals, SequencesExt

CONSTANTS
  Targets,       \* the applications that can be registered
  HashOf,        \* the hash of the path of a target; two may collide
  MaxItems,      \* MAX_LAUNCHER_ITEMS
  LocalHost,     \* a host of this computer
  RemoteHosts,   \* hosts whose addresses the resolver decides
  Dests          \* the destinations users choose: host and remote mode

ASSUME SettingsAssumption ==
  /\ MaxItems \in Nat \ {0}
  /\ LocalHost \notin RemoteHosts
  /\ DOMAIN HashOf = Targets
  /\ Dests \subseteq [host : {LocalHost} \cup RemoteHosts, remote : BOOLEAN]

-----------------------------------------------------------------------------
(* Launcher items. *)

\* The lists that pass validation: nothing twice, and no more than a list may hold.
Arrangements(S) == {list \in SeqOf(S, MaxItems) : IsInjective(list)}

ItemIds(items) == {items[i].id : i \in DOMAIN items}
ItemTargets(items) == {items[i].target : i \in DOMAIN items}

\* The base id is the hash of the path; a taken one gets the first free suffix.
ItemId(target, used) ==
  <<HashOf[target],
    CHOOSE n \in 1 .. Cardinality(used) + 1 :
      /\ <<HashOf[target], n>> \notin used
      /\ \A k \in 1 .. n - 1 : <<HashOf[target], k>> \in used>>

NextOrder(items) ==
  IF items = <<>> THEN 0 ELSE 1 + Max({items[i].order : i \in DOMAIN items})

NewLauncherItem(items, target) ==
  [id |-> ItemId(target, ItemIds(items)), target |-> target,
   order |-> NextOrder(items)]

\* Registering targets in a list, known ones left out; the limit refuses all.
Extended(items, targets) ==
  FoldLeft(LAMBDA acc, target :
             IF target \in ItemTargets(acc.items) THEN acc
             ELSE IF Len(acc.items) >= MaxItems THEN [acc EXCEPT !.ok = FALSE]
             ELSE [acc EXCEPT !.items =
                     Append(@, NewLauncherItem(acc.items, target))],
           [ok |-> TRUE, items |-> items], targets)

\* validate_launcher_structure
StructureValid(items) ==
  /\ Len(items) <= MaxItems
  /\ Cardinality(ItemIds(items)) = Len(items)
  /\ Cardinality(ItemTargets(items)) = Len(items)

\* Editing keeps exactly the items the edits name, in their order, and may
\* only name registered ones.
EditsKnown(items, ids) == ToSet(ids) \subseteq ItemIds(items)
Edited(items, ids) ==
  [i \in DOMAIN ids |->
     [(CHOOSE item \in ToSet(items) : item.id = ids[i]) EXCEPT !.order = i - 1]]

-----------------------------------------------------------------------------
(* Documents. *)

WindowPositions == 0 .. 1

DefaultSettings ==
  [dest |-> [host |-> LocalHost, remote |-> FALSE], items |-> <<>>, window |-> 0]

\* What a command asks for.
DestPatch(dest) == [kind |-> "dest", dest |-> dest]
ItemsPatch(ids) == [kind |-> "items", ids |-> ids]
AddItems(targets) == [kind |-> "add", targets |-> targets]
RemoveItem(id) == [kind |-> "remove", id |-> id]
MoveWindow(position) == [kind |-> "window", position |-> position]

Refusal == [ok |-> FALSE, settings |-> DefaultSettings]
Accepted(settings) ==
  [ok |-> StructureValid(settings.items), settings |-> settings]

\* The update closure of each command, applied to the settings it is given.
Candidate(settings, request) ==
  CASE request.kind = "dest" -> Accepted([settings EXCEPT !.dest = request.dest])
    [] request.kind = "window" ->
         Accepted([settings EXCEPT !.window = request.position])
    [] request.kind = "items" ->
         IF EditsKnown(settings.items, request.ids)
         THEN Accepted([settings EXCEPT !.items = Edited(@, request.ids)])
         ELSE Refusal
    [] request.kind = "add" ->
         LET merged == Extended(settings.items, request.targets)
         IN  IF merged.ok
             THEN Accepted([settings EXCEPT !.items = merged.items])
             ELSE Refusal
    [] request.kind = "remove" ->
         IF request.id \in ItemIds(settings.items)
         THEN Accepted([settings EXCEPT !.items =
                          SelectSeq(@, LAMBDA item : item.id # request.id)])
         ELSE Refusal

-----------------------------------------------------------------------------
(* Files: "current" is what this version writes, "old" a document without a *)
(* version, "extra" one with fields this version does not know, "future" one *)
(* of a later version, "damaged" one that cannot be decoded.                 *)

FileKinds == {"missing", "current", "old", "extra", "future", "damaged"}
File(kind, settings) == [kind |-> kind, settings |-> settings]
Missing == File("missing", DefaultSettings)
Damaged == File("damaged", DefaultSettings)
Current(settings) == File("current", settings)

Decodable(file) == file.kind \in {"current", "old", "extra", "future"}
ReadOnlyFile(file) == file.kind \in {"extra", "future"}
NeedsResave(file) == file.kind = "old"
Decoded(file) == IF file.kind = "future" THEN DefaultSettings ELSE file.settings
=============================================================================
