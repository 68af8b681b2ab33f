---------------------------- MODULE ObjectDetails ----------------------------
(* What the object browser shows of one object: the panel with its details  *)
(* (ObjectDetailPanel) and the list of its versions (VersionsNavigator),    *)
(* which fetch when they see a flag of the store set, the effects that      *)
(* follow the path, and the dialogs that delete, restore or tag.  Answers   *)
(* come in any order, also to a panel that is gone, and find what there is  *)
(* then.  Versions are told apart by their object only.  Left out: leaving  *)
(* the bucket, rewind, metadata (for a preview) and what objects weigh.     *)
EXTENDS Naturals, Bags, BagsExt

CONSTANTS Objects, Longer,   \* the names that begin with an object's
          Folder, None,      \* a path that is no object; null
          MaxMoves           \* bound on what the user begins

(* What is assumed of the names. *)
Names ==
  /\ Folder # None /\ {Folder, None} \cap Objects = {}
  /\ Longer \in [Objects -> SUBSET Objects]

ASSUME NamesAssumption == Names

VARIABLES
  versioned,            \* distributedSetup
  path,                 \* internalPaths, of the address
  handled,              \* the path the effects of BrowserHandler ran on
  selected,             \* selectedInternalPaths
  versionsMode, selectedVersion,
  loadingObjectInfo, loadingVersions,
  panel, navigator,     \* the components' own state
  calls,                \* a bag: two may be alike
  moves,
  answered              \* auxiliary: the panel's last answer is to its last call

detailsStore == <<versionsMode, selectedVersion, loadingObjectInfo, loadingVersions>>
details == <<versioned, path, handled, selected, detailsStore, panel, navigator, calls,
             moves, answered>>

(* Just mounted.  "none" is what a state begins with, "empty" is emptyFile. *)
Panel == [info |-> "none", all |-> {}, of |-> None, seen |-> <<>>]
Navigator == [info |-> FALSE, versions |-> {}, seen |-> <<>>]

Shows == selected # None
Lists == Shows /\ versionsMode

(* A call, and to whom the answer goes: to the panel or navigator that has  *)
(* not asked since ("last") or has ("late"), or to none ("gone").           *)
Asked(kind) ==
  [kind |-> kind, object |-> selected, version |-> selectedVersion, to |-> "last"]
Pending(kind) == {c \in BagToSet(calls) : c.kind = kind}
Send(kind) ==
  calls' = BagAdd(BagOfAll(LAMBDA c : IF c.kind = kind /\ c.to = "last"
                                     THEN [c EXCEPT !.to = "late"] ELSE c, calls),
                  Asked(kind))

DetailsInit ==
  /\ versioned \in BOOLEAN /\ path \in Objects \cup {Folder} /\ handled = None
  /\ selected = None /\ versionsMode = FALSE /\ selectedVersion = None
  /\ loadingObjectInfo = TRUE /\ loadingVersions = TRUE
  /\ panel = Panel /\ navigator = Navigator /\ calls = EmptyBag
  /\ moves = 0 /\ answered = FALSE

(* The panel is kept from one object to the next, and is mounted anew after *)
(* none was selected; so is the navigator.  Each forgets what it had, and   *)
(* the answers on their way to it are ignored.                              *)
Mounting(before) ==
  LET shows == selected' # None
      lists == shows /\ versionsMode'
      gone == (IF shows THEN {} ELSE {"info"}) \cup (IF lists THEN {} ELSE {"versions"})
  IN /\ panel' = IF shows THEN panel ELSE Panel
     /\ navigator' = IF lists THEN navigator ELSE Navigator
     /\ calls' = BagOfAll(LAMBDA c : IF c.kind \in gone THEN [c EXCEPT !.to = "gone"] ELSE c,
                          before)
     /\ answered' = (answered /\ shows)

(* Mutant: the version that is selected stays so. *)
setVersionsModeEnabled_Keep(status) == versionsMode' = status /\ UNCHANGED selectedVersion

setVersionsModeEnabled(status) == versionsMode' = status /\ selectedVersion' = None

-----------------------------------------------------------------------------
(* Effects.  Those of a child run before its parent's, and all of them      *)
(* before the next handler.                                                 *)

(* Mutant: another object is no reason to ask again. *)
PanelDeps_NoPath == <<loadingObjectInfo, selectedVersion, panel.all, panel.of>>

PanelDeps == <<loadingObjectInfo, selected, selectedVersion, panel.all, panel.of>>
NavigatorDeps == <<loadingVersions, selected>>

PanelDue == Shows /\ panel.seen # PanelDeps
NavigatorDue == Lists /\ \/ navigator.seen # NavigatorDeps
                         \/ ~loadingVersions /\ ~navigator.info
DetailsSettled == ~PanelDue /\ ~NavigatorDue /\ handled = path

First(all, of) == IF of \in all THEN of ELSE CHOOSE o \in all : TRUE

(* The element shown of those found: the latest, or the version picked.     *)
Lookup(version, all, of) ==
  IF version = None THEN First(all, of) ELSE IF version \in all THEN version ELSE "empty"

(* The element the panel is about is looked up, with versions, and the      *)
(* listing is asked for if it is to be loaded.  The elements are no reason  *)
(* to ask: they come with the flag reset.                                   *)
PanelEffects ==
  /\ PanelDue
  /\ LET found == IF versioned /\ panel.all # {}
                  THEN Lookup(selectedVersion, panel.all, panel.of) ELSE panel.info
     IN /\ panel' = [panel EXCEPT !.info = found, !.seen = PanelDeps]
        /\ IF loadingObjectInfo
           THEN Send("info") /\ answered' = FALSE ELSE UNCHANGED <<calls, answered>>
  /\ UNCHANGED <<versioned, path, handled, selected, detailsStore, navigator, moves>>

(* A navigator without a file sets the flag, as often as the call fails. *)
NavigatorEffects ==
  /\ NavigatorDue /\ ~PanelDue
  /\ navigator' = [navigator EXCEPT !.seen = NavigatorDeps]
  /\ IF loadingVersions
     THEN Send("versions") /\ UNCHANGED loadingVersions
     ELSE loadingVersions' = ~navigator.info /\ UNCHANGED calls
  /\ UNCHANGED <<versioned, path, handled, selected, versionsMode, selectedVersion,
                 loadingObjectInfo, panel, moves, answered>>

(* BrowserHandler: the versions are left and the path's object is selected. *)
PathEffects ==
  /\ handled # path /\ ~PanelDue /\ ~NavigatorDue
  /\ handled' = path
  /\ setVersionsModeEnabled(FALSE)
  /\ IF path = Folder
     THEN selected' = None /\ UNCHANGED <<loadingObjectInfo, loadingVersions>>
     ELSE selected' = path /\ loadingObjectInfo' = TRUE /\ loadingVersions' = TRUE
  /\ Mounting(calls)
  /\ UNCHANGED <<versioned, path, moves>>

-----------------------------------------------------------------------------
(* Answers.                                                                 *)

Ends(c) == /\ DetailsSettled /\ BagIn(c, calls) /\ UNCHANGED <<versioned, handled, moves>>
Taken(c) == Ends(c) /\ calls' = BagRemove(calls, c)

Found(c) == SUBSET ({c.object} \cup IF c.object \in Objects THEN Longer[c.object] ELSE Objects)

(* To the panel that asked, or to none; the flag is reset in any case. *)
InfoAnswered(c, result) ==
  /\ c.kind = "info" /\ Taken(c)
  /\ loadingObjectInfo' = FALSE
  /\ IF c.to = "gone" THEN UNCHANGED <<panel, answered>>
     ELSE /\ panel' = IF versioned THEN [panel EXCEPT !.all = result, !.of = c.object]
                      ELSE [panel EXCEPT !.info = IF result = {} THEN "none"
                                                  ELSE First(result, c.object)]
          /\ answered' = (c.to = "last" /\ c.object \in result)
  /\ UNCHANGED <<path, selected, versionsMode, selectedVersion, loadingVersions, navigator>>

(* The names that only begin like the object's are filtered out. *)
VersionsAnswered(c, result) ==
  /\ c.kind = "versions" /\ Taken(c)
  /\ loadingVersions' = FALSE
  /\ navigator' = IF c.to = "gone" THEN navigator
                  ELSE [navigator EXCEPT !.info = TRUE, !.versions = result \cap {c.object}]
  /\ UNCHANGED <<path, selected, versionsMode, selectedVersion, loadingObjectInfo, panel,
                 answered>>

CallFails(c) ==
  /\ Taken(c)
  /\ loadingObjectInfo' = (loadingObjectInfo /\ c.kind # "info")
  /\ loadingVersions' = (loadingVersions /\ c.kind # "versions")
  /\ UNCHANGED <<path, selected, versionsMode, selectedVersion, panel, navigator, answered>>

(* onClosePanel: the address becomes the folder's. *)
LeavePanel(before) ==
  /\ selected' = None /\ setVersionsModeEnabled(FALSE) /\ path' = Folder
  /\ Mounting(before)
  /\ UNCHANGED <<loadingObjectInfo, loadingVersions>>

(* A dialog is done; the panel that it was opened from may have changed. *)
Deleted(c) ==
  /\ c.kind = "delete" /\ c.version = None /\ Ends(c)
  /\ LeavePanel(BagRemove(calls, c))

Changed(c) ==
  /\ c.kind \in {"prune", "restore", "tags", "delete"}
  /\ c.kind = "delete" => c.version # None
  /\ Taken(c)
  /\ loadingObjectInfo' = TRUE
  /\ loadingVersions' = (loadingVersions \/ c.kind # "tags")
  /\ selectedVersion' = IF c.kind \in {"prune", "delete"} THEN None ELSE selectedVersion
  /\ UNCHANGED <<path, selected, versionsMode, panel, navigator, answered>>

-----------------------------------------------------------------------------
(* The user, and the list that has come.                                    *)

Move == /\ DetailsSettled /\ moves < MaxMoves /\ moves' = moves + 1
        /\ UNCHANGED <<versioned, handled>>

(* openPath: a row of the table, which versions take the place of. *)
OpenPath(p) ==
  /\ Move /\ ~versionsMode
  /\ path' = p /\ selected' = p /\ loadingVersions' = TRUE
  /\ UNCHANGED <<versionsMode, selectedVersion, loadingObjectInfo>> /\ Mounting(calls)

(* Back, forward or a breadcrumb. *)
Travel(p) ==
  /\ Move /\ path # p /\ path' = p
  /\ UNCHANGED <<selected, detailsStore, panel, navigator, calls, answered>>

ClosePanel == Move /\ Shows /\ LeavePanel(calls)

(* Boxes of the table are checked: the panel lists actions, the path stays. *)
SelectRows ==
  /\ Move /\ Shows /\ ~versionsMode
  /\ selected' = None /\ UNCHANGED <<path, detailsStore>> /\ Mounting(calls)

PanelRendered == Shows /\ ~loadingObjectInfo /\ panel.info # "none"

ToggleVersions ==
  /\ Move /\ PanelRendered /\ versioned /\ panel.info # "empty"
  /\ setVersionsModeEnabled(~versionsMode)
  /\ UNCHANGED <<path, selected, loadingObjectInfo, loadingVersions>> /\ Mounting(calls)

PickVersion ==
  /\ Move /\ Lists
  /\ \E v \in navigator.versions : selectedVersion' = v
  /\ UNCHANGED <<path, selected, versionsMode, loadingObjectInfo, loadingVersions, panel,
                 navigator, calls, answered>>

(* A dialog is confirmed.  One over several versions (prune) sends again    *)
(* whenever its parent renders before the answer.                           *)
Confirm(kind) ==
  /\ Move
  /\ IF kind \in {"delete", "tags"} THEN PanelRendered ELSE Lists /\ navigator.info
  /\ kind = "tags" => selectedVersion = None
  /\ calls' = BagAdd(calls, Asked(kind))
  /\ UNCHANGED <<path, selected, detailsStore, panel, navigator, answered>>

(* The dialog to delete is closed with nothing deleted. *)
CancelDelete ==
  /\ Move /\ PanelRendered
  /\ loadingVersions' = TRUE /\ loadingObjectInfo' = TRUE /\ selectedVersion' = None
  /\ UNCHANGED <<path, selected, versionsMode, panel, navigator, calls, answered>>

RefreshVersions ==
  /\ Move /\ versionsMode /\ loadingVersions' = TRUE
  /\ UNCHANGED <<path, selected, versionsMode, selectedVersion, loadingObjectInfo, panel,
                 navigator, calls, answered>>

(* The way back of the breadcrumbs, or a path load once the list has come. *)
LeaveVersions ==
  /\ Move /\ setVersionsModeEnabled(FALSE)
  /\ UNCHANGED <<path, selected, loadingObjectInfo, loadingVersions>> /\ Mounting(calls)

-----------------------------------------------------------------------------
DetailsNext ==
  \/ PanelEffects \/ NavigatorEffects \/ PathEffects
  \/ \E c \in Pending("info") : \E result \in Found(c) : InfoAnswered(c, result)
  \/ \E c \in Pending("versions") : \E result \in Found(c) : VersionsAnswered(c, result)
  \/ \E c \in BagToSet(calls) : CallFails(c) \/ Deleted(c) \/ Changed(c)
  \/ \E p \in Objects \cup {Folder} : OpenPath(p) \/ Travel(p)
  \/ ClosePanel \/ SelectRows \/ ToggleVersions \/ PickVersion
  \/ \E kind \in {"delete", "tags", "prune", "restore"} : Confirm(kind)
  \/ CancelDelete \/ RefreshVersions \/ LeaveVersions
DetailsSpec == DetailsInit /\ [][DetailsNext]_details

-----------------------------------------------------------------------------
(* Properties.                                                              *)

(* The panel is about the selected object once its last call has been       *)
(* answered and found it, whatever was selected, left or asked before.  (A  *)
(* call that fails or finds nothing, or an answer that comes late, leave    *)
(* another object's details beside the buttons that act on this one.)       *)
DetailsOfSelection ==
  DetailsSettled /\ Shows /\ answered /\ selected \in Objects => panel.info \in {selected, "empty"}

(* The version that a deletion names is one of the object it names, though  *)
(* one comes from the list of versions and the other from the path.         *)
DeletesOwnVersion ==
  \A c \in Pending("delete") : c.version \in {None, c.object}
=============================================================================
