------------------------- MODULE ObjectDetailsProofs -------------------------
(* Safety of ObjectDetails for any objects and whatever the user does: what   *)
(* the panel shows after the answer to its last call, and the version that a  *)
(* deletion names.  Each is a fact about where a call was sent from and what  *)
(* was selected since, so the invariant says which calls can still reach      *)
(* which component, and about what.                                           *)
EXTENDS ObjectDetails, TLAPS

Elements == Objects \cup {Folder}
Choice == Elements \cup {None}
Calls == [kind : {"info", "versions", "delete", "tags", "prune", "restore"},
          object : Choice, version : Choice, to : {"last", "late", "gone"}]

Typed ==
  /\ versioned \in BOOLEAN /\ path \in Elements /\ handled \in Choice
  /\ selected \in Choice /\ versionsMode \in BOOLEAN /\ selectedVersion \in Choice
  /\ loadingObjectInfo \in BOOLEAN /\ loadingVersions \in BOOLEAN
  /\ panel \in [info : Choice \cup {"none", "empty"}, all : SUBSET Choice, of : Choice,
                seen : {<<>>} \cup (BOOLEAN \X Choice \X Choice \X (SUBSET Choice) \X Choice)]
  /\ navigator \in [info : BOOLEAN, versions : SUBSET Choice,
                    seen : {<<>>} \cup (BOOLEAN \X Choice)]
  /\ BagToSet(calls) \subseteq Calls
  /\ answered \in BOOLEAN

-----------------------------------------------------------------------------
(* The invariant.                                                           *)

(* Whom an answer can still reach. *)
Reaching(kind) == {c \in Pending(kind) : c.to # "gone"}
LastInfo == {c \in Pending("info") : c.to = "last"}

(* The effects of the path, or of the panel, are about to ask again. *)
AskAgain == handled # path \/ (PanelDue /\ loadingObjectInfo)

(* What the path's effects left selected is the path's. *)
PathSelected == handled = path /\ Shows => selected = path

(* What is not shown is as if just mounted, and no answer reaches it. *)
Unmounted ==
  /\ ~Shows => panel = Panel /\ ~answered /\ Reaching("info") = {}
  /\ ~Lists => /\ navigator = Navigator /\ selectedVersion = None
               /\ Reaching("versions") = {}

(* While versions are listed the selection cannot change. *)
OwnVersions ==
  /\ navigator.versions \subseteq {selected}
  /\ selectedVersion \in {None, selected}
  /\ \A c \in Reaching("versions") : c.object = selected

(* If the effect saw the flag, it asked, about what it saw selected, and as *)
(* long as the flag is set there was no answer.                             *)
SawFlag == panel.seen # <<>> /\ panel.seen[1] = TRUE
AskedAsSeen == SawFlag => \A c \in LastInfo : c.object = panel.seen[2]
FlagUnanswered == SawFlag /\ loadingObjectInfo => ~answered

(* The last call, and its answer, are about the selection.                  *)
LastOfSelection == ~AskAgain => \A c \in LastInfo : c.object = selected
AnswerOfSelection ==
  ~AskAgain /\ answered /\ selected \in Objects =>
    IF versioned THEN panel.of = selected /\ selected \in panel.all
    ELSE panel.info = selected

(* With versions, the element shown was looked up in what the effect saw.   *)
LookedUp ==
  versioned /\ panel.seen # <<>> /\ panel.seen[4] # {} =>
    panel.info = Lookup(panel.seen[3], panel.seen[4], panel.seen[5])

IInv ==
  /\ Typed /\ PathSelected /\ Unmounted /\ OwnVersions /\ DeletesOwnVersion
  /\ AskedAsSeen /\ FlagUnanswered /\ LastOfSelection /\ AnswerOfSelection /\ LookedUp

-----------------------------------------------------------------------------
(* Calls in the bag.                                                        *)

LEMMA AddedCalls == \A B, x : BagToSet(BagAdd(B, x)) = BagToSet(B) \cup {x}
BY DEF BagAdd, BagToSet

LEMMA RemovedCalls == \A B, x : BagToSet(BagRemove(B, x)) \subseteq BagToSet(B)
BY DEF BagRemove, BagToSet

(* A call that is answered makes no call reach further. *)
LEMMA TakenCalls ==
  ASSUME NEW c, Taken(c)
  PROVE  BagToSet(calls') \subseteq BagToSet(calls)
BY RemovedCalls DEF Taken

(* To ask again makes the earlier calls of the kind late. *)
LEMMA SentCalls ==
  ASSUME NEW kind, Send(kind)
  PROVE  \A c \in BagToSet(calls') :
           c = Asked(kind) \/ \E d \in BagToSet(calls) :
             c = IF d.kind = kind /\ d.to = "last" THEN [d EXCEPT !.to = "late"] ELSE d
<1> DEFINE Late(d) == IF d.kind = kind /\ d.to = "last" THEN [d EXCEPT !.to = "late"] ELSE d
<1>1. calls' = BagAdd(BagOfAll(Late, calls), Asked(kind))
  BY DEF Send
<1>2. BagToSet(BagOfAll(Late, calls)) = {Late(d) : d \in BagToSet(calls)}
  BY DEF BagOfAll, BagToSet
<1>3. BagToSet(calls') = {Late(d) : d \in BagToSet(calls)} \cup {Asked(kind)}
  <2> DEFINE late == BagOfAll(Late, calls)
  <2>1. calls' = BagAdd(late, Asked(kind)) /\ BagToSet(late) = {Late(d) : d \in BagToSet(calls)}
    BY <1>1, <1>2
  <2> HIDE DEF late, Late
  <2>2. BagToSet(BagAdd(late, Asked(kind))) = BagToSet(late) \cup {Asked(kind)}
    BY AddedCalls
  <2> QED BY <2>1, <2>2
<1> HIDE DEF Late
<1>4. \A c \in BagToSet(calls') : c = Asked(kind) \/ \E d \in BagToSet(calls) : c = Late(d)
  BY <1>3
<1> QED BY <1>4 DEF Late

(* What is not mounted leaves its calls without one to answer. *)
NoneAsks(kind) == (kind = "info" /\ ~Shows) \/ (kind = "versions" /\ ~Lists)

LEMMA MountedCalls ==
  ASSUME NEW before, Mounting(before)
  PROVE  \A c \in BagToSet(calls') : \E d \in BagToSet(before) :
           c = IF NoneAsks(d.kind)' THEN [d EXCEPT !.to = "gone"] ELSE d
<1> DEFINE gone == (IF selected' # None THEN {} ELSE {"info"})
                     \cup (IF selected' # None /\ versionsMode' THEN {} ELSE {"versions"})
           Gone(d) == IF d.kind \in gone THEN [d EXCEPT !.to = "gone"] ELSE d
<1>1. calls' = BagOfAll(Gone, before)
  BY DEF Mounting
<1>2. BagToSet(BagOfAll(Gone, before)) = {Gone(d) : d \in BagToSet(before)}
  BY DEF BagOfAll, BagToSet
<1>3. \A d : d.kind \in gone <=> NoneAsks(d.kind)'
  BY DEF NoneAsks, Shows, Lists
<1> HIDE DEF gone
<1> QED BY <1>1, <1>2, <1>3

(* The calls of a typed state, after the panel or the navigator asked. *)
LEMMA CallsAfterSend ==
  ASSUME Typed, NEW kind \in {"info", "versions"}, Send(kind)
  PROVE  /\ BagToSet(calls)' \subseteq Calls
         /\ Pending("delete")' \subseteq Pending("delete")
         /\ kind = "info" => /\ LastInfo' \subseteq {Asked("info")}
                             /\ Reaching("versions")' \subseteq Reaching("versions")
         /\ kind = "versions" =>
              /\ LastInfo' \subseteq LastInfo /\ Reaching("info")' \subseteq Reaching("info")
              /\ \A c \in Reaching("versions")' :
                   c.object = selected \/ \E d \in Reaching("versions") : c.object = d.object
<1> DEFINE Late(d) == IF d.kind = kind /\ d.to = "last" THEN [d EXCEPT !.to = "late"] ELSE d
<1>1. Asked(kind) \in Calls /\ Asked(kind).kind = kind /\ Asked(kind).object = selected
  BY DEF Asked, Calls, Typed
<1>2. ASSUME NEW d \in BagToSet(calls)
      PROVE  /\ Late(d) \in Calls /\ Late(d).kind = d.kind /\ Late(d).object = d.object
             /\ Late(d).to = "last" => Late(d) = d /\ d.kind # kind
             /\ Late(d).to = "gone" <=> d.to = "gone"
             /\ d.kind # kind => Late(d) = d
  BY <1>2 DEF Typed, Calls
<1>3. \A c \in BagToSet(calls)' : c = Asked(kind) \/ \E d \in BagToSet(calls) : c = Late(d)
  BY SentCalls DEF BagToSet
<1> HIDE DEF Late
<1>4. BagToSet(calls)' \subseteq Calls
  BY <1>1, <1>2, <1>3
<1>5. Pending("delete")' \subseteq Pending("delete")
  BY <1>1, <1>2, <1>3 DEF Pending
<1>6. CASE kind = "info"
  <2>1. LastInfo' \subseteq {Asked("info")}
    BY <1>1, <1>2, <1>3, <1>6 DEF LastInfo, Pending
  <2>2. Reaching("versions")' \subseteq Reaching("versions")
    BY <1>1, <1>2, <1>3, <1>6 DEF Reaching, Pending
  <2> QED BY <1>4, <1>5, <1>6, <2>1, <2>2
<1>7. CASE kind = "versions"
  <2>1. LastInfo' \subseteq LastInfo
    BY <1>1, <1>2, <1>3, <1>7 DEF LastInfo, Pending
  <2>2. Reaching("info")' \subseteq Reaching("info")
    BY <1>1, <1>2, <1>3, <1>7 DEF Reaching, Pending
  <2>3. ASSUME NEW c \in Reaching("versions")'
        PROVE  c.object = selected \/ \E d \in Reaching("versions") : c.object = d.object
    BY <1>1, <1>2, <1>3, <1>7 DEF Reaching, Pending
  <2> QED BY <1>4, <1>5, <1>7, <2>1, <2>2, <2>3
<1> QED BY <1>6, <1>7

(* And after something was mounted or unmounted. *)
LEMMA CallsAfterMounting ==
  ASSUME Typed, NEW before, BagToSet(before) \subseteq BagToSet(calls), Mounting(before)
  PROVE  /\ BagToSet(calls)' \subseteq Calls
         /\ Pending("delete")' \subseteq Pending("delete")
         /\ LastInfo' \subseteq LastInfo /\ Reaching("versions")' \subseteq Reaching("versions")
         /\ ~Shows' => Reaching("info")' = {} /\ LastInfo' = {}
         /\ ~Lists' => Reaching("versions")' = {}
<1> DEFINE Gone(d) == IF NoneAsks(d.kind)' THEN [d EXCEPT !.to = "gone"] ELSE d
<1>1. ASSUME NEW d \in BagToSet(calls)
      PROVE  /\ Gone(d) \in Calls /\ Gone(d).kind = d.kind
             /\ Gone(d).to # "gone" => Gone(d) = d
             /\ d.kind = "delete" => Gone(d) = d
             /\ NoneAsks(d.kind)' => Gone(d).to = "gone"
  <2>1. d \in Calls
    BY <1>1 DEF Typed
  <2>2. [d EXCEPT !.to = "gone"] \in Calls /\ [d EXCEPT !.to = "gone"].to = "gone"
        /\ [d EXCEPT !.to = "gone"].kind = d.kind
    BY <2>1 DEF Calls
  <2>3. CASE NoneAsks(d.kind)'
    <3>1. Gone(d) = [d EXCEPT !.to = "gone"] /\ d.kind # "delete"
      BY <2>3 DEF NoneAsks
    <3> QED BY <2>2, <3>1
  <2>4. CASE ~NoneAsks(d.kind)'
    BY <2>1, <2>4
  <2> QED BY <2>3, <2>4
<1>2. \A c \in BagToSet(calls)' : \E d \in BagToSet(calls) : c = Gone(d)
  BY MountedCalls DEF BagToSet
<1> HIDE DEF Gone
<1>3. BagToSet(calls)' \subseteq Calls
  BY <1>1, <1>2
<1>4. Pending("delete")' \subseteq Pending("delete")
  BY <1>1, <1>2 DEF Pending
<1>5. LastInfo' \subseteq LastInfo /\ Reaching("versions")' \subseteq Reaching("versions")
  BY <1>1, <1>2 DEF LastInfo, Reaching, Pending
<1>6. ~Shows' => Reaching("info")' = {} /\ LastInfo' = {}
  BY <1>1, <1>2 DEF NoneAsks, LastInfo, Reaching, Pending
<1>7. ~Lists' => Reaching("versions")' = {}
  BY <1>1, <1>2 DEF NoneAsks, Reaching, Pending
<1> QED BY <1>3, <1>4, <1>5, <1>6, <1>7

(* Answers and failures only take calls away. *)
LEMMA CallsAfterTaking ==
  ASSUME Typed, BagToSet(calls') \subseteq BagToSet(calls)
  PROVE  /\ BagToSet(calls)' \subseteq Calls
         /\ \A kind \in {"info", "versions", "delete"} :
              Pending(kind)' \subseteq Pending(kind) /\ Reaching(kind)' \subseteq Reaching(kind)
         /\ LastInfo' \subseteq LastInfo
<1>1. BagToSet(calls)' \subseteq BagToSet(calls)
  BY DEF BagToSet
<1> QED BY <1>1 DEF Typed, Pending, Reaching, LastInfo

-----------------------------------------------------------------------------
(* Steps.                                                                   *)

LEMMA Sees ==
  ASSUME Typed, Shows, ~PanelDue
  PROVE  /\ panel.seen = <<loadingObjectInfo, selected, selectedVersion, panel.all, panel.of>>
         /\ panel.seen # <<>>
         /\ panel.seen[1] = loadingObjectInfo /\ panel.seen[2] = selected
         /\ panel.seen[3] = selectedVersion /\ panel.seen[4] = panel.all
         /\ panel.seen[5] = panel.of
BY DEF PanelDue, PanelDeps

(* At rest nothing will be asked again. *)
LEMMA AtRest == DetailsSettled => ~AskAgain
BY DEF DetailsSettled, AskAgain

LEMMA DetailsAtFirst == Names /\ DetailsInit => IInv
<1> SUFFICES ASSUME Names, DetailsInit PROVE IInv
  OBVIOUS
<1>1. BagToSet(calls) = {}
  BY DEF DetailsInit, BagToSet, EmptyBag, SetToBag
<1>2. Typed
  BY <1>1 DEF DetailsInit, Names, Typed, Panel, Navigator, Elements, Choice
<1>3. Pending("info") = {} /\ Pending("versions") = {} /\ Pending("delete") = {}
  BY <1>1 DEF Pending
<1>4. panel = Panel /\ panel.seen = <<>> /\ navigator = Navigator /\ navigator.versions = {}
  BY DEF DetailsInit, Panel, Navigator
<1>5. Unmounted /\ OwnVersions /\ DeletesOwnVersion
  BY <1>3, <1>4 DEF DetailsInit, Unmounted, OwnVersions, DeletesOwnVersion, Reaching
<1>6. PathSelected /\ ~answered /\ LastInfo = {}
  BY <1>3 DEF DetailsInit, PathSelected, Shows, LastInfo
<1> QED
  BY <1>2, <1>4, <1>5, <1>6
  DEF IInv, AskedAsSeen, FlagUnanswered, SawFlag, LastOfSelection, AnswerOfSelection, LookedUp

(* The panel looks its element up; it has asked about the selection, or     *)
(* nothing was to ask.                                                      *)
LEMMA PanelStep ==
  ASSUME IInv, PanelEffects
  PROVE  IInv'
<1>0. /\ Typed /\ PathSelected /\ Unmounted /\ OwnVersions /\ DeletesOwnVersion
      /\ LastOfSelection /\ AnswerOfSelection /\ LookedUp
  BY DEF IInv
<1>1. /\ UNCHANGED <<versioned, path, handled, selected, versionsMode, selectedVersion,
                     loadingObjectInfo, loadingVersions, navigator>>
      /\ Shows
  BY DEF PanelEffects, detailsStore, PanelDue
<1> DEFINE found == IF versioned /\ panel.all # {}
                    THEN Lookup(selectedVersion, panel.all, panel.of) ELSE panel.info
<1>2. panel' = [panel EXCEPT !.info = found, !.seen = PanelDeps]
  BY DEF PanelEffects
<1>3. found \in Choice \cup {"none", "empty"}
  <2>1. panel.all \subseteq Choice /\ panel.info \in Choice \cup {"none", "empty"}
    BY <1>0 DEF Typed
  <2>2. panel.all # {} => First(panel.all, panel.of) \in panel.all
    BY DEF First
  <2> QED BY <2>1, <2>2 DEF Lookup
<1>4. versioned /\ panel.all # {} => found = Lookup(selectedVersion, panel.all, panel.of)
  OBVIOUS
<1>5. ~versioned => found = panel.info
  OBVIOUS
<1> HIDE DEF found
<1>6. /\ panel'.info = found /\ panel'.all = panel.all /\ panel'.of = panel.of
      /\ panel'.seen = <<loadingObjectInfo, selected, selectedVersion, panel.all, panel.of>>
  BY <1>0, <1>2 DEF Typed, PanelDeps
<1>7. /\ panel'.seen # <<>> /\ panel'.seen[1] = loadingObjectInfo /\ panel'.seen[2] = selected
      /\ panel'.seen[3] = selectedVersion /\ panel'.seen[4] = panel.all
      /\ panel'.seen[5] = panel.of
  BY <1>6
<1>8. panel' \in [info : Choice \cup {"none", "empty"}, all : SUBSET Choice, of : Choice,
                  seen : {<<>>} \cup (BOOLEAN \X Choice \X Choice \X (SUBSET Choice) \X Choice)]
  <2>1. PanelDeps \in BOOLEAN \X Choice \X Choice \X (SUBSET Choice) \X Choice
    BY <1>0 DEF Typed, PanelDeps
  <2> QED BY <1>0, <1>2, <1>3, <2>1 DEF Typed
<1>9. LookedUp'
  BY <1>1, <1>4, <1>6, <1>7 DEF LookedUp
<1>10. CASE loadingObjectInfo
  <2>1. Send("info") /\ answered' = FALSE
    BY <1>10 DEF PanelEffects
  <2>2. /\ BagToSet(calls)' \subseteq Calls
        /\ Pending("delete")' \subseteq Pending("delete")
        /\ LastInfo' \subseteq {Asked("info")}
        /\ Reaching("versions")' \subseteq Reaching("versions")
    BY <1>0, <2>1, CallsAfterSend
  <2>3. Asked("info").object = selected
    BY DEF Asked
  <2>4. Typed' /\ PathSelected' /\ Unmounted'
    BY <1>0, <1>1, <1>8, <2>1, <2>2 DEF Typed, PathSelected, Unmounted, Shows, Lists
  <2>5. OwnVersions' /\ DeletesOwnVersion'
    BY <1>0, <1>1, <2>2 DEF OwnVersions, DeletesOwnVersion
  <2>6. AskedAsSeen' /\ FlagUnanswered' /\ LastOfSelection' /\ AnswerOfSelection'
    BY <1>1, <1>7, <2>1, <2>2, <2>3
    DEF AskedAsSeen, FlagUnanswered, LastOfSelection, AnswerOfSelection
  <2> QED BY <1>9, <2>4, <2>5, <2>6 DEF IInv
<1>11. CASE ~loadingObjectInfo
  <2>1. UNCHANGED <<calls, answered>>
    BY <1>11 DEF PanelEffects
  <2>2. /\ BagToSet(calls)' = BagToSet(calls) /\ LastInfo' = LastInfo
        /\ \A kind \in {"info", "versions", "delete"} :
             Pending(kind)' = Pending(kind) /\ Reaching(kind)' = Reaching(kind)
    BY <2>1 DEF LastInfo, Pending, Reaching
  <2>3. Typed' /\ PathSelected' /\ Unmounted'
    BY <1>0, <1>1, <1>8, <2>1, <2>2 DEF Typed, PathSelected, Unmounted, Shows, Lists
  <2>4. OwnVersions' /\ DeletesOwnVersion'
    BY <1>0, <1>1, <2>2 DEF OwnVersions, DeletesOwnVersion
  <2>5. AskedAsSeen' /\ FlagUnanswered'
    BY <1>1, <1>7, <1>11 DEF AskedAsSeen, FlagUnanswered, SawFlag
  <2>6. AskAgain => AskAgain'
    BY <1>1, <1>11 DEF AskAgain
  <2>7. LastOfSelection'
    BY <1>0, <1>1, <2>2, <2>6 DEF LastOfSelection
  <2>8. AnswerOfSelection'
    BY <1>0, <1>1, <1>5, <1>6, <2>1, <2>6 DEF AnswerOfSelection
  <2> QED BY <1>9, <2>3, <2>4, <2>5, <2>7, <2>8 DEF IInv
<1> QED BY <1>10, <1>11

(* The navigator asks about the selection too, which it cannot outlive. *)
LEMMA NavigatorStep ==
  ASSUME IInv, NavigatorEffects
  PROVE  IInv'
<1>0. /\ Typed /\ PathSelected /\ Unmounted /\ OwnVersions /\ DeletesOwnVersion
      /\ AskedAsSeen /\ FlagUnanswered /\ LastOfSelection /\ AnswerOfSelection /\ LookedUp
  BY DEF IInv
<1>1. /\ UNCHANGED <<versioned, path, handled, selected, versionsMode, selectedVersion,
                     loadingObjectInfo, panel, answered>>
      /\ Shows /\ Lists /\ ~PanelDue
  BY DEF NavigatorEffects, NavigatorDue, Lists
<1>2. navigator' = [navigator EXCEPT !.seen = NavigatorDeps]
  BY DEF NavigatorEffects
<1>3. NavigatorDeps \in BOOLEAN \X Choice
  BY <1>0 DEF Typed, NavigatorDeps
<1>4. navigator'.versions = navigator.versions
      /\ navigator' \in [info : BOOLEAN, versions : SUBSET Choice,
                         seen : {<<>>} \cup (BOOLEAN \X Choice)]
  BY <1>0, <1>2, <1>3 DEF Typed
<1>5. loadingVersions' \in BOOLEAN
  BY <1>0 DEF NavigatorEffects, Typed
<1>6. /\ BagToSet(calls)' \subseteq Calls
      /\ Pending("delete")' \subseteq Pending("delete")
      /\ LastInfo' \subseteq LastInfo /\ Reaching("info")' \subseteq Reaching("info")
      /\ \A c \in Reaching("versions")' :
           c.object = selected \/ \E d \in Reaching("versions") : c.object = d.object
  <2>1. CASE loadingVersions
    BY <1>0, <2>1, CallsAfterSend DEF NavigatorEffects
  <2>2. CASE ~loadingVersions
    BY <1>0, <2>2 DEF NavigatorEffects, Typed, LastInfo, Pending, Reaching
  <2> QED BY <2>1, <2>2
<1>7. PanelDue' = PanelDue /\ AskAgain' = AskAgain /\ Shows' = Shows /\ Lists' = Lists
  BY <1>1 DEF PanelDue, PanelDeps, AskAgain, Shows, Lists
<1>8. Typed' /\ PathSelected'
  BY <1>0, <1>1, <1>4, <1>5, <1>6, <1>7 DEF Typed, PathSelected
<1>9. Unmounted' /\ OwnVersions' /\ DeletesOwnVersion'
  BY <1>0, <1>1, <1>4, <1>6, <1>7 DEF Unmounted, OwnVersions, DeletesOwnVersion
<1>10. AskedAsSeen' /\ FlagUnanswered'
  BY <1>0, <1>1, <1>6 DEF AskedAsSeen, FlagUnanswered, SawFlag
<1>11. LastOfSelection' /\ AnswerOfSelection' /\ LookedUp'
  BY <1>0, <1>1, <1>6, <1>7 DEF LastOfSelection, AnswerOfSelection, LookedUp
<1> QED BY <1>8, <1>9, <1>10, <1>11 DEF IInv

(* The path's effects set the flag, so that the panel asks again unless it  *)
(* has just asked about the object they select.                             *)
LEMMA PathStep ==
  ASSUME Names, IInv, PathEffects
  PROVE  IInv'
<1>0. /\ Typed /\ Unmounted /\ OwnVersions /\ DeletesOwnVersion
      /\ AskedAsSeen /\ FlagUnanswered /\ LookedUp
  BY DEF IInv
<1>1. /\ ~PanelDue /\ handled' = path /\ versionsMode' = FALSE /\ selectedVersion' = None
      /\ Mounting(calls) /\ UNCHANGED <<versioned, path>>
      /\ selected' \in Choice
      /\ Shows' => selected' = path /\ loadingObjectInfo' = TRUE
      /\ loadingObjectInfo' \in BOOLEAN /\ loadingVersions' \in BOOLEAN
  BY <1>0 DEF PathEffects, setVersionsModeEnabled, Typed, Shows, Choice
<1>2. ~Lists'
  BY <1>1 DEF Lists
<1>3. /\ panel' = IF Shows' THEN panel ELSE Panel
      /\ navigator' = Navigator /\ answered' = (answered /\ Shows')
  BY <1>1, <1>2 DEF Mounting, Shows, Lists
<1>4. /\ BagToSet(calls)' \subseteq Calls
      /\ Pending("delete")' \subseteq Pending("delete")
      /\ LastInfo' \subseteq LastInfo
      /\ ~Shows' => Reaching("info")' = {} /\ LastInfo' = {}
      /\ Reaching("versions")' = {}
  BY <1>0, <1>1, <1>2, CallsAfterMounting
<1>5. Typed'
  BY <1>0, <1>1, <1>3, <1>4 DEF Typed, Panel, Navigator, Choice
<1>6. PathSelected'
  BY <1>1 DEF PathSelected
<1>7. Unmounted'
  BY <1>0, <1>1, <1>2, <1>3, <1>4 DEF Unmounted
<1>8. OwnVersions' /\ DeletesOwnVersion'
  BY <1>0, <1>1, <1>3, <1>4 DEF OwnVersions, DeletesOwnVersion, Navigator
<1>9. Panel.seen = <<>>
  BY DEF Panel
<1>10. SawFlag' => panel' = panel /\ SawFlag /\ Shows'
  BY <1>3, <1>9 DEF SawFlag
<1>11. AskedAsSeen'
  BY <1>0, <1>4, <1>10 DEF AskedAsSeen
<1>12. SawFlag' => ~answered'
  <2> SUFFICES ASSUME SawFlag', answered PROVE FALSE
    BY <1>3
  <2>1. Shows
    BY <1>0 DEF Unmounted
  <2>2. loadingObjectInfo
    BY <1>0, <1>1, <1>10, <2>1, Sees DEF SawFlag
  <2> QED BY <1>0, <1>10, <2>2 DEF FlagUnanswered
<1>13. FlagUnanswered'
  BY <1>12 DEF FlagUnanswered
<1>14. Shows' /\ ~AskAgain' => SawFlag' /\ panel'.seen[2] = selected'
  <2> SUFFICES ASSUME Shows', ~AskAgain' PROVE SawFlag' /\ panel'.seen[2] = selected'
    OBVIOUS
  <2>1. ~PanelDue'
    BY <1>1 DEF AskAgain
  <2>2. panel'.seen = <<loadingObjectInfo', selected', selectedVersion', panel'.all, panel'.of>>
    BY <2>1 DEF PanelDue, PanelDeps
  <2>3. panel'.seen # <<>> /\ panel'.seen[1] = loadingObjectInfo' /\ panel'.seen[2] = selected'
    BY <2>2
  <2> QED BY <1>1, <2>3 DEF SawFlag
<1>15. LastOfSelection'
  BY <1>4, <1>11, <1>14 DEF LastOfSelection, AskedAsSeen
<1>16. AnswerOfSelection'
  BY <1>3, <1>12, <1>14 DEF AnswerOfSelection
<1>17. LookedUp'
  BY <1>0, <1>1, <1>3, <1>9 DEF LookedUp
<1> QED
  BY <1>5, <1>6, <1>7, <1>8, <1>11, <1>13, <1>15, <1>16, <1>17 DEF IInv

(* At rest, what is mounted or unmounted is for the same object, or for one *)
(* whose path's effects are to come, or nothing had been asked.             *)
LEMMA Remounts ==
  ASSUME IInv, DetailsSettled,
         NEW before, BagToSet(before) \subseteq BagToSet(calls), Mounting(before),
         UNCHANGED <<versioned, handled, loadingObjectInfo>>,
         selected' \in Choice, path' \in Elements,
         versionsMode' \in BOOLEAN, loadingVersions' \in BOOLEAN,
         selectedVersion' = None,
         handled' = path' /\ Shows' => selected' = path',
         Shows' => handled' # path' \/ selected' = selected \/ ~Shows,
         Lists' => selected' = selected
  PROVE  IInv'
<1>0. /\ Typed /\ Unmounted /\ OwnVersions /\ DeletesOwnVersion
      /\ AskedAsSeen /\ FlagUnanswered /\ LastOfSelection /\ AnswerOfSelection /\ LookedUp
      /\ ~AskAgain
  BY AtRest DEF IInv
<1>3. /\ panel' = IF Shows' THEN panel ELSE Panel
      /\ navigator' = IF Lists' THEN navigator ELSE Navigator
      /\ answered' = (answered /\ Shows')
  BY DEF Mounting, Shows, Lists
<1>4. /\ BagToSet(calls)' \subseteq Calls
      /\ Pending("delete")' \subseteq Pending("delete")
      /\ LastInfo' \subseteq LastInfo /\ Reaching("versions")' \subseteq Reaching("versions")
      /\ ~Shows' => Reaching("info")' = {} /\ LastInfo' = {}
      /\ ~Lists' => Reaching("versions")' = {}
  BY <1>0, CallsAfterMounting
<1>5. Typed'
  <2>1. Panel \in [info : Choice \cup {"none", "empty"}, all : SUBSET Choice, of : Choice,
                   seen : {<<>>} \cup (BOOLEAN \X Choice \X Choice \X (SUBSET Choice) \X Choice)]
    BY DEF Panel, Choice
  <2>2. Navigator \in [info : BOOLEAN, versions : SUBSET Choice,
                       seen : {<<>>} \cup (BOOLEAN \X Choice)]
    BY DEF Navigator
  <2>3. None \in Choice
    BY DEF Choice
  <2> QED BY <1>0, <1>3, <1>4, <2>1, <2>2, <2>3 DEF Typed
<1>6. PathSelected'
  BY DEF PathSelected
<1>7. Unmounted'
  BY <1>0, <1>3, <1>4 DEF Unmounted
<1>8. OwnVersions' /\ DeletesOwnVersion'
  BY <1>0, <1>3, <1>4 DEF OwnVersions, DeletesOwnVersion, Navigator
<1>9. Panel.seen = <<>>
  BY DEF Panel
<1>10. AskedAsSeen' /\ FlagUnanswered'
  BY <1>0, <1>3, <1>4, <1>9 DEF AskedAsSeen, FlagUnanswered, SawFlag
<1>11. LastInfo # {} => Shows
  BY <1>0 DEF Unmounted, LastInfo, Reaching
<1>12. LastInfo' # {} \/ answered' => Shows' /\ Shows
  BY <1>0, <1>3, <1>4, <1>11 DEF Unmounted
<1>13. ~AskAgain' => handled' = path'
  BY DEF AskAgain
<1>14. LastOfSelection'
  BY <1>0, <1>4, <1>12, <1>13 DEF LastOfSelection
<1>15. AnswerOfSelection'
  BY <1>0, <1>3, <1>12, <1>13 DEF AnswerOfSelection
<1>16. LookedUp'
  BY <1>0, <1>3, <1>9 DEF LookedUp
<1> QED BY <1>5, <1>6, <1>7, <1>8, <1>10, <1>14, <1>15, <1>16 DEF IInv

(* At rest, the flags, the path, the version picked and the calls may       *)
(* change as long as no call reaches what it did not.                       *)
LEMMA Rests ==
  ASSUME IInv, DetailsSettled,
         UNCHANGED <<versioned, handled, selected, versionsMode, panel, navigator, answered>>,
         path' \in Elements, path' = path \/ path' # handled,
         selectedVersion' \in Choice, selectedVersion' \in {None, selected},
         ~Lists => selectedVersion' = None,
         loadingObjectInfo' \in BOOLEAN, loadingVersions' \in BOOLEAN,
         BagToSet(calls)' \subseteq Calls, DeletesOwnVersion', LastInfo' \subseteq LastInfo,
         \A kind \in {"info", "versions"} : Reaching(kind)' \subseteq Reaching(kind)
  PROVE  IInv'
<1>0. /\ Typed /\ PathSelected /\ Unmounted /\ OwnVersions
      /\ AskedAsSeen /\ FlagUnanswered /\ LastOfSelection /\ AnswerOfSelection /\ LookedUp
      /\ ~AskAgain
  BY AtRest DEF IInv
<1>1. Shows' = Shows /\ Lists' = Lists
  BY DEF Shows, Lists
<1>2. Typed'
  BY <1>0 DEF Typed
<1>3. PathSelected'
  BY <1>0, <1>1 DEF PathSelected
<1>4. Unmounted'
  BY <1>0, <1>1 DEF Unmounted
<1>5. OwnVersions'
  BY <1>0 DEF OwnVersions
<1>6. AskedAsSeen' /\ LookedUp'
  BY <1>0 DEF AskedAsSeen, SawFlag, LookedUp
<1>7. SawFlag => ~answered
  <2> SUFFICES ASSUME SawFlag, answered PROVE FALSE
    OBVIOUS
  <2>1. Shows /\ ~PanelDue
    BY <1>0 DEF Unmounted, DetailsSettled
  <2> QED BY <1>0, <2>1, Sees DEF SawFlag, FlagUnanswered
<1>8. FlagUnanswered'
  BY <1>7 DEF FlagUnanswered, SawFlag
<1>9. LastOfSelection' /\ AnswerOfSelection'
  BY <1>0 DEF LastOfSelection, AnswerOfSelection
<1> QED BY <1>2, <1>3, <1>4, <1>5, <1>6, <1>8, <1>9 DEF IInv

(* What can be found is objects, or what was asked about. *)
LEMMA FoundNames ==
  ASSUME Names, NEW c \in Calls, NEW result \in Found(c)
  PROVE  result \in SUBSET Choice
BY DEF Names, Found, Choice, Elements, Calls

(* An answer comes to the panel whose last call is about the selection, to  *)
(* one that asked again since, or to none.                                  *)
LEMMA InfoStep ==
  ASSUME Names, IInv, NEW c \in Pending("info"), NEW result \in Found(c),
         InfoAnswered(c, result)
  PROVE  IInv'
<1>0. /\ Typed /\ PathSelected /\ Unmounted /\ OwnVersions /\ DeletesOwnVersion
      /\ AskedAsSeen /\ FlagUnanswered /\ LastOfSelection /\ AnswerOfSelection /\ LookedUp
  BY DEF IInv
<1>1. /\ DetailsSettled /\ ~AskAgain /\ loadingObjectInfo' = FALSE
      /\ UNCHANGED <<versioned, handled, path, selected, versionsMode, selectedVersion,
                     loadingVersions, navigator>>
      /\ c \in Calls /\ c.kind = "info" /\ BagToSet(calls') \subseteq BagToSet(calls)
  BY <1>0, AtRest, TakenCalls DEF InfoAnswered, Taken, Ends, Typed, Pending
<1>2. /\ BagToSet(calls)' \subseteq Calls
      /\ \A kind \in {"info", "versions", "delete"} :
           Pending(kind)' \subseteq Pending(kind) /\ Reaching(kind)' \subseteq Reaching(kind)
      /\ LastInfo' \subseteq LastInfo
  BY <1>0, <1>1, CallsAfterTaking
<1>3. DeletesOwnVersion'
  BY <1>0, <1>2 DEF DeletesOwnVersion
<1>4. CASE c.to = "gone"
  <2>1. UNCHANGED <<panel, answered>>
    BY <1>4 DEF InfoAnswered
  <2>2. selectedVersion \in {None, selected} /\ (~Lists => selectedVersion = None)
        /\ path \in Elements /\ selectedVersion \in Choice /\ loadingVersions \in BOOLEAN
    BY <1>0 DEF Typed, Unmounted, OwnVersions
  <2> QED BY <1>1, <1>2, <1>3, <2>1, <2>2, Rests
<1>5. CASE c.to # "gone"
  <2>1. c \in Reaching("info") /\ Shows
    BY <1>0, <1>5 DEF Reaching, Unmounted
  <2>2. c.to = "last" => c.object = selected
    BY <1>0, <1>1 DEF LastOfSelection, LastInfo
  <2>3. /\ panel' = IF versioned THEN [panel EXCEPT !.all = result, !.of = c.object]
                    ELSE [panel EXCEPT !.info = IF result = {} THEN "none"
                                                ELSE First(result, c.object)]
        /\ answered' = (c.to = "last" /\ c.object \in result)
    BY <1>5 DEF InfoAnswered
  <2>4. c.object \in Choice /\ result \in SUBSET Choice
    BY <1>1, FoundNames DEF Calls
  <2>5. result # {} => First(result, c.object) \in result
    BY DEF First
  <2>6. /\ panel'.seen = panel.seen
        /\ versioned => panel'.all = result /\ panel'.of = c.object /\ panel'.info = panel.info
        /\ ~versioned /\ c.object \in result => panel'.info = c.object
        /\ panel' \in [info : Choice \cup {"none", "empty"}, all : SUBSET Choice, of : Choice,
                       seen : {<<>>} \cup (BOOLEAN \X Choice \X Choice \X (SUBSET Choice) \X Choice)]
    <3>1. panel \in [info : Choice \cup {"none", "empty"}, all : SUBSET Choice, of : Choice,
                     seen : {<<>>} \cup (BOOLEAN \X Choice \X Choice \X (SUBSET Choice) \X Choice)]
      BY <1>0 DEF Typed
    <3>2. CASE versioned
      BY <2>3, <2>4, <3>1, <3>2
    <3>3. CASE ~versioned
      <4>1. (IF result = {} THEN "none" ELSE First(result, c.object))
              \in Choice \cup {"none", "empty"}
        BY <2>4, <2>5
      <4>2. c.object \in result => First(result, c.object) = c.object
        BY DEF First
      <4> QED BY <2>3, <3>1, <3>3, <4>1, <4>2
    <3> QED BY <3>2, <3>3
  <2>7. Shows' = Shows /\ Lists' = Lists
    BY <1>1 DEF Shows, Lists
  <2>8. Typed' /\ PathSelected'
    BY <1>0, <1>1, <1>2, <2>3, <2>6, <2>7 DEF Typed, PathSelected
  <2>9. Unmounted' /\ OwnVersions'
    BY <1>0, <1>1, <1>2, <2>1, <2>7 DEF Unmounted, OwnVersions
  <2>10. AskedAsSeen' /\ FlagUnanswered' /\ LookedUp'
    BY <1>0, <1>1, <1>2, <2>6 DEF AskedAsSeen, FlagUnanswered, SawFlag, LookedUp
  <2>11. LastOfSelection'
    BY <1>0, <1>1, <1>2 DEF LastOfSelection
  <2>12. AnswerOfSelection'
    BY <1>1, <2>2, <2>3, <2>6 DEF AnswerOfSelection
  <2> QED BY <1>3, <2>8, <2>9, <2>10, <2>11, <2>12 DEF IInv
<1> QED BY <1>4, <1>5

(* What the navigator lists is of the object it asked about. *)
LEMMA VersionsStep ==
  ASSUME Names, IInv, NEW c \in Pending("versions"), NEW result \in Found(c),
         VersionsAnswered(c, result)
  PROVE  IInv'
<1>0. /\ Typed /\ PathSelected /\ Unmounted /\ OwnVersions /\ DeletesOwnVersion
      /\ AskedAsSeen /\ FlagUnanswered /\ LastOfSelection /\ AnswerOfSelection /\ LookedUp
  BY DEF IInv
<1>1. /\ ~AskAgain /\ loadingVersions' = FALSE
      /\ UNCHANGED <<versioned, handled, path, selected, versionsMode, selectedVersion,
                     loadingObjectInfo, panel, answered>>
      /\ c \in Calls /\ BagToSet(calls') \subseteq BagToSet(calls)
  BY <1>0, AtRest, TakenCalls DEF VersionsAnswered, Taken, Ends, Typed, Pending
<1>2. /\ BagToSet(calls)' \subseteq Calls
      /\ \A kind \in {"info", "versions", "delete"} :
           Pending(kind)' \subseteq Pending(kind) /\ Reaching(kind)' \subseteq Reaching(kind)
      /\ LastInfo' \subseteq LastInfo
  BY <1>0, <1>1, CallsAfterTaking
<1>3. navigator' \in [info : BOOLEAN, versions : SUBSET Choice,
                      seen : {<<>>} \cup (BOOLEAN \X Choice)]
  BY <1>0, <1>1, FoundNames DEF VersionsAnswered, Typed
<1>4. Shows' = Shows /\ Lists' = Lists /\ AskAgain' = AskAgain
  BY <1>1 DEF Shows, Lists, AskAgain, PanelDue, PanelDeps
<1>5. navigator'.versions \subseteq {selected} /\ (~Lists => navigator' = navigator)
  <2>1. CASE c.to = "gone"
    BY <1>0, <2>1 DEF VersionsAnswered, OwnVersions
  <2>2. CASE c.to # "gone"
    <3>1. c \in Reaching("versions")
      BY <2>2 DEF Reaching
    <3>2. c.object = selected /\ Lists
      BY <1>0, <3>1 DEF OwnVersions, Unmounted
    <3>3. navigator' = [navigator EXCEPT !.info = TRUE, !.versions = result \cap {c.object}]
      BY <2>2 DEF VersionsAnswered
    <3>4. navigator'.versions = result \cap {c.object}
      BY <1>0, <3>3 DEF Typed
    <3> QED BY <3>2, <3>4
  <2> QED BY <2>1, <2>2
<1>6. Typed' /\ PathSelected'
  BY <1>0, <1>1, <1>2, <1>3, <1>4 DEF Typed, PathSelected
<1>7. Unmounted' /\ OwnVersions' /\ DeletesOwnVersion'
  BY <1>0, <1>1, <1>2, <1>4, <1>5 DEF Unmounted, OwnVersions, DeletesOwnVersion
<1>8. AskedAsSeen' /\ FlagUnanswered' /\ LookedUp'
  BY <1>0, <1>1, <1>2 DEF AskedAsSeen, FlagUnanswered, SawFlag, LookedUp
<1>9. LastOfSelection' /\ AnswerOfSelection'
  BY <1>0, <1>1, <1>2, <1>4 DEF LastOfSelection, AnswerOfSelection
<1> QED BY <1>6, <1>7, <1>8, <1>9 DEF IInv

(* The panel is left, with the calls that are still under way. *)
LEMMA LeaveStep ==
  ASSUME IInv, DetailsSettled, NEW before, BagToSet(before) \subseteq BagToSet(calls),
         LeavePanel(before), UNCHANGED <<versioned, handled>>
  PROVE  IInv'
<1>1. selected' = None /\ versionsMode' = FALSE /\ selectedVersion' = None /\ path' = Folder
      /\ Mounting(before) /\ UNCHANGED <<loadingObjectInfo, loadingVersions>>
  BY DEF LeavePanel, setVersionsModeEnabled
<1>2. Folder \in Elements /\ None \in Choice /\ loadingVersions' \in BOOLEAN
  BY <1>1 DEF IInv, Typed, Elements, Choice
<1>3. ~Shows' /\ ~Lists'
  BY <1>1 DEF Shows, Lists
<1> QED BY <1>1, <1>2, <1>3, Remounts

(* What the answers of the dialogs and failures do. *)
LEMMA EndStep ==
  ASSUME IInv, NEW c \in BagToSet(calls), CallFails(c) \/ Deleted(c) \/ Changed(c)
  PROVE  IInv'
<1>0. Typed /\ Unmounted /\ OwnVersions /\ DeletesOwnVersion
  BY DEF IInv
<1>1. CASE Deleted(c)
  BY <1>1, RemovedCalls, LeaveStep DEF Deleted, Ends
<1>2. CASE CallFails(c) \/ Changed(c)
  <2>1. /\ Taken(c) /\ UNCHANGED <<versioned, handled, path, selected, versionsMode, panel,
                                   navigator, answered>>
        /\ selectedVersion' \in {None, selectedVersion}
        /\ loadingObjectInfo' \in BOOLEAN /\ loadingVersions' \in BOOLEAN
    BY <1>0, <1>2 DEF CallFails, Changed, Taken, Ends, Typed
  <2>2. BagToSet(calls') \subseteq BagToSet(calls) /\ DetailsSettled
    BY <2>1, TakenCalls DEF Taken, Ends
  <2>3. /\ BagToSet(calls)' \subseteq Calls /\ LastInfo' \subseteq LastInfo
        /\ \A kind \in {"info", "versions", "delete"} :
             Pending(kind)' \subseteq Pending(kind) /\ Reaching(kind)' \subseteq Reaching(kind)
    BY <1>0, <2>2, CallsAfterTaking
  <2>4. DeletesOwnVersion'
    BY <1>0, <2>3 DEF DeletesOwnVersion
  <2>5. selectedVersion' \in Choice /\ selectedVersion' \in {None, selected}
        /\ (~Lists => selectedVersion' = None) /\ path \in Elements
    BY <1>0, <2>1 DEF Typed, Choice, OwnVersions, Unmounted
  <2> QED BY <2>1, <2>2, <2>3, <2>4, <2>5, Rests
<1> QED BY <1>1, <1>2

(* What the user does to the path and the selection. *)
LEMMA SelectStep ==
  ASSUME IInv,
         \/ \E p \in Objects \cup {Folder} : OpenPath(p)
         \/ ClosePanel \/ SelectRows \/ ToggleVersions \/ LeaveVersions
  PROVE  IInv'
<1>0. Typed /\ PathSelected /\ Unmounted /\ DetailsSettled /\ UNCHANGED <<versioned, handled>>
  BY DEF IInv, OpenPath, ClosePanel, SelectRows, ToggleVersions, LeaveVersions, Move
<1>1. handled = path /\ (Shows => selected = path)
  BY <1>0 DEF DetailsSettled, PathSelected
<1>2. ASSUME NEW p \in Objects \cup {Folder}, OpenPath(p) PROVE IInv'
  <2>1. /\ path' = p /\ selected' = p /\ loadingVersions' = TRUE /\ ~versionsMode
        /\ UNCHANGED <<versionsMode, selectedVersion, loadingObjectInfo>> /\ Mounting(calls)
    BY <1>2 DEF OpenPath
  <2>2. p \in Elements /\ p \in Choice
    BY DEF Elements, Choice
  <2>3. ~Lists /\ ~Lists' /\ selectedVersion = None
    BY <1>0, <2>1 DEF Lists, Unmounted
  <2>4. handled' # path' \/ selected' = selected \/ ~Shows
    BY <1>0, <1>1, <2>1
  <2>5. versionsMode \in BOOLEAN
    BY <1>0 DEF Typed
  <2> QED BY <1>0, <2>1, <2>2, <2>3, <2>4, <2>5, Remounts
<1>3. CASE ClosePanel
  BY <1>0, <1>3, LeaveStep DEF ClosePanel
<1>4. CASE SelectRows
  <2>1. /\ selected' = None /\ ~versionsMode /\ UNCHANGED <<path, versionsMode, selectedVersion,
           loadingObjectInfo, loadingVersions>> /\ Mounting(calls)
    BY <1>4 DEF SelectRows, detailsStore
  <2>2. ~Shows' /\ ~Lists' /\ selectedVersion = None
    BY <1>0, <2>1 DEF Shows, Lists, Unmounted
  <2>3. None \in Choice /\ path \in Elements /\ versionsMode \in BOOLEAN /\ loadingVersions \in BOOLEAN
    BY <1>0 DEF Typed, Choice
  <2> QED BY <1>0, <2>1, <2>2, <2>3, Remounts
<1>5. CASE ToggleVersions \/ LeaveVersions
  <2>1. /\ versionsMode' \in BOOLEAN /\ selectedVersion' = None /\ Mounting(calls)
        /\ UNCHANGED <<path, selected, loadingObjectInfo, loadingVersions>>
    BY <1>0, <1>5 DEF ToggleVersions, LeaveVersions, setVersionsModeEnabled, Typed
  <2>2. selected \in Choice /\ path \in Elements /\ loadingVersions \in BOOLEAN
    BY <1>0 DEF Typed
  <2>3. Shows' => selected' = path'
    BY <1>1, <2>1 DEF Shows
  <2> QED BY <1>0, <2>1, <2>2, <2>3, Remounts
<1> QED BY <1>2, <1>3, <1>4, <1>5

(* And what else: a deletion names the version that is picked. *)
LEMMA MoveStep ==
  ASSUME IInv,
         \/ \E p \in Objects \cup {Folder} : Travel(p)
         \/ PickVersion \/ CancelDelete \/ RefreshVersions
         \/ \E kind \in {"delete", "tags", "prune", "restore"} : Confirm(kind)
  PROVE  IInv'
<1>0. /\ Typed /\ Unmounted /\ OwnVersions /\ DeletesOwnVersion /\ DetailsSettled
      /\ UNCHANGED <<versioned, handled>>
  BY DEF IInv, Travel, PickVersion, CancelDelete, RefreshVersions, Confirm, Move
<1>1. /\ path \in Elements /\ selectedVersion \in Choice /\ selectedVersion \in {None, selected}
      /\ (~Lists => selectedVersion = None) /\ None \in Choice
      /\ loadingObjectInfo \in BOOLEAN /\ loadingVersions \in BOOLEAN
  BY <1>0 DEF Typed, OwnVersions, Unmounted, Choice
<1>2. CASE UNCHANGED calls
  <2>1. BagToSet(calls)' \subseteq Calls /\ DeletesOwnVersion' /\ LastInfo' \subseteq LastInfo
        /\ \A kind \in {"info", "versions"} : Reaching(kind)' \subseteq Reaching(kind)
    BY <1>0, <1>2 DEF Typed, DeletesOwnVersion, Pending, LastInfo, Reaching
  <2>2. ASSUME NEW p \in Objects \cup {Folder}, Travel(p) PROVE IInv'
    <3>1. path' = p /\ path # p /\ handled = path
          /\ UNCHANGED <<selected, versionsMode, selectedVersion, loadingObjectInfo,
                         loadingVersions, panel, navigator, answered>>
      BY <1>0, <2>2 DEF Travel, detailsStore, DetailsSettled
    <3> QED BY <1>0, <1>1, <2>1, <3>1, Rests DEF Elements
  <2>3. CASE PickVersion
    <3>1. selectedVersion' = selected /\ selected \in Choice /\ Lists
      BY <1>0, <2>3 DEF PickVersion, OwnVersions, Typed
    <3>2. UNCHANGED <<path, selected, versionsMode, loadingObjectInfo, loadingVersions, panel,
                      navigator, answered>>
      BY <2>3 DEF PickVersion
    <3> QED BY <1>0, <1>1, <2>1, <3>1, <3>2, Rests
  <2>4. CASE CancelDelete \/ RefreshVersions
    <3>1. /\ selectedVersion' \in {None, selectedVersion}
          /\ loadingObjectInfo' \in BOOLEAN /\ loadingVersions' \in BOOLEAN
          /\ UNCHANGED <<path, selected, versionsMode, panel, navigator, answered>>
      BY <1>1, <2>4 DEF CancelDelete, RefreshVersions
    <3> QED BY <1>0, <1>1, <2>1, <3>1, Rests
  <2>5. ASSUME NEW kind \in {"delete", "tags", "prune", "restore"}, Confirm(kind) PROVE IInv'
    <3>1. UNCHANGED <<path, selected, versionsMode, selectedVersion, loadingObjectInfo,
                      loadingVersions, panel, navigator, answered>>
      BY <2>5 DEF Confirm, detailsStore
    <3> QED BY <1>0, <1>1, <2>1, <3>1, Rests
  <2> QED BY <2>2, <2>3, <2>4, <2>5
<1>3. ASSUME NEW kind \in {"delete", "tags", "prune", "restore"}, Confirm(kind) PROVE IInv'
  <2>1. /\ calls' = BagAdd(calls, Asked(kind))
        /\ UNCHANGED <<path, selected, versionsMode, selectedVersion, loadingObjectInfo,
                       loadingVersions, panel, navigator, answered>>
    BY <1>3 DEF Confirm, detailsStore
  <2>2. BagToSet(calls)' = BagToSet(calls) \cup {Asked(kind)}
    BY <2>1, AddedCalls DEF BagToSet
  <2>3. /\ Asked(kind) \in Calls /\ Asked(kind).kind = kind
        /\ Asked(kind).version \in {None, Asked(kind).object}
    BY <1>0, <1>1 DEF Asked, Calls, Typed
  <2>4. BagToSet(calls)' \subseteq Calls /\ DeletesOwnVersion' /\ LastInfo' \subseteq LastInfo
        /\ \A k \in {"info", "versions"} : Reaching(k)' \subseteq Reaching(k)
    <3> HIDE DEF Asked
    <3> QED BY <1>0, <2>2, <2>3 DEF Typed, DeletesOwnVersion, Pending, LastInfo, Reaching
  <2> QED BY <1>0, <1>1, <2>1, <2>4, Rests
<1>4. UNCHANGED calls \/ \E kind \in {"delete", "tags", "prune", "restore"} : Confirm(kind)
  BY DEF Travel, PickVersion, CancelDelete, RefreshVersions
<1> QED BY <1>2, <1>3, <1>4

LEMMA DetailsKept == Names /\ IInv /\ [DetailsNext]_details => IInv'
<1> SUFFICES ASSUME Names, IInv, [DetailsNext]_details PROVE IInv'
  OBVIOUS
<1>1. CASE UNCHANGED details
  <2>1. /\ UNCHANGED <<versioned, path, handled, selected, versionsMode, selectedVersion,
                       loadingObjectInfo, loadingVersions, panel, navigator, calls, answered>>
    BY <1>1 DEF details, detailsStore
  <2>2. /\ Shows' = Shows /\ Lists' = Lists /\ AskAgain' = AskAgain /\ SawFlag' = SawFlag
        /\ LastInfo' = LastInfo /\ \A kind : Reaching(kind)' = Reaching(kind)
        /\ \A kind : Pending(kind)' = Pending(kind)
    BY <2>1 DEF Shows, Lists, AskAgain, PanelDue, PanelDeps, SawFlag, LastInfo, Reaching, Pending
  <2> QED
    BY <2>1, <2>2
    DEF IInv, Typed, PathSelected, Unmounted, OwnVersions, DeletesOwnVersion, AskedAsSeen,
        FlagUnanswered, LastOfSelection, AnswerOfSelection, LookedUp
<1>2. CASE PanelEffects
  BY <1>2, PanelStep
<1>3. CASE NavigatorEffects
  BY <1>3, NavigatorStep
<1>4. CASE PathEffects
  BY <1>4, PathStep
<1>5. ASSUME NEW c \in Pending("info"), NEW result \in Found(c), InfoAnswered(c, result)
      PROVE  IInv'
  BY <1>5, InfoStep
<1>6. ASSUME NEW c \in Pending("versions"), NEW result \in Found(c), VersionsAnswered(c, result)
      PROVE  IInv'
  BY <1>6, VersionsStep
<1>7. ASSUME NEW c \in BagToSet(calls), CallFails(c) \/ Deleted(c) \/ Changed(c)
      PROVE  IInv'
  BY <1>7, EndStep
<1>8. CASE \/ \E p \in Objects \cup {Folder} : OpenPath(p)
           \/ ClosePanel \/ SelectRows \/ ToggleVersions \/ LeaveVersions
  BY <1>8, SelectStep
<1>9. CASE \/ \E p \in Objects \cup {Folder} : Travel(p)
           \/ PickVersion \/ CancelDelete \/ RefreshVersions
           \/ \E kind \in {"delete", "tags", "prune", "restore"} : Confirm(kind)
  BY <1>9, MoveStep
<1> QED BY <1>1, <1>2, <1>3, <1>4, <1>5, <1>6, <1>7, <1>8, <1>9 DEF DetailsNext

(* Once the answer to the panel's last call found the selected object, the  *)
(* panel is about it, whatever was selected, left, deleted or asked before  *)
(* and in whatever order the answers came.                                  *)
THEOREM DetailsAreOfSelection == DetailsSpec => []DetailsOfSelection
<1>1. IInv => DetailsOfSelection
  <2> SUFFICES ASSUME IInv, DetailsSettled, Shows, answered, selected \in Objects
               PROVE  panel.info \in {selected, "empty"}
    BY DEF DetailsOfSelection
  <2>1. Typed /\ ~PanelDue /\ LookedUp /\ OwnVersions
        /\ IF versioned THEN panel.of = selected /\ selected \in panel.all
           ELSE panel.info = selected
    BY AtRest DEF IInv, DetailsSettled, AnswerOfSelection
  <2>2. CASE versioned
    <3>1. panel.info = Lookup(selectedVersion, panel.all, selected)
      BY <2>1, <2>2, Sees DEF LookedUp
    <3>2. selectedVersion \in {None, selected}
      BY <2>1 DEF OwnVersions
    <3> QED BY <2>1, <2>2, <3>1, <3>2 DEF Lookup, First
  <2> QED BY <2>1, <2>2
<1>2. DetailsInit => IInv
  BY DetailsAtFirst, NamesAssumption
<1>3. IInv /\ [DetailsNext]_details => IInv'
  BY DetailsKept, NamesAssumption
<1> QED BY <1>1, <1>2, <1>3, PTL DEF DetailsSpec

(* A deletion names a version of the object whose path it names, though the *)
(* one was picked from a list fetched at another time than the path was     *)
(* taken.                                                                   *)
THEOREM OwnVersionDeleted == DetailsSpec => []DeletesOwnVersion
<1>1. IInv => DeletesOwnVersion
  BY DEF IInv
<1>2. DetailsInit => IInv
  BY DetailsAtFirst, NamesAssumption
<1>3. IInv /\ [DetailsNext]_details => IInv'
  BY DetailsKept, NamesAssumption
<1> QED BY <1>1, <1>2, <1>3, PTL DEF DetailsSpec
=============================================================================
