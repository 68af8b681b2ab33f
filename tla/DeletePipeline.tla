---------------------------- MODULE DeletePipeline ----------------------------
(***************************************************************************)
(* Deleting objects (deleteObjects and its two endpoints): for each file   *)
(* of the request the handler starts a lister, a goroutine that hands what *)
(* it finds over an unbuffered channel to the remover, and reads the       *)
(* remover's results until they end or one is an error.                    *)
(*                                                                         *)
(* Listing and removing are external (the mc client): a listing yields its *)
(* items in any order and may break off with an error; the remover takes   *)
(* items, removes each or not, reports each, and stops when its context    *)
(* ends.  Names are related as strings by Under, Direct and EndsWith.      *)
(***************************************************************************)
EXTENDS Naturals, Sequences, FiniteSets

CONSTANTS
  Paths,        \* what a request can name: objects and folders
  Folders,      \* the paths that end with a slash
  Items,        \* what the bucket holds: [key, version, latest]
  Under,        \* <<path, key>>: the key starts with the path
  Direct,       \* ... and has no slash after it
  EndsWith,     \* <<path, key>>: the key ends with the path
  NoVersion,
  Asking,       \* bound: the versions that requests name, NoVersion among them
  MaxFiles      \* bound

Versions == {i.version : i \in Items} \cup Asking
Files == [path : Paths, recursive : BOOLEAN, version : Asking]

ASSUME DeleteAssumption ==
  /\ MaxFiles \in Nat /\ Folders \subseteq Paths /\ NoVersion \in Asking
  /\ \A i \in Items : i.version # NoVersion

(* DELETE .../objects names one file, POST .../delete-objects several. *)
Requests ==
  [files : {<<f>> : f \in Files}, allVersions : BOOLEAN, nonCurrent : BOOLEAN]
  \cup [files : UNION {[1..n -> Files] : n \in 0..MaxFiles}, allVersions : BOOLEAN,
        nonCurrent : {FALSE}]

VARIABLES
  request,
  handler,    \* "next", "removing", "ok", "error": where it is, then its answer
  file,       \* the number of the file being deleted
  version,    \* the handler's variable of that name
  connected,  \* the client is: the context of the request lasts that long
  lister,     \* "none", "listing", "handing", "closed" (so is its channel)
  toList,     \* the items the listing still has to yield
  content,    \* what is offered on the channel: at most one target
  brokenOff,  \* the files whose listing ended with an error
  remover,    \* "none", "taking", "stopped", "over"
  accepted,   \* the targets taken and neither removed nor refused yet
  results,    \* what the remover has to report
  removed     \* the targets removed from the bucket

lists == <<lister, toList, content, brokenOff>>
removal == <<remover, accepted, results, removed>>
control == <<handler, file, version>>
vars == <<request, connected, control, lists, removal>>

Target(n, key, v) == [file |-> n, key |-> key, version |-> v]
Answered == handler \in {"ok", "error"}
Current == request.files[file]
BySingle(f) == ~ (f.recursive \/ request.allVersions \/ request.nonCurrent)

(* What mc lists, and what of it is handed over. *)
Listed(f) ==
  {i \in Items :
     /\ <<f.path, i.key>> \in Under
     /\ request.nonCurrent \/ f.recursive \/ <<f.path, i.key>> \in Direct
     /\ request.nonCurrent \/ request.allVersions \/ i.latest}

(* Mutant: the name is not compared. *)
Passes_Any(f, i) == IF request.nonCurrent THEN ~ i.latest ELSE TRUE

Passes(f, i) ==
  IF request.nonCurrent THEN ~ i.latest
  ELSE <<f.path, i.key>> \in EndsWith \/ f.path \in Folders

ListedVersion(i) ==
  IF request.nonCurrent \/ request.allVersions THEN i.version ELSE NoVersion

Init ==
  /\ request \in Requests
  /\ handler = "next" /\ file = 1 /\ version = NoVersion /\ connected = TRUE
  /\ lister = "none" /\ toList = {} /\ content = {} /\ brokenOff = {}
  /\ remover = "none" /\ accepted = {} /\ results = {} /\ removed = {}

-----------------------------------------------------------------------------
(* The handler.                                                            *)

Answer(a) == handler' = a /\ UNCHANGED <<request, connected, file, version, lists, removal>>

Refuse ==
  /\ handler = "next" /\ file = 1 /\ request.allVersions /\ request.nonCurrent
  /\ Answer("error")

AllDone == handler = "next" /\ file > Len(request.files) /\ Answer("ok")

(* A version that a file names is kept for the files after it that name    *)
(* none.                                                                   *)
Start ==
  /\ handler = "next" /\ file <= Len(request.files)
  /\ ~ (request.allVersions /\ request.nonCurrent)
  /\ handler' = "removing" /\ remover' = "taking" /\ accepted' = {} /\ results' = {}
  /\ version' = IF Current.version # NoVersion THEN Current.version ELSE version
  /\ IF BySingle(Current)
     THEN /\ lister' = "closed" /\ toList' = {}
          /\ content' = {Target(file, Current.path, version')}
     ELSE lister' = "listing" /\ toList' = Listed(Current) /\ content' = {}
  /\ UNCHANGED <<request, connected, file, brokenOff, removed>>

(* Mutant: an error is passed over. *)
Receive_Any(r) ==
  /\ handler = "removing" /\ results' = results \ {r}
  /\ UNCHANGED <<request, connected, control, lists, remover, accepted, removed>>

(* The first error is the answer. *)
Receive(r) ==
  /\ handler = "removing" /\ results' = results \ {r}
  /\ handler' = IF r.error THEN "error" ELSE handler
  /\ UNCHANGED <<request, connected, file, version, lists, remover, accepted, removed>>

(* Mutant: the handler does not wait for the results to end. *)
FileDone_Early ==
  /\ handler = "removing" /\ lister = "closed" /\ content = {}
  /\ handler' = "next" /\ file' = file + 1
  /\ UNCHANGED <<request, connected, version, lists, removal>>

FileDone ==
  /\ handler = "removing" /\ remover = "over" /\ results = {}
  /\ handler' = "next" /\ file' = file + 1
  /\ UNCHANGED <<request, connected, version, lists, removal>>

(* The context that the lister runs under ends with the function that made *)
(* it or with the request's.                                               *)
ListerCancelled == ~ connected \/ handler # "removing"

-----------------------------------------------------------------------------
(* The lister.                                                             *)

List(i) ==
  /\ lister = "listing" /\ i \in toList
  /\ toList' = toList \ {i}
  /\ IF Passes(Current, i)
     THEN lister' = "handing" /\ content' = {Target(file, i.key, ListedVersion(i))}
     ELSE UNCHANGED <<lister, content>>
  /\ UNCHANGED <<request, connected, control, brokenOff, removal>>

(* An error is passed over, and nothing follows it. *)
ListingBreaksOff ==
  /\ lister = "listing" /\ lister' = "closed" /\ toList' = {}
  /\ brokenOff' = brokenOff \cup {file}
  /\ UNCHANGED <<request, connected, control, content, removal>>

ListingOver ==
  /\ lister = "listing" /\ toList = {} /\ lister' = "closed"
  /\ UNCHANGED <<request, connected, control, toList, content, brokenOff, removal>>

(* Mutant: the offer does not end with the context. *)
GiveUp_Never == FALSE /\ UNCHANGED vars

GiveUp ==
  /\ lister = "handing" /\ ListerCancelled
  /\ lister' = "closed" /\ content' = {} /\ toList' = {}
  /\ UNCHANGED <<request, connected, control, brokenOff, removal>>

-----------------------------------------------------------------------------
(* The remover, and the client.                                            *)

HandOver ==
  /\ remover = "taking" /\ content # {}
  /\ accepted' = accepted \cup content /\ content' = {}
  /\ lister' = IF lister = "handing" THEN "listing" ELSE lister
  /\ UNCHANGED <<request, connected, control, toList, brokenOff, remover, results, removed>>

Remove(t) ==
  /\ t \in accepted /\ accepted' = accepted \ {t}
  /\ removed' = removed \cup {t} /\ results' = results \cup {[target |-> t, error |-> FALSE]}
  /\ UNCHANGED <<request, connected, control, lists, remover>>

RemoveFails(t) ==
  /\ t \in accepted /\ accepted' = accepted \ {t}
  /\ results' = results \cup {[target |-> t, error |-> TRUE]}
  /\ UNCHANGED <<request, connected, control, lists, remover, removed>>

RemoverOver ==
  /\ remover = "taking" /\ lister = "closed" /\ content = {} /\ accepted = {}
  /\ remover' = "over"
  /\ UNCHANGED <<request, connected, control, lists, accepted, results, removed>>

(* The context of the request ends with its answer or with the client. *)
RemoverStops ==
  /\ remover = "taking" /\ (~ connected \/ Answered)
  /\ remover' = "stopped"
  /\ results' = results \cup {[target |-> Target(file, NoVersion, NoVersion), error |-> TRUE]}
  /\ UNCHANGED <<request, connected, control, lists, accepted, removed>>

Disconnect ==
  /\ connected /\ ~ Answered /\ connected' = FALSE
  /\ UNCHANGED <<request, control, lists, removal>>

-----------------------------------------------------------------------------
Handler == Refuse \/ AllDone \/ Start \/ FileDone \/ \E r \in results : Receive(r)
Lister == (\E i \in Items : List(i)) \/ ListingOver \/ GiveUp
Remover == HandOver \/ RemoverOver \/ \E t \in accepted : Remove(t) \/ RemoveFails(t)

Next ==
  \/ Refuse
  \/ AllDone
  \/ Start
  \/ \E r \in results : Receive(r)
  \/ FileDone
  \/ \E i \in Items : List(i)
  \/ ListingBreaksOff
  \/ ListingOver
  \/ GiveUp
  \/ HandOver
  \/ \E t \in accepted : Remove(t)
  \/ \E t \in accepted : RemoveFails(t)
  \/ RemoverOver
  \/ RemoverStops
  \/ Disconnect

Spec == Init /\ [][Next]_vars

(* Some goroutine that can go on does; listings end, and the remover       *)
(* answers and heeds its context.  Every step is one nearer to the end, so *)
(* fairness to each goroutine by itself adds nothing.                      *)
FairSpec == Spec /\ WF_vars(Handler \/ Lister \/ Remover \/ RemoverStops)

-----------------------------------------------------------------------------
(* Properties.                                                             *)

Targets == [file : 1..Len(request.files), key : Paths \cup {i.key : i \in Items},
            version : Versions]

(* The types, and where a target can be: the channel is empty once the     *)
(* lister neither lists nor hands over, but for the target of a single     *)
(* object, which is put on it before it is closed.                         *)
TypeOK ==
  /\ request \in Requests /\ connected \in BOOLEAN
  /\ handler \in {"next", "removing", "ok", "error"}
  /\ file \in 1..(Len(request.files) + 1) /\ version \in Versions
  /\ lister \in {"none", "listing", "handing", "closed"} /\ toList \subseteq Items
  /\ brokenOff \subseteq 1..Len(request.files)
  /\ remover \in {"none", "taking", "stopped", "over"}
  /\ accepted \subseteq Targets /\ removed \subseteq Targets
  /\ \A r \in results : r.error \in BOOLEAN
  /\ content = {} \/ \E t \in Targets : content = {t}
  /\ lister = "handing" => content # {}
  /\ lister \in {"none", "listing"} => content = {}

(* The version a single object is deleted with: the last one that it or a  *)
(* file before it names.                                                   *)
VersionAt(n) ==
  LET named == {m \in 1..n : request.files[m].version # NoVersion}
  IN  IF named = {} THEN NoVersion
      ELSE request.files[CHOOSE m \in named : \A k \in named : k <= m].version

(* What deleting file n comes to: the versions that are not current of     *)
(* every key that starts with the path; or the named version of one        *)
(* object; or, of the keys below a folder and the keys that start and end  *)
(* with an object's path, the current version or all of them.              *)
Asked(n) ==
  LET f == request.files[n]
      below == {i \in Items : <<f.path, i.key>> \in Under}
      direct == {i \in below : <<f.path, i.key>> \in Direct \/ f.recursive}
      named == {i \in direct : f.path \in Folders \/ <<f.path, i.key>> \in EndsWith}
  IN  IF request.nonCurrent
      THEN {Target(n, i.key, i.version) : i \in {j \in below : ~ j.latest}}
      ELSE IF request.allVersions
      THEN {Target(n, i.key, i.version) : i \in named}
      ELSE IF f.recursive
      THEN {Target(n, i.key, NoVersion) : i \in {j \in named : j.latest}}
      ELSE {Target(n, f.path, VersionAt(n))}

Complete(n) == n \in brokenOff \/ Asked(n) \subseteq removed

(* Whatever breaks off, fails or is cancelled, nothing is removed from the *)
(* bucket but what the request comes to (deleteMultipleObjects' filter,    *)
(* deleteNonCurrentVersions).                                              *)
RemovedAsAsked == \A t \in removed : t \in Asked(t.file)

(* A client that is still there and gets no error has had everything       *)
(* removed that the listings found (deleteObjects returns the first error).*)
SuccessIsComplete ==
  (handler = "ok" /\ connected) => \A n \in 1..Len(request.files) : Complete(n)

(* The files are deleted one after the other: nothing of a file is handed  *)
(* to the remover before the files ahead of it are complete, so an error   *)
(* leaves the files behind it untouched (getDeleteMultiplePathsResponse).  *)
FilesInOrder ==
  connected => \A t \in removed \cup accepted : \A n \in 1..(t.file - 1) : Complete(n)

(* Between two files no lister is running and the remover holds nothing of *)
(* the file before: the goroutines of two files never overlap, though each *)
(* is cancelled only when its function has returned.                       *)
NothingLeftBehind ==
  handler = "next" => /\ lister \in {"none", "closed"} /\ content = {}
                      /\ accepted = {} /\ results = {}

(* Whatever fails and wherever the client goes away, the handler returns   *)
(* (it waits for a channel that the lister's goroutine must close) and the *)
(* lister's goroutine ends (also when the handler left it offering an item *)
(* that nobody takes any more).                                            *)
RequestEnds == <>(Answered /\ lister \in {"none", "closed"})

(* What the application promises and the code does not do.                 *)

(* "Are you sure you want to delete: selectedObject", "delete all the      *)
(* non-current versions for: selectedObject": deleting an object removes   *)
(* no other object.                                                        *)
OnlySelectedDeleted ==
  \A t \in removed : \/ request.files[t.file].path \in Folders
                     \/ t.key = request.files[t.file].path
===============================================================================
