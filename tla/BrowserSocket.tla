---------------------------- MODULE BrowserSocket ----------------------------
(***************************************************************************)
(* The browser's end of the object listing: the middleware that owns the   *)
(* websocket and numbers the requests, the part of the store it fills, and *)
(* the effects of the view (BrowserHandler) that ask for a listing.        *)
(*                                                                         *)
(* JavaScript runs one handler at a time, and the view commits and runs    *)
(* its effects before the next one: other handlers wait for Settled.       *)
(* The server is what ObjectsSocket shows of it: it answers the requests   *)
(* of a socket one after the other, each with its batches and an end.      *)
(***************************************************************************)
EXTENDS Naturals, Sequences, SequencesExt

CONSTANTS Paths,       \* a bucket and a prefix
          Batches,     \* batches in a listing
          MaxSockets, MaxLosses, MaxClicks,   \* bounds
          NoPath

ASSUME BrowserAssumption == /\ NoPath \notin Paths
                            /\ {Batches, MaxSockets, MaxLosses, MaxClicks} \subseteq Nat
                            /\ MaxSockets > 0

VARIABLES
  sockets,          \* of every socket made: its readyState
  objectsWS,        \* the one requests are sent on
  wsInFlight, currentRequestID,
  connects,         \* the reconnections (OBConnect) to come, 3 s after a close each
  retries,          \* the requests to be tried again 1 s after they were refused
  asked, progress,  \* per socket: requests not fully answered; batches come of the first
  carrier,          \* auxiliary: the socket of the current request
  records, requestInProgress, reloadObjectsList, simplePath,   \* the store
  location,         \* the path the user is at; NoPath outside of the browser
  showDeleted,
  seen, due,        \* what the effects last saw; the effects still to be run
  losses, clicks    \* counted for the bounds

connection == <<sockets, objectsWS, wsInFlight, connects>>
network == <<asked, progress>>
store == <<records, requestInProgress, reloadObjectsList, simplePath>>
view == <<location, showDeleted>>
request == <<currentRequestID, carrier>>
vars == <<connection, network, store, view, request, retries, seen, due, losses, clicks>>

Sockets == 1..MaxSockets
Nothing == [s \in Sockets |-> <<>>]

(* Mounting the console has connected; the browser is about to be mounted,  *)
(* or the console is at another of its pages.                              *)
Init ==
  /\ sockets = [s \in Sockets |-> IF s = 1 THEN "connecting" ELSE "none"]
  /\ objectsWS = 1 /\ wsInFlight = TRUE /\ connects = 0
  /\ currentRequestID = 0 /\ carrier = 0 /\ retries = <<>>
  /\ asked = Nothing /\ progress = [s \in Sockets |-> 0]
  /\ records = <<>> /\ requestInProgress = TRUE
  /\ reloadObjectsList = FALSE /\ simplePath = NoPath
  /\ location \in Paths \cup {NoPath} /\ showDeleted = FALSE
  /\ seen = <<>> /\ due = <<>>
  /\ losses = 0 /\ clicks = 0

-----------------------------------------------------------------------------
(* The effects of the view.                                                *)

PathLoad == <<location, showDeleted, simplePath>>
Reload == <<reloadObjectsList, records, requestInProgress>>

Settled == due = <<>> /\ (location # NoPath => seen = <<PathLoad, Reload>>)

(* A render with other dependencies: "pathLoad" when the path is not the   *)
(* one listed, "reload" when a reload is asked for and the list is empty.  *)
Commit ==
  LET navigated == seen = <<>> \/ seen[1] # PathLoad
      navigate == navigated /\ location # simplePath
      reload == reloadObjectsList /\ records = <<>> /\ ~requestInProgress
  IN
  /\ location # NoPath /\ due = <<>>
  /\ seen # <<PathLoad, Reload>>
  /\ seen' = <<PathLoad, Reload>>
  /\ due' = (IF navigate THEN <<"navigate">> ELSE <<>>)
              \o (IF reload THEN <<"reload">> ELSE <<>>)
  /\ UNCHANGED <<connection, network, store, view, request, retries, losses, clicks>>

-----------------------------------------------------------------------------
(* The middleware.                                                         *)

Unused == {s \in Sockets : sockets[s] = "none"}

(* Mutant: the socket is there, whatever its readyState. *)
IsOpen_Any == sockets[objectsWS] # "none"

IsOpen == sockets[objectsWS] = "open"

(* new WebSocket(..): whatever socket there was is no longer the one used. *)
NewSocket ==
  \E s \in Unused :
    /\ \A t \in Unused : s <= t
    /\ sockets' = [sockets EXCEPT ![s] = "connecting"]
    /\ objectsWS' = s
    /\ wsInFlight' = TRUE

OBConnect ==
  /\ Settled /\ connects > 0
  /\ connects' = connects - 1
  /\ IF wsInFlight THEN UNCHANGED <<sockets, objectsWS, wsInFlight>> ELSE NewSocket
  /\ UNCHANGED <<network, store, view, request, retries, seen, due, losses, clicks>>

Ask(path, mode) == [rid |-> currentRequestID + 1, path |-> path, mode |-> mode]

SendRequest(path, mode) ==
  /\ records' = <<>> /\ requestInProgress' = TRUE
  /\ reloadObjectsList' = FALSE /\ simplePath' = path
  /\ asked' = [asked EXCEPT ![objectsWS] = Append(@, Ask(path, mode))]
  /\ currentRequestID' = currentRequestID + 1 /\ carrier' = objectsWS
  /\ UNCHANGED <<connection, progress>>

RefuseRequest ==
  /\ reloadObjectsList' = FALSE
  /\ IF wsInFlight THEN UNCHANGED connection
     ELSE NewSocket /\ UNCHANGED connects
  /\ UNCHANGED <<network, records, simplePath, request>>

(* An effect's pathLoad: the request is sent, or is tried again later. *)
RunEffect ==
  /\ due # <<>>
  /\ due' = Tail(due)
  /\ \/ /\ IsOpen
        /\ SendRequest(location, showDeleted)
        /\ UNCHANGED retries
     \/ /\ ~IsOpen
        /\ RefuseRequest
        /\ requestInProgress' = TRUE
        /\ retries' = Append(retries, [path |-> location, mode |-> showDeleted])
  /\ UNCHANGED <<view, seen, losses, clicks>>

(* Mutant: a request refused again is dropped. *)
Retry_Once ==
  /\ Settled /\ retries # <<>>
  /\ \/ /\ IsOpen
        /\ SendRequest(Head(retries).path, Head(retries).mode)
     \/ /\ ~IsOpen
        /\ RefuseRequest
        /\ UNCHANGED requestInProgress
  /\ retries' = Tail(retries)
  /\ UNCHANGED <<view, seen, due, losses, clicks>>

(* The timers have one delay: they fire in the order in which they are set. *)
Retry ==
  /\ Settled /\ retries # <<>>
  /\ \/ /\ IsOpen
        /\ SendRequest(Head(retries).path, Head(retries).mode)
        /\ retries' = Tail(retries)
     \/ /\ ~IsOpen
        /\ RefuseRequest
        /\ UNCHANGED requestInProgress
        /\ retries' = Append(Tail(retries), Head(retries))
  /\ UNCHANGED <<view, seen, due, losses, clicks>>

OnOpen(s) ==
  /\ Settled /\ sockets[s] = "connecting"
  /\ sockets' = [sockets EXCEPT ![s] = "open"]
  /\ wsInFlight' = FALSE
  /\ UNCHANGED <<objectsWS, connects, network, store, view, request, retries,
                 seen, due, losses, clicks>>

(* onerror and onclose: what was on its way in either direction is lost. *)
OnClose(s) ==
  /\ Settled /\ sockets[s] \in {"connecting", "open"} /\ losses < MaxLosses
  /\ sockets' = [sockets EXCEPT ![s] = "closed"]
  /\ wsInFlight' = FALSE
  /\ connects' = connects + 1
  /\ asked' = [asked EXCEPT ![s] = <<>>]
  /\ progress' = [progress EXCEPT ![s] = 0]
  /\ losses' = losses + 1
  /\ UNCHANGED <<objectsWS, store, view, request, retries, seen, due, clicks>>

(* Mutant: every answer is taken for one to the current request. *)
Current_Any(r) == r.rid > 0

Current(r) == r.rid = currentRequestID

(* The server's next message on a socket: a batch, a failure (after which  *)
(* the listing is over) or the end.  Nothing the page does changes what it *)
(* sends, so it is chosen when it arrives.                                 *)
Failures == {"error", "refused", "permitted"}
Kinds == {"data", "end"} \cup Failures
Answer(s, kind) ==
  /\ Settled /\ asked[s] # <<>>
  /\ kind = "end" <=> progress[s] = Batches
  /\ progress' = [progress EXCEPT ![s] = CASE kind = "data" -> @ + 1
                                          [] kind = "end" -> 0
                                          [] OTHER -> Batches]
  /\ asked' = [asked EXCEPT ![s] = IF kind = "end" THEN Tail(@) ELSE @]
  /\ UNCHANGED <<connection, reloadObjectsList, simplePath, view, request, retries,
                 seen, due, losses, clicks>>

Item(s, permitted) ==
  [rid |-> Head(asked[s]).rid, path |-> Head(asked[s]).path, mode |-> Head(asked[s]).mode,
   batch |-> progress[s] + 1, permitted |-> permitted]

OnStale(s, kind) ==
  /\ Answer(s, kind) /\ ~Current(Head(asked[s]))
  /\ UNCHANGED <<records, requestInProgress>>

OnData(s) ==
  /\ Answer(s, "data") /\ Current(Head(asked[s]))
  /\ records' = Append(records, Item(s, FALSE))
  /\ requestInProgress' = FALSE

(* 403, and the session permits some items below the prefix. *)
OnPermitted(s) ==
  /\ Answer(s, "permitted") /\ Current(Head(asked[s]))
  /\ records' = <<Item(s, TRUE)>>
  /\ requestInProgress' = FALSE

(* 403, and the session permits no items: left to the end. *)
OnRefused(s) ==
  /\ Answer(s, "refused") /\ Current(Head(asked[s]))
  /\ UNCHANGED <<records, requestInProgress>>

(* Mutant: the end of a request does not end the progress. *)
OnOver_ErrorOnly(s, kind) ==
  /\ Answer(s, kind) /\ Current(Head(asked[s]))
  /\ requestInProgress' = (requestInProgress /\ kind = "end")
  /\ UNCHANGED records

(* An error or the end of the request. *)
OnOver(s, kind) ==
  /\ Answer(s, kind) /\ Current(Head(asked[s]))
  /\ requestInProgress' = FALSE
  /\ UNCHANGED records

-----------------------------------------------------------------------------
(* The user.                                                               *)

Click == Settled /\ clicks < MaxClicks /\ clicks' = clicks + 1

Navigate(path) ==
  /\ Click /\ location # path
  /\ location' = path
  /\ seen' = IF location = NoPath THEN <<>> ELSE seen
  /\ UNCHANGED <<connection, network, store, request, showDeleted, retries, due, losses>>

(* Leaving the browser cancels the last request; the server reads that     *)
(* after the listing and cancels nothing (CancelReachesListing).           *)
Leave ==
  /\ Click /\ location # NoPath
  /\ location' = NoPath
  /\ UNCHANGED <<connection, network, store, request, showDeleted, retries, seen,
                 due, losses>>

(* Mutant: the list is cleared and no reload is asked for. *)
setReloadObjectsList_Clears == records' = <<>> /\ UNCHANGED reloadObjectsList

(* "Reload List", and what deletes, uploads or sorts objects. *)
setReloadObjectsList == reloadObjectsList' = TRUE /\ records' = <<>>

Refresh ==
  /\ Click /\ location # NoPath
  /\ setReloadObjectsList
  /\ UNCHANGED <<connection, network, requestInProgress, simplePath, view, request,
                 retries, seen, due, losses>>

setDeletedAction ==
  /\ Click /\ location # NoPath
  /\ setReloadObjectsList
  /\ showDeleted' = ~showDeleted
  /\ UNCHANGED <<connection, network, requestInProgress, simplePath, location, request,
                 retries, seen, due, losses>>

-----------------------------------------------------------------------------
Next ==
  \/ Commit \/ RunEffect \/ OBConnect \/ Retry
  \/ \E s \in Sockets : OnOpen(s)
  \/ \E s \in Sockets : OnClose(s)
  \/ \E s \in Sockets, kind \in Kinds : OnStale(s, kind)
  \/ \E s \in Sockets : OnData(s)
  \/ \E s \in Sockets : OnPermitted(s)
  \/ \E s \in Sockets : OnRefused(s)
  \/ \E s \in Sockets, kind \in {"error", "end"} : OnOver(s, kind)
  \/ \E path \in Paths : Navigate(path)
  \/ Leave \/ Refresh \/ setDeletedAction

OnMessage(s) ==
  \/ \E kind \in Kinds : OnStale(s, kind)
  \/ OnData(s) \/ OnPermitted(s) \/ OnRefused(s)
  \/ \E kind \in {"error", "end"} : OnOver(s, kind)

(* The event loop runs what is due; connections are made and answered as   *)
(* long as they are not lost.  Nothing is assumed of the user.             *)
Spec == Init /\ [][Next]_vars
FairSpec ==
  /\ Spec /\ WF_vars(Commit) /\ WF_vars(RunEffect) /\ WF_vars(OBConnect)
  /\ WF_vars(Retry)
  /\ \A s \in Sockets : WF_vars(OnOpen(s)) /\ WF_vars(OnMessage(s))

-----------------------------------------------------------------------------
(* Properties.                                                             *)

TypeOK ==
  /\ sockets \in [Sockets -> {"none", "connecting", "open", "closed"}]
  /\ objectsWS \in Sockets /\ carrier \in 0..MaxSockets
  /\ wsInFlight \in BOOLEAN /\ currentRequestID \in Nat /\ connects \in 0..losses
  /\ \A s \in Sockets : asked[s] # <<>> => sockets[s] = "open"
  /\ progress \in [Sockets -> 0..Batches]
  /\ requestInProgress \in BOOLEAN /\ reloadObjectsList \in BOOLEAN
  /\ simplePath \in Paths \cup {NoPath} /\ location \in Paths \cup {NoPath}
  /\ showDeleted \in BOOLEAN /\ Len(due) <= 2

(* Whatever sockets are open, whatever is retried and however late answers *)
(* come: the list holds the answers to one request, for the path the list  *)
(* says it shows, and a batch at most once and in order.                   *)
ListOfOneRequest ==
  /\ \A k \in 1..Len(records) :
       records[k].rid = currentRequestID /\ records[k].path = simplePath
  /\ \A k \in 1..Len(records) - 1 :
       records[k + 1].batch = records[k].batch + 1

(* A list without its beginning (cleared while batches were coming) is     *)
(* about to be replaced: a reload or a request is still due.               *)
TruncatedIsReplaced ==
  (Settled /\ records # <<>> /\ records[1].batch > 1 /\ ~records[1].permitted)
    => retries # <<>> \/ reloadObjectsList

(* The list ends up showing the path at which the user stays, though older *)
(* requests are retried after newer ones and connections are lost.         *)
PathIsShown == <>[](location = NoPath \/ simplePath = location)

(* A request on a connection that lasts ends up listed: not in progress,   *)
(* and nothing is retried for ever.                                        *)
ListingCompletes ==
  <>[](/\ retries = <<>>
       /\ requestInProgress => carrier = 0 \/ sockets[carrier] = "closed")

-----------------------------------------------------------------------------
(* What comments promise and the code does not do.                         *)

(* "If .. reload objects list is requested, then we initialize a new       *)
(* request to load a new record set."                                      *)
ReloadIsServed == reloadObjectsList ~> (~reloadObjectsList \/ location = NoPath)
=============================================================================
