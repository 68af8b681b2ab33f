--------------------------- MODULE TransferManager ---------------------------
(***************************************************************************)
(* The object manager of the web application: downloads and uploads are    *)
(* put in a list, the TrafficMonitor component sends the oldest ones while *)
(* there are free slots, the XMLHttpRequest callbacks report progress and  *)
(* the end of each transfer, and the user cancels, dismisses and cleans.   *)
(*                                                                         *)
(* A transfer is a number; numbers are given in the order in which the     *)
(* transfers are created, which is the order of objectsToManage.  It       *)
(* stands for both random identifiers of the item (ID and instanceID).     *)
(* The item's flags are sets of transfers.  The percentage matters only as *)
(* "is it 100"; failed, errorMessage, waitingForFile, managerOpen and      *)
(* newItems only choose what is displayed and are left out.                *)
(***************************************************************************)
EXTENDS Integers, FiniteSets

CONSTANTS MaxItems,    \* bound: transfers created in one session of the page
          Configured,  \* envConstants: maxConcurrentDownloads / -Uploads
          BatchSizes   \* numbers of files the user drops at once

Types == {"download", "upload"}
Kinds == {"file", "folder", "big", "upload"}
Default == [t \in Types |-> IF t = "download" THEN 20 ELSE 10]

ASSUME ConfigAssumption == /\ MaxItems \in Nat
                           /\ Configured \in [Types -> Nat]
                           /\ BatchSizes \subseteq Nat \ {0}

(* `limitVars?.max... || default`: a configured zero is the default. *)
Limit(t) == IF Configured[t] = 0 THEN Default[t] ELSE Configured[t]

Ids == 1..MaxItems

VARIABLES
  created,    \* how many transfers exist; their numbers are 1..created
  kind,       \* what each transfer is
  listed,     \* objectsToManage
  done, cancelled, full,  \* the items with that flag / with percentage 100
  current,    \* currentDownloads and currentUploads, by type
  call,       \* state of the request object of each transfer
  traces,     \* objectCalls (and formDataElements): transfers whose call can be looked up
  promise,    \* of each upload
  batch,      \* the upload batch a transfer is in: number of its first transfer
  reloaded,   \* batches that have asked for a reload of the object list
  due         \* what the effect of TrafficMonitor's last render has yet to start

items == <<created, kind, batch>>
requests == <<call, traces, promise>>
vars == <<items, listed, done, cancelled, full, current, requests,
          reloaded, due>>

TypeOf(k) == IF k = "upload" THEN "upload" ELSE "download"
OfType(t) == {i \in 1..created : TypeOf(kind[i]) = t}
IsUpload(i) == kind[i] = "upload"
Sent == {i \in 1..created : call[i] = "sent"}
BatchOf(b) == {i \in 1..created : IsUpload(i) /\ batch[i] = b}

Nothing == [t \in Types |-> {}]

Init ==
  /\ created = 0
  /\ kind = [i \in Ids |-> "none"]
  /\ batch = [i \in Ids |-> 0]
  /\ listed = {} /\ done = {} /\ cancelled = {} /\ full = {}
  /\ current = Nothing
  /\ call = [i \in Ids |-> "none"]
  /\ traces = {}
  /\ promise = [i \in Ids |-> "none"]
  /\ reloaded = {}
  /\ due = Nothing

-----------------------------------------------------------------------------
(* Creation: the request is opened and stored before the item is listed.   *)

Fresh(n) == (created + 1)..(created + n)

(* Mutant: the files of a batch are counted as one. *)
New_CountsOne(n) ==
  /\ created + n <= MaxItems
  /\ created' = created + 1
  /\ listed' = listed \cup Fresh(n)
  /\ call' = [i \in Ids |-> IF i \in Fresh(n) THEN "opened" ELSE call[i]]
  /\ traces' = traces \cup Fresh(n)
  /\ UNCHANGED <<done, cancelled, full, current, reloaded, due>>

New(n) ==
  /\ created + n <= MaxItems
  /\ created' = created + n
  /\ listed' = listed \cup Fresh(n)
  /\ call' = [i \in Ids |-> IF i \in Fresh(n) THEN "opened" ELSE call[i]]
  /\ traces' = traces \cup Fresh(n)
  /\ UNCHANGED <<done, cancelled, full, current, reloaded, due>>

NewDownload(k) ==
  /\ New(1)
  /\ kind' = [kind EXCEPT ![created + 1] = k]
  /\ UNCHANGED <<batch, promise>>

(* uploadObject: one promise per file, all listed in the same task. *)
NewUploads(n) ==
  /\ New(n)
  /\ kind' = [i \in Ids |-> IF i \in Fresh(n) THEN "upload" ELSE kind[i]]
  /\ batch' = [i \in Ids |-> IF i \in Fresh(n) THEN created + 1 ELSE batch[i]]
  /\ promise' = [i \in Ids |-> IF i \in Fresh(n) THEN "pending" ELSE promise[i]]

-----------------------------------------------------------------------------
(* TrafficMonitor.  Its effect works on what the render selected from the  *)
(* store, so what it starts is decided then and carried out later.  A      *)
(* render whose effect has nothing to start changes nothing and is left    *)
(* out.                                                                    *)

(* Mutant: transfers in progress are not filtered out. *)
Waiting_WithCurrent(t) == (OfType(t) \cap listed) \ done

Waiting(t) == (OfType(t) \cap listed) \ (done \cup current[t])

(* Mutant: the newest are taken first. *)
Newest(W, n) ==
  {S \in SUBSET W : /\ Cardinality(S) <= n
                    /\ S # W => Cardinality(S) = n
                    /\ \A i \in S, j \in W \ S : i > j}

(* waiting.slice(0, n): the n oldest, or all of them. *)
Oldest(W, n) ==
  {S \in SUBSET W : /\ Cardinality(S) <= n
                    /\ S # W => Cardinality(S) = n
                    /\ \A i \in S, j \in W \ S : i < j}

(* Mutant: slots in use are not subtracted. *)
Free_All(t) == Limit(t)

(* Mutant: the last slot is never given out. *)
Free_ButOne(t) == IF Cardinality(current[t]) + 1 < Limit(t)
                  THEN Limit(t) - 1 - Cardinality(current[t]) ELSE 0

Free(t) == IF Cardinality(current[t]) < Limit(t)
           THEN Limit(t) - Cardinality(current[t]) ELSE 0

Render ==
  /\ due = Nothing
  /\ \E d \in Oldest(Waiting("download"), Free("download")),
        u \in Oldest(Waiting("upload"), Free("upload")) :
       due' = [t \in Types |-> IF t = "download" THEN d ELSE u]
  /\ due' # Nothing
  /\ UNCHANGED <<items, listed, done, cancelled, full, current, requests,
                 reloaded>>

(* send() of an XMLHttpRequest puts it in flight; the stand-in for a very  *)
(* large file completes its item and forgets itself before returning.      *)
(* Either way the slot is registered afterwards.                           *)
Effect ==
  LET S == traces \cap UNION {due[t] : t \in Types}
      big == {i \in S : kind[i] = "big"}
  IN
  /\ due # Nothing
  /\ call' = [i \in Ids |-> IF i \in big THEN "over"
                            ELSE IF i \in S THEN "sent" ELSE call[i]]
  /\ done' = done \cup (big \cap listed)
  /\ full' = full \cup (big \cap listed)
  /\ traces' = traces \ big
  /\ current' = [t \in Types |-> current[t] \cup due[t]]
  /\ due' = Nothing
  /\ UNCHANGED <<items, listed, cancelled, promise, reloaded>>

-----------------------------------------------------------------------------
(* The reducers that end an item.  None of them finds an item that is no   *)
(* longer listed: completeObject and cancelObjectInList then return, and   *)
(* failObject throws.                                                      *)

FreeSlot(i) == current' = [current EXCEPT ![TypeOf(kind[i])] = @ \ {i}]

completeObject(i) ==
  IF i \in listed
  THEN /\ full' = full \cup {i}
       /\ done' = done \cup {i}
       /\ FreeSlot(i)
       /\ UNCHANGED cancelled
  ELSE UNCHANGED <<done, cancelled, full, current>>

(* Mutant: a failed item keeps its slot. *)
failObject_KeepsSlot(i) ==
  IF i \in listed
  THEN done' = done \cup {i} /\ UNCHANGED <<cancelled, full, current>>
  ELSE UNCHANGED <<done, cancelled, full, current>>

failObject(i) ==
  IF i \in listed
  THEN /\ done' = done \cup {i}
       /\ FreeSlot(i)
       /\ UNCHANGED <<cancelled, full>>
  ELSE UNCHANGED <<done, cancelled, full, current>>

cancelObjectInList(i) ==
  IF i \in listed
  THEN /\ cancelled' = cancelled \cup {i}
       /\ done' = done \cup {i}
       /\ full' = full \ {i}
       /\ FreeSlot(i)
  ELSE UNCHANGED <<done, cancelled, full, current>>

Finish(i) == call[i] = "sent" /\ call' = [call EXCEPT ![i] = "over"]
Settle(i, how) ==
  promise' = IF promise[i] = "pending" THEN [promise EXCEPT ![i] = how] ELSE promise
Rest == UNCHANGED <<items, listed, reloaded, due>>

-----------------------------------------------------------------------------
(* The callbacks of the requests.                                          *)

(* All bytes are sent or received (the rounded percentage reaches 100) and *)
(* the answer is not complete yet.  The size of a folder is not known.     *)
Progress(i) ==
  /\ call[i] = "sent"
  /\ kind[i] # "folder"
  /\ full' = full \cup ({i} \cap listed)
  /\ UNCHANGED <<items, listed, done, cancelled, current, requests,
                 reloaded, due>>

Succeed(i) ==
  /\ Finish(i)
  /\ completeObject(i)
  /\ traces' = traces \ {i}
  /\ IF IsUpload(i) THEN Settle(i, "resolved") ELSE UNCHANGED promise
  /\ Rest

(* An answer that is not a success.  The promise of an upload is rejected  *)
(* and its trace removed after failObject, so not when failObject throws.  *)
Refuse(i) ==
  /\ Finish(i)
  /\ failObject(i)
  /\ IF IsUpload(i) /\ i \in listed
     THEN Settle(i, "rejected") /\ traces' = traces \ {i}
     ELSE UNCHANGED <<promise, traces>>
  /\ Rest

(* A download is answered by a JSON document: parsing the response, which  *)
(* is a Blob, throws before the error callback is called.                  *)
RefuseWithJson(i) ==
  /\ ~IsUpload(i)
  /\ Finish(i)
  /\ UNCHANGED <<traces, promise, done, cancelled, full, current>>
  /\ Rest

(* Mutant: the promise of the upload is forgotten. *)
NetworkError_Unsettled(i) ==
  /\ Finish(i)
  /\ failObject(i)
  /\ UNCHANGED <<traces, promise>>
  /\ Rest

(* A network error rejects the promise before it fails the item. *)
NetworkError(i) ==
  /\ Finish(i)
  /\ failObject(i)
  /\ IF IsUpload(i) THEN Settle(i, "rejected") ELSE UNCHANGED promise
  /\ UNCHANGED traces
  /\ Rest

(* Mutant: Promise.all, whose reaction does not run when one is rejected. *)
AllSettled_AllResolved(b) ==
  /\ BatchOf(b) # {}
  /\ b \notin reloaded
  /\ \A i \in BatchOf(b) : promise[i] = "resolved"
  /\ reloaded' = reloaded \cup {b}
  /\ UNCHANGED <<items, listed, done, cancelled, full, current, requests, due>>

(* Promise.allSettled(...).then: the object list is to be reloaded. *)
AllSettled(b) ==
  /\ BatchOf(b) # {}
  /\ b \notin reloaded
  /\ \A i \in BatchOf(b) : promise[i] \in {"resolved", "rejected"}
  /\ reloaded' = reloaded \cup {b}
  /\ UNCHANGED <<items, listed, done, cancelled, full, current,
                 requests, due>>

-----------------------------------------------------------------------------
(* The user.                                                               *)

(* The close button of an item that is not done: abort() has an effect on  *)
(* a request in flight only.                                               *)
Abort(i) ==
  /\ i \in (listed \cap traces) \ done
  /\ Finish(i)
  /\ cancelObjectInList(i)
  /\ UNCHANGED <<traces, promise>>
  /\ Rest

(* The close button of an item that is done. *)
deleteFromList(i) ==
  /\ i \in listed \cap done
  /\ listed' = listed \ {i}
  /\ UNCHANGED <<items, done, cancelled, full, current, requests,
                 reloaded, due>>

(* "Clean Completed Objects" *)
cleanList ==
  /\ listed \cap full # {}
  /\ listed' = listed \ full
  /\ UNCHANGED <<items, done, cancelled, full, current, requests,
                 reloaded, due>>

-----------------------------------------------------------------------------
Answer(i) == Succeed(i) \/ Refuse(i) \/ RefuseWithJson(i) \/ NetworkError(i)

Next ==
  \/ \E k \in Kinds \ {"upload"} : NewDownload(k)
  \/ \E n \in BatchSizes : NewUploads(n)
  \/ Render
  \/ Effect
  \/ cleanList
  \/ \E i \in 1..created : Progress(i)
  \/ \E i \in 1..created : Succeed(i)
  \/ \E i \in 1..created : Refuse(i)
  \/ \E i \in 1..created : RefuseWithJson(i)
  \/ \E i \in 1..created : NetworkError(i)
  \/ \E i \in 1..created : Abort(i)
  \/ \E i \in 1..created : deleteFromList(i)
  \/ \E i \in 1..created : AllSettled(i)

(* React runs renders and effects, promises run their reactions, and a     *)
(* request in flight is answered or broken off.  Nothing is assumed of     *)
(* the user, nor of how a request ends.                                    *)
Fairness ==
  /\ WF_vars(Render) /\ WF_vars(Effect)
  /\ \A i \in Ids : WF_vars(i \in 1..created /\ Answer(i))
  /\ \A i \in Ids : WF_vars(i \in 1..created /\ AllSettled(i))

Spec == Init /\ [][Next]_vars
FairSpec == Spec /\ Fairness

-----------------------------------------------------------------------------
(* Properties.                                                             *)

TypeOK ==
  /\ created \in 0..MaxItems
  /\ kind \in [Ids -> Kinds \cup {"none"}]
  /\ batch \in [Ids -> 0..MaxItems]
  /\ listed \subseteq 1..created
  /\ done \subseteq 1..created
  /\ cancelled \subseteq done
  /\ full \subseteq 1..created
  /\ current \in [Types -> SUBSET (1..created)]
  /\ call \in [Ids -> {"none", "opened", "sent", "over"}]
  /\ traces \subseteq 1..created
  /\ promise \in [Ids -> {"none", "pending", "resolved", "rejected"}]
  /\ reloaded \subseteq 1..created
  /\ due \in [Types -> SUBSET (1..created)]

(* However renders, effects, callbacks and clicks interleave, the browser  *)
(* never carries more transfers of a type than the configured limit.       *)
ConcurrencyLimit ==
  \A t \in Types : Cardinality(Sent \cap OfType(t)) <= Limit(t)

(* A transfer that is over and still holds its slot is one of the three    *)
(* known leaks: it was handed to the browser, its item was cleaned while   *)
(* it was in flight, or its error answer could not be parsed.              *)
Leaked(t) == {i \in current[t] : call[i] = "over"}
Unparsed(i) == ~IsUpload(i) /\ i \notin done
SlotAccounting ==
  \A t \in Types : \A i \in Leaked(t) :
    kind[i] = "big" \/ i \in full \ done \/ Unparsed(i)

(* An upload that is over has settled its promise, except when it was      *)
(* cancelled or when its item was cleaned before the refusal came.         *)
PromiseAccounting ==
  \A i \in 1..created :
    IsUpload(i) /\ call[i] = "over" /\ promise[i] = "pending"
      => i \in cancelled \/ i \in (full \ done) \ listed

(* What the effect is about to start is still listed, was never sent, is   *)
(* not done and holds no slot, although it was chosen at an earlier render:*)
(* nothing is sent twice and nothing that was dismissed is sent.           *)
StartsFresh ==
  \A t \in Types : \A i \in due[t] :
    call[i] = "opened" /\ i \in (listed \cap traces) \ (done \cup current[t])

Downloads == INSTANCE SlotQueue WITH
  N <- Limit("download"),
  waiting <- Waiting("download"),
  holding <- current["download"],
  released <- (OfType("download") \cap done) \ current["download"]

Uploads == INSTANCE SlotQueue WITH
  N <- Limit("upload"),
  waiting <- Waiting("upload"),
  holding <- current["upload"],
  released <- (OfType("upload") \cap done) \ current["upload"]

(* The object manager gives out its slots in order of arrival, never more  *)
(* than there are, and never twice to the same transfer.                   *)
GivesSlotsInOrder == Downloads!Spec /\ Uploads!Spec

(* A queued transfer is eventually started, unless every slot of its type  *)
(* is held by a transfer that is over.                                     *)
Jammed(t) == Cardinality(Leaked(t)) >= Limit(t)
QueueMoves ==
  \A i \in Ids :
    (i \in listed /\ call[i] = "opened")
      ~> (call[i] # "opened" \/ Jammed(TypeOf(kind[i])))

(* A batch of uploads ends in a reload of the object list, unless one of   *)
(* its promises was lost or the uploads are jammed.                        *)
Lost(b) == \E i \in BatchOf(b) : call[i] = "over" /\ promise[i] = "pending"
BatchReloads ==
  \A b \in Ids :
    BatchOf(b) # {} ~> (b \in reloaded \/ Lost(b) \/ Jammed("upload"))

=============================================================================
