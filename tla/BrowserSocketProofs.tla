------------------------- MODULE BrowserSocketProofs -------------------------
(* For every number of sockets, losses, batches and clicks: the listing's   *)
(* state stays typed, the list holds the answers to one request, and a list *)
(* without its beginning is about to be replaced.  What makes the last two  *)
(* inductive is where the current request can still be: on one socket, with *)
(* nothing listed of it before its turn, and then as far as the list.       *)
EXTENDS BrowserSocket, SequenceTheorems, TLAPS

Requests == [rid : Nat, path : Paths, mode : BOOLEAN]
Items == [rid : Nat, path : Paths, mode : BOOLEAN, batch : Nat, permitted : BOOLEAN]
Waiting == [path : Paths, mode : BOOLEAN]

(* The types of what TypeOK leaves to the shape of the records.            *)
Typed ==
  /\ sockets \in [Sockets -> {"none", "connecting", "open", "closed"}]
  /\ objectsWS \in Sockets /\ carrier \in 0..MaxSockets
  /\ wsInFlight \in BOOLEAN /\ currentRequestID \in Nat
  /\ connects \in Nat /\ losses \in Nat /\ connects <= losses
  /\ asked \in [Sockets -> Seq(Requests)]
  /\ progress \in [Sockets -> 0..Batches]
  /\ records \in Seq(Items) /\ retries \in Seq(Waiting)
  /\ requestInProgress \in BOOLEAN /\ reloadObjectsList \in BOOLEAN
  /\ simplePath \in Paths \cup {NoPath} /\ location \in Paths \cup {NoPath}
  /\ showDeleted \in BOOLEAN

(* Messages are only on open connections; effects only run in the browser. *)
Open == \A s \in Sockets : asked[s] # <<>> => sockets[s] = "open"
Effects == due \in Seq({"navigate", "reload"}) /\ Len(due) <= 2
             /\ (due # <<>> => location # NoPath)

TypeInv == Typed /\ Open /\ Effects

-----------------------------------------------------------------------------
(* What the actions are made of.                                           *)

LEMMA NewSocketTypes ==
  ASSUME TypeInv, NewSocket
  PROVE  /\ sockets' \in [Sockets -> {"none", "connecting", "open", "closed"}]
         /\ objectsWS' \in Sockets /\ wsInFlight' \in BOOLEAN
         /\ \A s \in Sockets : sockets[s] = "open" => sockets'[s] = "open"
BY DEF TypeInv, Typed, NewSocket, Unused

LEMMA SendRequestTypes ==
  ASSUME TypeInv, IsOpen, NEW path \in Paths, NEW mode \in BOOLEAN, SendRequest(path, mode)
  PROVE  /\ asked' \in [Sockets -> Seq(Requests)] /\ records' \in Seq(Items)
         /\ requestInProgress' \in BOOLEAN /\ reloadObjectsList' \in BOOLEAN
         /\ simplePath' \in Paths /\ currentRequestID' \in Nat /\ carrier' \in 0..MaxSockets
         /\ \A s \in Sockets : asked'[s] # <<>> => asked[s] # <<>> \/ s = objectsWS
<1>1. Ask(path, mode) \in Requests
  BY DEF Ask, Requests, TypeInv, Typed
<1>2. asked' = [asked EXCEPT ![objectsWS] = Append(asked[objectsWS], Ask(path, mode))]
  BY DEF SendRequest
<1>3. objectsWS \in Sockets /\ asked \in [Sockets -> Seq(Requests)]
  BY DEF TypeInv, Typed
<1>4. Append(asked[objectsWS], Ask(path, mode)) \in Seq(Requests)
  BY <1>1, <1>3
<1>5. asked' \in [Sockets -> Seq(Requests)]
  BY <1>2, <1>3, <1>4
<1>6. \A s \in Sockets : asked'[s] # <<>> => asked[s] # <<>> \/ s = objectsWS
  BY <1>2, <1>3
<1>7. objectsWS \in 0..MaxSockets
  BY <1>3, BrowserAssumption DEF Sockets
<1>8. records' = <<>> /\ requestInProgress' = TRUE /\ reloadObjectsList' = FALSE
      /\ simplePath' = path /\ carrier' = objectsWS
  BY DEF SendRequest
<1>9. currentRequestID' \in Nat
  BY DEF SendRequest, TypeInv, Typed
<1>10. records' \in Seq(Items)
  BY <1>8
<1> QED
  BY <1>5, <1>6, <1>7, <1>8, <1>9, <1>10

LEMMA AnswerTypes ==
  ASSUME TypeInv, NEW s \in Sockets, NEW kind \in Kinds, Answer(s, kind)
  PROVE  /\ asked' \in [Sockets -> Seq(Requests)]
         /\ progress' \in [Sockets -> 0..Batches]
         /\ \A t \in Sockets : asked'[t] # <<>> => asked[t] # <<>>
         /\ Head(asked[s]) \in Requests
         /\ kind = "data" => progress[s] \in Nat /\ progress[s] + 1 <= Batches
         /\ progress[s] \in 0..Batches
<1>1. asked \in [Sockets -> Seq(Requests)] /\ progress \in [Sockets -> 0..Batches] /\ Batches \in Nat
  BY BrowserAssumption DEF TypeInv, Typed
<1>2. asked[s] # <<>> /\ asked[s] \in Seq(Requests)
  BY <1>1 DEF Answer
<1>3. Head(asked[s]) \in Requests /\ Tail(asked[s]) \in Seq(Requests)
  BY <1>2, HeadTailProperties
<1>4. asked' = [asked EXCEPT ![s] = IF kind = "end" THEN Tail(asked[s]) ELSE asked[s]]
  BY DEF Answer
<1>5. asked' \in [Sockets -> Seq(Requests)]
  BY <1>1, <1>3, <1>4
<1>6. \A t \in Sockets : asked'[t] # <<>> => asked[t] # <<>>
  BY <1>1, <1>2, <1>4
<1>7. kind = "data" => progress[s] \in Nat /\ progress[s] + 1 <= Batches
  <2> SUFFICES ASSUME kind = "data" PROVE progress[s] \in Nat /\ progress[s] + 1 <= Batches
    OBVIOUS
  <2>1. kind # "end"
    OBVIOUS
  <2>2. progress[s] # Batches
    BY <2>1 DEF Answer
  <2>3. progress[s] \in 0..Batches
    BY <1>1
  <2> QED BY <1>1, <2>2, <2>3
<1>8. progress' \in [Sockets -> 0..Batches]
  <2> DEFINE new == CASE kind = "data" -> progress[s] + 1
                      [] kind = "end" -> 0
                      [] OTHER -> Batches
  <2>1. new \in 0..Batches
    <3>1. CASE kind = "data"
      BY <1>1, <1>7, <3>1
    <3>2. CASE kind = "end"
      BY <1>1, <3>2
    <3>3. CASE kind # "data" /\ kind # "end"
      BY <1>1, <3>3
    <3> QED BY <3>1, <3>2, <3>3
  <2>2. progress' = [progress EXCEPT ![s] = new]
    BY DEF Answer
  <2> HIDE DEF new
  <2> QED BY <1>1, <2>1, <2>2
<1> QED
  BY <1>1, <1>3, <1>5, <1>6, <1>7, <1>8

LEMMA ItemType ==
  ASSUME NEW s \in Sockets, Head(asked[s]) \in Requests, progress[s] \in 0..Batches,
         NEW permitted \in BOOLEAN
  PROVE  Item(s, permitted) \in Items
<1>1. progress[s] + 1 \in Nat
  BY BrowserAssumption
<1> QED BY <1>1 DEF Item, Items, Requests

LEMMA ListTypes ==
  ASSUME NEW l \in Seq(Items), NEW item \in Items
  PROVE  Append(l, item) \in Seq(Items) /\ <<item>> \in Seq(Items)
OBVIOUS

-----------------------------------------------------------------------------
(* Types.                                                                  *)

LEMMA TypesAtFirst == Init => TypeInv
<1> SUFFICES ASSUME Init PROVE TypeInv
  OBVIOUS
<1>1. 1 \in Sockets /\ Batches \in Nat
  BY BrowserAssumption DEF Sockets
<1>2. /\ asked \in [Sockets -> Seq(Requests)] /\ progress \in [Sockets -> 0..Batches]
      /\ records \in Seq(Items) /\ retries \in Seq(Waiting)
      /\ due \in Seq({"navigate", "reload"}) /\ Len(due) <= 2 /\ due = <<>>
  BY <1>1 DEF Init, Nothing
<1>3. \A s \in Sockets : asked[s] = <<>>
  BY DEF Init, Nothing
<1>4. carrier \in 0..MaxSockets
  BY BrowserAssumption DEF Init
<1>5. sockets \in [Sockets -> {"none", "connecting", "open", "closed"}]
  BY DEF Init
<1>6. Typed
  <2>1. /\ objectsWS = 1 /\ wsInFlight = TRUE /\ connects = 0 /\ currentRequestID = 0
        /\ requestInProgress = TRUE /\ reloadObjectsList = FALSE /\ simplePath = NoPath
        /\ location \in Paths \cup {NoPath} /\ showDeleted = FALSE /\ losses = 0
    BY DEF Init
  <2>2. connects \in Nat /\ losses \in Nat /\ connects <= losses /\ currentRequestID \in Nat
    BY <2>1
  <2>3. objectsWS \in Sockets
    BY <1>1, <2>1
  <2>4. /\ wsInFlight \in BOOLEAN /\ requestInProgress \in BOOLEAN
        /\ reloadObjectsList \in BOOLEAN /\ showDeleted \in BOOLEAN
    BY <2>1
  <2>5. simplePath \in Paths \cup {NoPath} /\ location \in Paths \cup {NoPath}
    BY <2>1
  <2> QED BY <1>2, <1>4, <1>5, <2>2, <2>3, <2>4, <2>5 DEF Typed
<1>7. Open
  BY <1>3 DEF Open
<1>8. Effects
  BY <1>2 DEF Effects
<1> QED
  BY <1>6, <1>7, <1>8 DEF TypeInv

(* The branches of an effect and of a retry. *)
LEMMA SentTypes ==
  ASSUME TypeInv, IsOpen, NEW path \in Paths, NEW mode \in BOOLEAN, SendRequest(path, mode),
         retries' \in Seq(Waiting), UNCHANGED <<view, losses>>
  PROVE  Typed' /\ Open'
<1>1. UNCHANGED <<sockets, objectsWS, wsInFlight, connects, progress>>
  BY DEF SendRequest, connection
<1>2. Typed'
  BY <1>1, SendRequestTypes DEF TypeInv, Typed, view
<1>3. Open'
  BY <1>1, SendRequestTypes DEF TypeInv, Open, IsOpen
<1> QED BY <1>2, <1>3

LEMMA RefusedTypes ==
  ASSUME TypeInv, RefuseRequest, requestInProgress' \in BOOLEAN,
         retries' \in Seq(Waiting), UNCHANGED <<view, losses>>
  PROVE  Typed' /\ Open'
<1>1. /\ sockets' \in [Sockets -> {"none", "connecting", "open", "closed"}]
      /\ objectsWS' \in Sockets /\ wsInFlight' \in BOOLEAN /\ connects' = connects
      /\ \A s \in Sockets : sockets[s] = "open" => sockets'[s] = "open"
  <2>1. CASE wsInFlight
    BY <2>1 DEF RefuseRequest, connection, TypeInv, Typed
  <2>2. CASE ~wsInFlight
    BY <2>2, NewSocketTypes DEF RefuseRequest
  <2> QED BY <2>1, <2>2
<1>2. UNCHANGED <<network, records, simplePath, request>> /\ reloadObjectsList' = FALSE
  BY DEF RefuseRequest
<1>3. Typed'
  BY <1>1, <1>2 DEF TypeInv, Typed, view, network, request
<1>4. Open'
  BY <1>1, <1>2 DEF TypeInv, Open, network
<1> QED BY <1>3, <1>4

LEMMA AnsweredTypes ==
  ASSUME TypeInv, NEW s \in Sockets, NEW kind \in Kinds, Answer(s, kind),
         records' \in Seq(Items), requestInProgress' \in BOOLEAN
  PROVE  TypeInv'
<1>1. UNCHANGED <<connection, reloadObjectsList, simplePath, view, request, retries,
                  seen, due, losses, clicks>>
  BY DEF Answer
<1>2. Typed'
  BY <1>1, AnswerTypes DEF TypeInv, Typed, connection, view, request
<1>3. Open'
  BY <1>1, AnswerTypes DEF TypeInv, Open, connection
<1>4. Effects'
  BY <1>1 DEF TypeInv, Effects, view
<1> QED BY <1>2, <1>3, <1>4 DEF TypeInv

LEMMA TypesKept == TypeInv /\ [Next]_vars => TypeInv'
<1> SUFFICES ASSUME TypeInv, [Next]_vars PROVE TypeInv'
  OBVIOUS
<1>1. CASE Commit
  <2>1. UNCHANGED <<connection, network, store, view, request, retries, losses, clicks>>
    BY <1>1 DEF Commit
  <2>2. Typed' /\ Open'
    BY <2>1 DEF TypeInv, Typed, Open, connection, network, store, view, request
  <2>3. location' # NoPath
    BY <1>1, <2>1 DEF Commit, view
  <2>4. due' \in Seq({"navigate", "reload"}) /\ Len(due') <= 2
    <3> DEFINE one == IF (seen = <<>> \/ seen[1] # PathLoad) /\ location # simplePath
                      THEN <<"navigate">> ELSE <<>>
               two == IF reloadObjectsList /\ records = <<>> /\ ~requestInProgress
                      THEN <<"reload">> ELSE <<>>
    <3>1. due' = one \o two
      BY <1>1 DEF Commit
    <3>2. /\ <<"navigate">> \in Seq({"navigate", "reload"}) /\ Len(<<"navigate">>) = 1
          /\ <<"reload">> \in Seq({"navigate", "reload"}) /\ Len(<<"reload">>) = 1
          /\ <<>> \in Seq({"navigate", "reload"}) /\ Len(<<>>) = 0
      OBVIOUS
    <3>3. one \in {<<"navigate">>, <<>>} /\ two \in {<<"reload">>, <<>>}
      OBVIOUS
    <3> HIDE DEF one, two
    <3>4. /\ one \in Seq({"navigate", "reload"}) /\ Len(one) \in 0..1
          /\ two \in Seq({"navigate", "reload"}) /\ Len(two) \in 0..1
      <4>1. one \in Seq({"navigate", "reload"}) /\ two \in Seq({"navigate", "reload"})
        BY <3>2, <3>3
      <4>2. Len(one) = 0 \/ Len(one) = 1
        BY <3>2, <3>3
      <4>3. Len(two) = 0 \/ Len(two) = 1
        BY <3>2, <3>3
      <4> QED BY <4>1, <4>2, <4>3
    <3>5. due' \in Seq({"navigate", "reload"}) /\ Len(due') = Len(one) + Len(two)
      BY <3>1, <3>4, ConcatProperties
    <3>6. \A m, n \in 0..1 : m + n <= 2
      OBVIOUS
    <3>7. Len(one) + Len(two) <= 2
      BY <3>4, <3>6
    <3> QED BY <3>5, <3>7
  <2> QED BY <2>2, <2>3, <2>4 DEF TypeInv, Effects
<1>2. CASE RunEffect
  <2>1. due # <<>> /\ due' = Tail(due) /\ UNCHANGED <<view, seen, losses, clicks>>
    BY <1>2 DEF RunEffect
  <2>2. location \in Paths /\ showDeleted \in BOOLEAN
    BY <2>1 DEF TypeInv, Typed, Effects
  <2>3. Effects'
    <3>1. due' \in Seq({"navigate", "reload"}) /\ Len(due') <= 2
      BY <2>1, HeadTailProperties DEF TypeInv, Effects
    <3>2. location' # NoPath
      BY <2>1 DEF TypeInv, Effects, view
    <3> QED BY <3>1, <3>2 DEF Effects
  <2>4. CASE IsOpen /\ SendRequest(location, showDeleted) /\ UNCHANGED retries
    <3>1. retries' \in Seq(Waiting)
      BY <2>4 DEF TypeInv, Typed
    <3> QED BY <2>1, <2>2, <2>3, <2>4, <3>1, SentTypes DEF TypeInv
  <2>5. CASE /\ ~IsOpen /\ RefuseRequest /\ requestInProgress' = TRUE
             /\ retries' = Append(retries, [path |-> location, mode |-> showDeleted])
    <3>1. retries' \in Seq(Waiting)
      BY <2>2, <2>5 DEF TypeInv, Typed, Waiting
    <3> QED BY <2>1, <2>3, <2>5, <3>1, RefusedTypes DEF TypeInv
  <2> QED BY <1>2, <2>4, <2>5 DEF RunEffect
<1>3. CASE OBConnect
  <2>1. connects \in Nat /\ connects > 0 /\ connects' = connects - 1
    BY <1>3 DEF OBConnect, TypeInv, Typed
  <2>2. UNCHANGED <<network, store, view, request, retries, seen, due, losses, clicks>>
    BY <1>3 DEF OBConnect
  <2>3. /\ sockets' \in [Sockets -> {"none", "connecting", "open", "closed"}]
        /\ objectsWS' \in Sockets /\ wsInFlight' \in BOOLEAN
        /\ \A s \in Sockets : sockets[s] = "open" => sockets'[s] = "open"
    <3>1. CASE wsInFlight
      BY <1>3, <3>1 DEF OBConnect, TypeInv, Typed
    <3>2. CASE ~wsInFlight
      BY <1>3, <3>2, NewSocketTypes DEF OBConnect
    <3> QED BY <3>1, <3>2
  <2>4. connects' \in Nat /\ connects' <= losses'
    BY <2>1, <2>2 DEF TypeInv, Typed
  <2>5. Typed'
    BY <2>2, <2>3, <2>4 DEF TypeInv, Typed, network, store, view, request
  <2>6. Open' /\ Effects'
    BY <2>2, <2>3 DEF TypeInv, Open, Effects, network, view
  <2> QED BY <2>5, <2>6 DEF TypeInv
<1>4. CASE Retry
  <2>1. Settled /\ retries # <<>> /\ UNCHANGED <<view, seen, due, losses, clicks>>
    BY <1>4 DEF Retry
  <2>2. Head(retries) \in Waiting /\ Tail(retries) \in Seq(Waiting)
    BY <2>1, HeadTailProperties DEF TypeInv, Typed
  <2>3. Head(retries).path \in Paths /\ Head(retries).mode \in BOOLEAN
    BY <2>2 DEF Waiting
  <2>4. Effects'
    BY <2>1 DEF TypeInv, Effects, view
  <2>5. CASE /\ IsOpen /\ SendRequest(Head(retries).path, Head(retries).mode)
             /\ retries' = Tail(retries)
    BY <2>1, <2>2, <2>3, <2>4, <2>5, SentTypes DEF TypeInv
  <2>6. CASE /\ ~IsOpen /\ RefuseRequest /\ UNCHANGED requestInProgress
             /\ retries' = Append(Tail(retries), Head(retries))
    <3>1. retries' \in Seq(Waiting)
      BY <2>2, <2>6
    <3>2. requestInProgress' \in BOOLEAN
      BY <2>6 DEF TypeInv, Typed
    <3> QED BY <2>1, <2>4, <2>6, <3>1, <3>2, RefusedTypes DEF TypeInv
  <2> QED BY <1>4, <2>5, <2>6 DEF Retry
<1>5. ASSUME NEW s \in Sockets, OnOpen(s) PROVE TypeInv'
  <2>1. /\ sockets[s] = "connecting" /\ sockets' = [sockets EXCEPT ![s] = "open"]
        /\ wsInFlight' = FALSE
        /\ UNCHANGED <<objectsWS, connects, network, store, view, request, retries,
                       seen, due, losses, clicks>>
    BY <1>5 DEF OnOpen
  <2>2. sockets' \in [Sockets -> {"none", "connecting", "open", "closed"}]
    BY <2>1 DEF TypeInv, Typed
  <2>3. \A t \in Sockets : sockets[t] = "open" => sockets'[t] = "open"
    BY <2>1 DEF TypeInv, Typed
  <2>4. Typed'
    BY <2>1, <2>2 DEF TypeInv, Typed, network, store, view, request
  <2> QED BY <2>1, <2>3, <2>4 DEF TypeInv, Open, Effects, network, view
<1>6. ASSUME NEW s \in Sockets, OnClose(s) PROVE TypeInv'
  <2>1. /\ sockets' = [sockets EXCEPT ![s] = "closed"] /\ wsInFlight' = FALSE
        /\ connects' = connects + 1 /\ losses' = losses + 1
        /\ asked' = [asked EXCEPT ![s] = <<>>] /\ progress' = [progress EXCEPT ![s] = 0]
        /\ UNCHANGED <<objectsWS, store, view, request, retries, seen, due, clicks>>
    BY <1>6 DEF OnClose
  <2>2. /\ sockets' \in [Sockets -> {"none", "connecting", "open", "closed"}]
        /\ \A t \in Sockets : t # s => sockets'[t] = sockets[t]
    BY <2>1 DEF TypeInv, Typed
  <2>3. asked' \in [Sockets -> Seq(Requests)]
    BY <2>1 DEF TypeInv, Typed
  <2>4. progress' \in [Sockets -> 0..Batches]
    BY <2>1, BrowserAssumption DEF TypeInv, Typed
  <2>5. connects' \in Nat /\ losses' \in Nat /\ connects' <= losses'
    BY <2>1 DEF TypeInv, Typed
  <2>6. Typed'
    BY <2>1, <2>2, <2>3, <2>4, <2>5 DEF TypeInv, Typed, store, view, request
  <2>7. Open'
    BY <2>1, <2>2 DEF TypeInv, Typed, Open
  <2> QED BY <2>1, <2>6, <2>7 DEF TypeInv, Effects, view
<1>7. ASSUME NEW s \in Sockets, NEW kind \in Kinds, OnStale(s, kind) PROVE TypeInv'
  <2>1. records' \in Seq(Items) /\ requestInProgress' \in BOOLEAN
    BY <1>7 DEF OnStale, TypeInv, Typed
  <2> QED BY <1>7, <2>1, AnsweredTypes DEF OnStale
<1>8. ASSUME NEW s \in Sockets, OnData(s) PROVE TypeInv'
  <2>1. "data" \in Kinds /\ Answer(s, "data")
    BY <1>8 DEF OnData, Kinds
  <2>2. Item(s, FALSE) \in Items
    BY <2>1, AnswerTypes, ItemType
  <2>3. records' = Append(records, Item(s, FALSE)) /\ requestInProgress' \in BOOLEAN
    BY <1>8 DEF OnData
  <2>4. records' \in Seq(Items)
    BY <2>2, <2>3, ListTypes DEF TypeInv, Typed
  <2> QED BY <2>1, <2>3, <2>4, AnsweredTypes
<1>9. ASSUME NEW s \in Sockets, OnPermitted(s) PROVE TypeInv'
  <2>1. "permitted" \in Kinds /\ Answer(s, "permitted")
    BY <1>9 DEF OnPermitted, Kinds, Failures
  <2>2. Item(s, TRUE) \in Items
    BY <2>1, AnswerTypes, ItemType
  <2>3. records' = <<Item(s, TRUE)>> /\ requestInProgress' \in BOOLEAN
    BY <1>9 DEF OnPermitted
  <2>4. records' \in Seq(Items)
    BY <2>2, <2>3, ListTypes DEF TypeInv, Typed
  <2> QED BY <2>1, <2>3, <2>4, AnsweredTypes
<1>10. ASSUME NEW s \in Sockets, OnRefused(s) PROVE TypeInv'
  <2>1. "refused" \in Kinds /\ Answer(s, "refused")
    BY <1>10 DEF OnRefused, Kinds, Failures
  <2>2. records' \in Seq(Items) /\ requestInProgress' \in BOOLEAN
    BY <1>10 DEF OnRefused, TypeInv, Typed
  <2> QED BY <2>1, <2>2, AnsweredTypes
<1>11. ASSUME NEW s \in Sockets, NEW kind \in {"error", "end"}, OnOver(s, kind) PROVE TypeInv'
  <2>1. kind \in Kinds /\ Answer(s, kind)
    BY <1>11 DEF OnOver, Kinds, Failures
  <2>2. records' \in Seq(Items) /\ requestInProgress' \in BOOLEAN
    BY <1>11 DEF OnOver, TypeInv, Typed
  <2> QED BY <2>1, <2>2, AnsweredTypes
<1>12. ASSUME NEW path \in Paths, Navigate(path) PROVE TypeInv'
  <2>1. /\ location' = path /\ due = <<>>
        /\ UNCHANGED <<connection, network, store, request, showDeleted, retries, due, losses>>
    BY <1>12 DEF Navigate, Click, Settled
  <2>2. Typed'
    BY <2>1 DEF TypeInv, Typed, connection, network, store, request
  <2> QED BY <2>1, <2>2 DEF TypeInv, Open, Effects, connection, network
<1>13. CASE Leave
  <2>1. /\ location' = NoPath /\ due = <<>>
        /\ UNCHANGED <<connection, network, store, request, showDeleted, retries, due, losses>>
    BY <1>13 DEF Leave, Click, Settled
  <2>2. Typed'
    BY <2>1 DEF TypeInv, Typed, connection, network, store, request
  <2> QED BY <2>1, <2>2 DEF TypeInv, Open, Effects, connection, network
<1>14. CASE Refresh \/ setDeletedAction
  <2>1. /\ records' = <<>> /\ reloadObjectsList' = TRUE /\ showDeleted' \in BOOLEAN
        /\ UNCHANGED <<connection, network, requestInProgress, simplePath, location, request,
                       retries, due, losses>>
    BY <1>14 DEF Refresh, setDeletedAction, setReloadObjectsList, view, TypeInv, Typed
  <2>2. records' \in Seq(Items)
    BY <2>1
  <2>3. Typed'
    BY <2>1, <2>2 DEF TypeInv, Typed, connection, network, request
  <2> QED BY <2>1, <2>3 DEF TypeInv, Open, Effects, connection, network
<1>15. CASE UNCHANGED vars
  BY <1>15 DEF vars, TypeInv, Typed, Open, Effects, connection, network, store, view, request
<1> QED
  BY <1>1, <1>2, <1>3, <1>4, <1>5, <1>6, <1>7, <1>8, <1>9, <1>10, <1>11, <1>12, <1>13,
     <1>14, <1>15 DEF Next

(* The state keeps its types and bounds: answers only on open connections,  *)
(* no more reconnections than losses.                                       *)
THEOREM ListingTypes == Spec => []TypeInv
BY TypesAtFirst, TypesKept, PTL DEF Spec

THEOREM BrowserTypeCorrect == Spec => []TypeOK
<1>1. TypeInv => TypeOK
  BY DEF TypeInv, Typed, Open, Effects, TypeOK
<1> QED BY <1>1, ListingTypes, PTL

-----------------------------------------------------------------------------
(* Where the current request is, and what is listed of it.                 *)

IsCurrent(s, k) == k \in 1..Len(asked[s]) /\ asked[s][k].rid = currentRequestID

(* In one place at most, behind older ones, and for the path shown.        *)
Places ==
  /\ \A s \in Sockets : \A k \in 1..Len(asked[s]) : asked[s][k].rid <= currentRequestID
  /\ \A s, t \in Sockets : \A k, l \in Nat : IsCurrent(s, k) /\ IsCurrent(t, l) => s = t /\ k = l
  /\ \A s \in Sockets : \A k \in Nat : IsCurrent(s, k) => asked[s][k].path = simplePath

(* Nothing is listed of it before its turn, and then as far as it has come. *)
Turns ==
  /\ \A s \in Sockets : \A k \in Nat : IsCurrent(s, k) /\ k > 1 => records = <<>>
  /\ \A s \in Sockets : asked[s] = <<>> => progress[s] = 0
  /\ \A s \in Sockets : IsCurrent(s, 1) /\ records # <<>> /\ progress[s] # Batches
                          => records[Len(records)].batch = progress[s]

(* A list that was cleared in the middle is to be asked for again.         *)
Replaced ==
  /\ \A s \in Sockets : IsCurrent(s, 1) /\ records = <<>> /\ progress[s] > 0
                          /\ progress[s] # Batches => reloadObjectsList \/ retries # <<>>
  /\ records # <<>> /\ records[1].batch > 1 /\ ~records[1].permitted
       => reloadObjectsList \/ retries # <<>>

ListInv == Places /\ Turns /\ Replaced /\ ListOfOneRequest

LEMMA ListAtFirst == Init => ListInv
<1> SUFFICES ASSUME Init PROVE ListInv
  OBVIOUS
<1>1. \A s \in Sockets : asked[s] = <<>> /\ Len(asked[s]) = 0 /\ progress[s] = 0
  BY DEF Init, Nothing
<1>2. \A s \in Sockets, k \in Nat : ~IsCurrent(s, k)
  BY <1>1 DEF IsCurrent
<1>3. records = <<>> /\ Len(records) = 0
  BY DEF Init
<1>4. Places
  BY <1>1, <1>2 DEF Places
<1>5. Turns /\ Replaced
  BY <1>1, <1>2, <1>3 DEF Turns, Replaced
<1>6. ListOfOneRequest
  BY <1>3 DEF ListOfOneRequest
<1> QED BY <1>4, <1>5, <1>6 DEF ListInv

(* The new request is the only current one, and the last of its socket.    *)
LEMMA SendKeepsList ==
  ASSUME TypeInv, ListInv, NEW path \in Paths, NEW mode \in BOOLEAN, SendRequest(path, mode)
  PROVE  ListInv'
<1> DEFINE o == objectsWS  new == Ask(path, mode)
<1>1. /\ o \in Sockets /\ asked \in [Sockets -> Seq(Requests)] /\ currentRequestID \in Nat
      /\ new \in Requests /\ new.rid = currentRequestID + 1 /\ new.path = path
  <2>1. o \in Sockets /\ asked \in [Sockets -> Seq(Requests)] /\ currentRequestID \in Nat
    BY DEF TypeInv, Typed
  <2>2. currentRequestID + 1 \in Nat
    BY <2>1
  <2>3. new \in Requests
    BY <2>2 DEF Ask, Requests
  <2>4. new.rid = currentRequestID + 1 /\ new.path = path
    BY DEF Ask
  <2> QED BY <2>1, <2>3, <2>4
<1>2. /\ records' = <<>> /\ simplePath' = path /\ currentRequestID' = currentRequestID + 1
      /\ asked' = [asked EXCEPT ![o] = Append(asked[o], new)] /\ progress' = progress
  BY DEF SendRequest
<1>3. \A s \in Sockets : s # o => asked'[s] = asked[s]
  BY <1>1, <1>2
<1>4. asked'[o] = Append(asked[o], new)
  BY <1>1, <1>2
<1>5. /\ Len(asked[o]) \in Nat /\ Len(asked'[o]) = Len(asked[o]) + 1
      /\ asked'[o][Len(asked[o]) + 1] = new
      /\ \A k \in 1..Len(asked[o]) : asked'[o][k] = asked[o][k]
  <2> HIDE DEF o, new
  <2> QED BY <1>1, <1>4
<1>6. \A s \in Sockets : \A k \in 1..Len(asked[s]) :
        asked[s][k].rid \in Nat /\ asked[s][k].rid <= currentRequestID
  <2> SUFFICES ASSUME NEW s \in Sockets, NEW k \in 1..Len(asked[s])
               PROVE  asked[s][k].rid \in Nat /\ asked[s][k].rid <= currentRequestID
    OBVIOUS
  <2>1. asked[s][k] \in Requests
    BY <1>1, ElementOfSeq
  <2> QED BY <2>1 DEF Requests, ListInv, Places
<1> HIDE DEF o, new
<1>7. \A s \in Sockets, k \in Nat : IsCurrent(s, k)' => s = o /\ k = Len(asked[o]) + 1
  <2> SUFFICES ASSUME NEW s \in Sockets, NEW k \in Nat, k \in 1..Len(asked'[s]),
                      asked'[s][k].rid = currentRequestID + 1
               PROVE  s = o /\ k = Len(asked[o]) + 1
    BY <1>2 DEF IsCurrent
  <2>1. CASE s # o
    BY <2>1, <1>1, <1>3, <1>6
  <2>2. CASE s = o /\ k # Len(asked[o]) + 1
    <3>1. k \in 1..Len(asked[o])
      BY <2>2, <1>5
    <3> QED BY <2>2, <3>1, <1>1, <1>5, <1>6
  <2> QED BY <2>1, <2>2
<1>8. Places'
  <2>1. \A s \in Sockets : \A k \in 1..Len(asked'[s]) : asked'[s][k].rid <= currentRequestID'
    <3> SUFFICES ASSUME NEW s \in Sockets, NEW k \in 1..Len(asked'[s])
                 PROVE  asked'[s][k].rid <= currentRequestID + 1
      BY <1>2
    <3>1. CASE s # o
      BY <3>1, <1>1, <1>3, <1>6
    <3>2. CASE s = o /\ k # Len(asked[o]) + 1
      <4>1. k \in 1..Len(asked[o])
        BY <3>2, <1>5
      <4> QED BY <3>2, <4>1, <1>1, <1>5, <1>6
    <3>3. CASE s = o /\ k = Len(asked[o]) + 1
      BY <3>3, <1>1, <1>5
    <3> QED BY <3>1, <3>2, <3>3
  <2>2. \A s \in Sockets : \A k \in Nat : IsCurrent(s, k)' => asked'[s][k].path = simplePath'
    BY <1>1, <1>2, <1>5, <1>7
  <2> QED BY <2>1, <2>2, <1>7 DEF Places
<1>9. \A s \in Sockets : asked'[s] = <<>> => progress'[s] = 0
  <2>1. asked'[o] # <<>>
    BY <1>1, <1>4
  <2>2. \A s \in Sockets : asked[s] = <<>> => progress[s] = 0
    BY DEF ListInv, Turns
  <2> QED BY <2>1, <2>2, <1>2, <1>3
<1>10. Turns'
  BY <1>2, <1>9 DEF Turns
<1>11. Replaced'
  <2> SUFFICES ASSUME NEW s \in Sockets, IsCurrent(s, 1)' PROVE progress[s] = 0
    BY <1>2 DEF Replaced
  <2>1. s = o /\ Len(asked[o]) = 0
    BY <1>5, <1>7
  <2>2. asked[o] = <<>>
    BY <2>1, <1>1, EmptySeq
  <2> QED BY <2>1, <2>2, <1>1 DEF ListInv, Turns
<1>12. ListOfOneRequest'
  <2>1. Len(records') = 0
    BY <1>2
  <2> QED BY <2>1 DEF ListOfOneRequest
<1> QED BY <1>8, <1>10, <1>11, <1>12 DEF ListInv

(* What is still asked was asked before, its place as it was or one nearer. *)
LEMMA AnswerQueue ==
  ASSUME TypeInv, NEW s \in Sockets, NEW kind \in Kinds, Answer(s, kind)
  PROVE  /\ Len(asked[s]) \in Nat /\ Len(asked[s]) > 0 /\ Head(asked[s]) = asked[s][1]
         /\ \A t \in Sockets : t # s => asked'[t] = asked[t] /\ progress'[t] = progress[t]
         /\ kind # "end" => asked' = asked
         /\ kind = "end" => /\ progress'[s] = 0 /\ Len(asked'[s]) = Len(asked[s]) - 1
                            /\ \A k \in 1..Len(asked'[s]) : asked'[s][k] = asked[s][k + 1]
         /\ kind = "data" => progress'[s] = progress[s] + 1 /\ progress[s] # Batches
         /\ kind \notin {"data", "end"} => progress'[s] = Batches
         /\ currentRequestID' = currentRequestID /\ simplePath' = simplePath
         /\ reloadObjectsList' = reloadObjectsList /\ retries' = retries
<1>1. asked \in [Sockets -> Seq(Requests)] /\ progress \in [Sockets -> 0..Batches]
  BY DEF TypeInv, Typed
<1>2. asked[s] \in Seq(Requests) /\ asked[s] # <<>>
  BY <1>1 DEF Answer
<1>3. Len(asked[s]) \in Nat /\ Len(asked[s]) > 0
  BY <1>2, EmptySeq
<1>4. Head(asked[s]) = asked[s][1]
  BY <1>2
<1>5. asked' = [asked EXCEPT ![s] = IF kind = "end" THEN Tail(asked[s]) ELSE asked[s]]
  BY DEF Answer
<1>6. kind # "end" => asked' = asked
  BY <1>1, <1>5
<1>7. kind = "end" => /\ Len(asked'[s]) = Len(asked[s]) - 1
                      /\ \A k \in 1..Len(asked'[s]) : asked'[s][k] = asked[s][k + 1]
  BY <1>1, <1>2, <1>5, HeadTailProperties
<1>8. progress' = [progress EXCEPT ![s] = CASE kind = "data" -> progress[s] + 1
                                            [] kind = "end" -> 0
                                            [] OTHER -> Batches]
  BY DEF Answer
<1>9. \A t \in Sockets : t # s => asked'[t] = asked[t] /\ progress'[t] = progress[t]
  <2> DEFINE new == CASE kind = "data" -> progress[s] + 1
                      [] kind = "end" -> 0
                      [] OTHER -> Batches
  <2>1. progress' = [progress EXCEPT ![s] = new]
    BY <1>8
  <2> HIDE DEF new
  <2> QED BY <1>1, <1>5, <2>1
<1>10. progress'[s] = CASE kind = "data" -> progress[s] + 1
                        [] kind = "end" -> 0
                        [] OTHER -> Batches
  <2> DEFINE new == CASE kind = "data" -> progress[s] + 1
                      [] kind = "end" -> 0
                      [] OTHER -> Batches
  <2>1. progress' = [progress EXCEPT ![s] = new]
    BY <1>8
  <2> HIDE DEF new
  <2>2. progress'[s] = new
    BY <1>1, <2>1
  <2> QED BY <2>2 DEF new
<1>11. kind = "data" => progress'[s] = progress[s] + 1 /\ progress[s] # Batches
  BY <1>10 DEF Answer
<1>12. kind = "end" => progress'[s] = 0
  BY <1>10
<1>13. kind \notin {"data", "end"} => progress'[s] = Batches
  BY <1>10
<1>14. /\ currentRequestID' = currentRequestID /\ simplePath' = simplePath
       /\ reloadObjectsList' = reloadObjectsList /\ retries' = retries
  BY DEF Answer, request
<1> QED BY <1>3, <1>4, <1>6, <1>7, <1>9, <1>11, <1>12, <1>13, <1>14

(* A request that is current after an answer was so before: in its place,   *)
(* or behind the one whose end has come.                                    *)
LEMMA AnswerPlaces ==
  ASSUME TypeInv, ListInv, NEW s \in Sockets, NEW kind \in Kinds, Answer(s, kind)
  PROVE  /\ Places'
         /\ \A t \in Sockets : \A k \in Nat : IsCurrent(t, k)' =>
              IF t = s /\ kind = "end" THEN IsCurrent(s, k + 1) ELSE IsCurrent(t, k)
         /\ \A t \in Sockets : asked'[t] = <<>> => progress'[t] = 0
<1> USE AnswerQueue
<1>1. \A t \in Sockets : Len(asked[t]) \in Nat /\ Len(asked'[t]) \in Nat
  <2>1. asked \in [Sockets -> Seq(Requests)]
    BY DEF TypeInv, Typed
  <2>2. asked' \in [Sockets -> Seq(Requests)]
    BY AnswerTypes
  <2> QED BY <2>1, <2>2
<1>2. \A t \in Sockets : \A k \in Nat : k \in 1..Len(asked'[t]) =>
        \E l \in Nat : /\ l = (IF t = s /\ kind = "end" THEN k + 1 ELSE k)
                       /\ l \in 1..Len(asked[t]) /\ asked'[t][k] = asked[t][l]
  <2> SUFFICES ASSUME NEW t \in Sockets, NEW k \in Nat, k \in 1..Len(asked'[t])
               PROVE  \E l \in Nat : /\ l = (IF t = s /\ kind = "end" THEN k + 1 ELSE k)
                                     /\ l \in 1..Len(asked[t]) /\ asked'[t][k] = asked[t][l]
    OBVIOUS
  <2>1. CASE t = s /\ kind = "end"
    <3>1. k + 1 \in 1..Len(asked[s]) /\ asked'[s][k] = asked[s][k + 1]
      BY <1>1, <2>1
    <3> QED BY <2>1, <3>1
  <2>2. CASE ~(t = s /\ kind = "end")
    <3>1. asked'[t] = asked[t]
      BY <2>2
    <3> QED BY <2>2, <3>1
  <2> QED BY <2>1, <2>2
<1>3. \A t \in Sockets : \A k \in Nat : IsCurrent(t, k)' =>
        IF t = s /\ kind = "end" THEN IsCurrent(s, k + 1) ELSE IsCurrent(t, k)
  BY <1>1, <1>2 DEF IsCurrent
<1>4. \A t \in Sockets : \A k \in 1..Len(asked'[t]) : asked'[t][k].rid <= currentRequestID'
  <2> SUFFICES ASSUME NEW t \in Sockets, NEW k \in 1..Len(asked'[t])
               PROVE  asked'[t][k].rid <= currentRequestID'
    OBVIOUS
  <2>1. k \in Nat
    BY <1>1
  <2>2. PICK l \in Nat : /\ l = (IF t = s /\ kind = "end" THEN k + 1 ELSE k)
                         /\ l \in 1..Len(asked[t]) /\ asked'[t][k] = asked[t][l]
    BY <1>2, <2>1
  <2> QED BY <2>2 DEF ListInv, Places
<1>5. ASSUME NEW t \in Sockets, NEW u \in Sockets, NEW k \in Nat, NEW l \in Nat,
             IsCurrent(t, k)', IsCurrent(u, l)'
      PROVE  t = u /\ k = l
  <2>1. \A v, w \in Sockets : \A i, j \in Nat : IsCurrent(v, i) /\ IsCurrent(w, j) => v = w /\ i = j
    BY DEF ListInv, Places
  <2>2. CASE (t = s /\ kind = "end") /\ (u = s /\ kind = "end")
    <3>1. IsCurrent(s, k + 1) /\ IsCurrent(s, l + 1)
      BY <1>3, <1>5, <2>2
    <3>2. k + 1 = l + 1
      BY <2>1, <3>1
    <3> QED BY <2>2, <3>2
  <2>3. CASE (t = s /\ kind = "end") /\ ~(u = s /\ kind = "end")
    <3>1. IsCurrent(s, k + 1) /\ IsCurrent(u, l)
      BY <1>3, <1>5, <2>3
    <3>2. s = u
      BY <2>1, <3>1
    <3> QED BY <2>3, <3>2
  <2>4. CASE ~(t = s /\ kind = "end") /\ (u = s /\ kind = "end")
    <3>1. IsCurrent(t, k) /\ IsCurrent(s, l + 1)
      BY <1>3, <1>5, <2>4
    <3>2. t = s
      BY <2>1, <3>1
    <3> QED BY <2>4, <3>2
  <2>5. CASE ~(t = s /\ kind = "end") /\ ~(u = s /\ kind = "end")
    <3>1. IsCurrent(t, k) /\ IsCurrent(u, l)
      BY <1>3, <1>5, <2>5
    <3> QED BY <2>1, <3>1
  <2> QED BY <2>2, <2>3, <2>4, <2>5
<1>6. ASSUME NEW t \in Sockets, NEW k \in Nat, IsCurrent(t, k)'
      PROVE  asked'[t][k].path = simplePath'
  <2>1. k \in 1..Len(asked'[t])
    BY <1>6 DEF IsCurrent
  <2>2. PICK l \in Nat : /\ l = (IF t = s /\ kind = "end" THEN k + 1 ELSE k)
                         /\ asked'[t][k] = asked[t][l]
    BY <1>2, <2>1
  <2>3. IsCurrent(t, l)
    BY <1>3, <1>6, <2>2
  <2> QED BY <2>2, <2>3 DEF ListInv, Places
<1>7. \A t \in Sockets : asked'[t] = <<>> => progress'[t] = 0
  <2> SUFFICES ASSUME NEW t \in Sockets, asked'[t] = <<>> PROVE progress'[t] = 0
    OBVIOUS
  <2>1. CASE t # s
    BY <2>1 DEF ListInv, Turns
  <2>2. CASE t = s
    <3>1. asked[s] # <<>>
      BY DEF Answer
    <3> QED BY <2>2, <3>1
  <2> QED BY <2>1, <2>2
<1>8. Places'
  BY <1>4, <1>5, <1>6 DEF Places
<1> QED BY <1>3, <1>7, <1>8

(* An answer to a request before: nothing is known of the one behind it but *)
(* that its turn begins with nothing listed.                                *)
LEMMA StaleKeepsList ==
  ASSUME TypeInv, ListInv, NEW s \in Sockets, NEW kind \in Kinds, OnStale(s, kind)
  PROVE  ListInv'
<1>1. Answer(s, kind) /\ records' = records /\ Head(asked[s]).rid # currentRequestID
  BY DEF OnStale, Current
<1>2. ~IsCurrent(s, 1)
  BY <1>1, AnswerQueue DEF IsCurrent
<1>3. \A t \in Sockets : \A k \in Nat : IsCurrent(t, k)' =>
        IF t = s /\ kind = "end" THEN IsCurrent(s, k + 1) ELSE IsCurrent(t, k)
  BY <1>1, AnswerPlaces
<1>4. \A t \in Sockets : t # s => progress'[t] = progress[t]
  BY <1>1, AnswerQueue
<1>5. kind = "end" => progress'[s] = 0
  BY <1>1, AnswerQueue
<1>6. \A t \in Sockets : IsCurrent(t, 1)' =>
        \/ t # s /\ IsCurrent(t, 1)
        \/ t = s /\ records = <<>> /\ progress'[s] = 0
  <2> SUFFICES ASSUME NEW t \in Sockets, IsCurrent(t, 1)', t = s
               PROVE  records = <<>> /\ progress'[s] = 0
    BY <1>3
  <2>1. kind = "end"
    BY <1>2, <1>3
  <2>2. IsCurrent(s, 2)
    BY <1>3, <2>1
  <2> QED BY <1>5, <2>1, <2>2 DEF ListInv, Turns
<1>7. \A t \in Sockets : \A k \in Nat : IsCurrent(t, k)' /\ k > 1 => records = <<>>
  <2> SUFFICES ASSUME NEW t \in Sockets, NEW k \in Nat, IsCurrent(t, k)', k > 1
               PROVE  records = <<>>
    OBVIOUS
  <2>1. \E l \in Nat : l > 1 /\ IsCurrent(t, l)
    BY <1>3
  <2> QED BY <2>1 DEF ListInv, Turns
<1>8. Places' /\ \A t \in Sockets : asked'[t] = <<>> => progress'[t] = 0
  BY <1>1, AnswerPlaces
<1>9. Turns'
  BY <1>1, <1>4, <1>6, <1>7, <1>8 DEF ListInv, Turns
<1>10. reloadObjectsList' = reloadObjectsList /\ retries' = retries
       /\ currentRequestID' = currentRequestID /\ simplePath' = simplePath
  BY <1>1, AnswerQueue
<1>11. Replaced'
  <2>1. \A t \in Sockets : IsCurrent(t, 1)' /\ records = <<>> /\ progress'[t] > 0
                             /\ progress'[t] # Batches => reloadObjectsList \/ retries # <<>>
    BY <1>4, <1>6 DEF ListInv, Replaced
  <2> QED BY <1>1, <1>10, <2>1 DEF ListInv, Replaced
<1>12. ListOfOneRequest'
  BY <1>1, <1>10 DEF ListInv, ListOfOneRequest
<1> QED BY <1>8, <1>9, <1>11, <1>12 DEF ListInv

(* While the current request is answered it is the first of its socket, and *)
(* stays so until its end.                                                  *)
LEMMA CurrentPlaces ==
  ASSUME TypeInv, ListInv, NEW s \in Sockets, NEW kind \in Kinds, Answer(s, kind),
         Current(Head(asked[s]))
  PROVE  /\ IsCurrent(s, 1) /\ asked[s][1] = Head(asked[s])
         /\ \A t \in Sockets : \A k \in Nat : IsCurrent(t, k)' => kind # "end" /\ t = s /\ k = 1
<1>1. IsCurrent(s, 1) /\ asked[s][1] = Head(asked[s])
  BY AnswerQueue DEF IsCurrent, Current
<1>2. \A t \in Sockets : \A k \in Nat : IsCurrent(t, k) => t = s /\ k = 1
  BY <1>1 DEF ListInv, Places
<1>3. ASSUME NEW t \in Sockets, NEW k \in Nat, IsCurrent(t, k)'
      PROVE  kind # "end" /\ t = s /\ k = 1
  <2>1. CASE t = s /\ kind = "end"
    <3>1. IsCurrent(s, k + 1)
      BY <1>3, <2>1, AnswerPlaces
    <3>2. k + 1 = 1 /\ k # 0
      <4>1. k \in 1..Len(asked'[t])
        BY <1>3 DEF IsCurrent
      <4>2. k # 0
        BY <4>1
      <4> QED BY <1>2, <3>1, <4>2
    <3> QED BY <3>2
  <2>2. CASE ~(t = s /\ kind = "end")
    <3>1. IsCurrent(t, k)
      BY <1>3, <2>2, AnswerPlaces
    <3> QED BY <1>2, <2>2, <3>1
  <2> QED BY <2>1, <2>2
<1> QED BY <1>1, <1>3

(* A batch of the current request goes behind the one before it.           *)
LEMMA DataKeepsList ==
  ASSUME TypeInv, ListInv, NEW s \in Sockets, OnData(s)
  PROVE  ListInv'
<1> DEFINE item == Item(s, FALSE)  n == Len(records)
<1>1. "data" \in Kinds /\ Answer(s, "data") /\ Current(Head(asked[s]))
      /\ records' = Append(records, item)
  BY DEF OnData, Kinds
<1>2. /\ IsCurrent(s, 1) /\ asked[s][1] = Head(asked[s])
      /\ \A t \in Sockets : \A k \in Nat : IsCurrent(t, k)' => t = s /\ k = 1
  BY <1>1, CurrentPlaces
<1>3. Places' /\ \A t \in Sockets : asked'[t] = <<>> => progress'[t] = 0
  BY <1>1, AnswerPlaces
<1>4. progress'[s] = progress[s] + 1 /\ progress[s] # Batches /\ progress[s] \in 0..Batches
  BY <1>1, AnswerQueue, AnswerTypes
<1>5. item \in Items /\ item.rid = currentRequestID /\ item.path = simplePath
      /\ item.batch = progress[s] + 1
  <2>1. item \in Items
    BY <1>1, AnswerTypes, ItemType
  <2>2. item.rid = currentRequestID
    BY <1>1 DEF Item, Current
  <2>3. item.path = simplePath
    BY <1>2 DEF Item, ListInv, Places
  <2> QED BY <2>1, <2>2, <2>3 DEF Item
<1>6. records \in Seq(Items) /\ n \in Nat
  BY DEF TypeInv, Typed
<1> HIDE DEF item
<1>7. /\ Len(records') = n + 1 /\ records'[n + 1] = item
      /\ \A k \in 1..n : records'[k] = records[k]
  BY <1>1, <1>5, <1>6
<1>8. records # <<>> => n >= 1 /\ records[n].batch = progress[s]
  <2>1. records # <<>> => n >= 1
    BY <1>6, EmptySeq
  <2>2. records # <<>> => records[n].batch = progress[s]
    BY <1>2, <1>4 DEF ListInv, Turns
  <2> QED BY <2>1, <2>2
<1>9. records = <<>> => n = 0
  OBVIOUS
<1>10. /\ currentRequestID' = currentRequestID /\ simplePath' = simplePath
       /\ reloadObjectsList' = reloadObjectsList /\ retries' = retries
  BY <1>1, AnswerQueue
<1>11. records' # <<>>
  BY <1>5, <1>6, <1>1
<1> HIDE DEF n
<1>12. Turns'
  BY <1>2, <1>3, <1>4, <1>5, <1>7 DEF Turns, n
<1>13. Replaced'
  <2> SUFFICES ASSUME records'[1].batch > 1, ~records'[1].permitted
               PROVE  reloadObjectsList \/ retries # <<>>
    BY <1>10, <1>11 DEF Replaced
  <2>1. CASE records = <<>>
    <3>1. n = 0 /\ records'[1] = item
      BY <1>7, <1>9, <2>1
    <3>2. progress[s] + 1 > 1
      BY <1>5, <3>1
    <3>3. progress[s] > 0
      BY <1>4, <3>2, BrowserAssumption
    <3> QED BY <1>2, <1>4, <2>1, <3>3 DEF ListInv, Replaced
  <2>2. CASE records # <<>>
    <3>1. records'[1] = records[1]
      BY <1>6, <1>7, <1>8, <2>2
    <3> QED BY <2>2, <3>1 DEF ListInv, Replaced
  <2> QED BY <2>1, <2>2
<1>14. ListOfOneRequest'
  <2>1. ASSUME NEW k \in 1..Len(records')
        PROVE  records'[k].rid = currentRequestID' /\ records'[k].path = simplePath'
    <3>1. CASE k = n + 1
      BY <1>5, <1>7, <1>10, <3>1
    <3>2. CASE k # n + 1
      <4>1. k \in 1..n /\ records'[k] = records[k]
        BY <1>6, <1>7, <3>2
      <4> QED BY <1>10, <4>1 DEF ListInv, ListOfOneRequest, n
    <3> QED BY <3>1, <3>2
  <2>2. ASSUME NEW k \in 1..Len(records') - 1
        PROVE  records'[k + 1].batch = records'[k].batch + 1
    <3>1. k \in 1..n /\ records'[k] = records[k]
      BY <1>6, <1>7
    <3>2. CASE k = n
      <4>1. records # <<>>
        BY <1>9, <3>1
      <4> QED BY <1>5, <1>7, <1>8, <3>1, <3>2, <4>1
    <3>3. CASE k # n
      <4>1. k \in 1..n - 1 /\ k + 1 \in 1..n
        BY <1>6, <3>1, <3>3
      <4>2. records'[k + 1] = records[k + 1]
        BY <1>7, <4>1
      <4> QED BY <3>1, <4>1, <4>2 DEF ListInv, ListOfOneRequest, n
    <3> QED BY <3>2, <3>3
  <2> QED BY <2>1, <2>2 DEF ListOfOneRequest
<1> QED BY <1>3, <1>12, <1>13, <1>14 DEF ListInv

(* What the session permits replaces the list; no batch comes after it.    *)
LEMMA PermittedKeepsList ==
  ASSUME TypeInv, ListInv, NEW s \in Sockets, OnPermitted(s)
  PROVE  ListInv'
<1> DEFINE item == Item(s, TRUE)
<1>1. "permitted" \in Kinds /\ Answer(s, "permitted") /\ Current(Head(asked[s]))
      /\ records' = <<item>>
  BY DEF OnPermitted, Kinds, Failures
<1>2. /\ IsCurrent(s, 1) /\ asked[s][1] = Head(asked[s])
      /\ \A t \in Sockets : \A k \in Nat : IsCurrent(t, k)' => t = s /\ k = 1
  BY <1>1, CurrentPlaces
<1>3. Places' /\ \A t \in Sockets : asked'[t] = <<>> => progress'[t] = 0
  BY <1>1, AnswerPlaces
<1>4. progress'[s] = Batches
  BY <1>1, AnswerQueue
<1>5. item.rid = currentRequestID /\ item.path = simplePath /\ item.permitted = TRUE
  <2>1. item.rid = currentRequestID
    BY <1>1 DEF Item, Current
  <2>2. item.path = simplePath
    BY <1>2 DEF Item, ListInv, Places
  <2> QED BY <2>1, <2>2 DEF Item
<1> HIDE DEF item
<1>6. records' # <<>> /\ Len(records') = 1 /\ records'[1] = item
  BY <1>1
<1>7. currentRequestID' = currentRequestID /\ simplePath' = simplePath
  BY <1>1, AnswerQueue
<1>8. Turns'
  BY <1>2, <1>3, <1>4 DEF Turns
<1>9. Replaced'
  BY <1>5, <1>6 DEF Replaced
<1>10. ListOfOneRequest'
  BY <1>5, <1>6, <1>7 DEF ListOfOneRequest
<1> QED BY <1>3, <1>8, <1>9, <1>10 DEF ListInv

(* A refusal, an error or the end lists nothing and lets no batch follow.  *)
LEMMA OverKeepsList ==
  ASSUME TypeInv, ListInv, NEW s \in Sockets, NEW kind \in Kinds \ {"data"},
         Answer(s, kind), Current(Head(asked[s])), records' = records
  PROVE  ListInv'
<1>1. \A t \in Sockets : \A k \in Nat : IsCurrent(t, k)' => kind # "end" /\ t = s /\ k = 1
  BY CurrentPlaces
<1>2. Places' /\ \A t \in Sockets : asked'[t] = <<>> => progress'[t] = 0
  BY AnswerPlaces
<1>3. kind # "end" => progress'[s] = Batches
  BY AnswerQueue
<1>4. /\ currentRequestID' = currentRequestID /\ simplePath' = simplePath
      /\ reloadObjectsList' = reloadObjectsList /\ retries' = retries
  BY AnswerQueue
<1>5. Turns'
  BY <1>1, <1>2, <1>3 DEF Turns
<1>6. Replaced'
  BY <1>1, <1>3, <1>4 DEF ListInv, Replaced
<1>7. ListOfOneRequest'
  BY <1>4 DEF ListInv, ListOfOneRequest
<1> QED BY <1>2, <1>5, <1>6, <1>7 DEF ListInv

(* The list and the requests as they are, and a reload still due if one was: *)
(* what a refused request and everything that is not a message does.        *)
LEMMA OthersKeepList ==
  ASSUME ListInv, UNCHANGED <<network, records, simplePath, currentRequestID>>,
         reloadObjectsList \/ retries # <<>> => reloadObjectsList' \/ retries' # <<>>
  PROVE  ListInv'
<1>1. UNCHANGED <<asked, progress, records, simplePath, currentRequestID>>
  BY DEF network
<1>2. \A s \in Sockets, k \in Nat : IsCurrent(s, k)' <=> IsCurrent(s, k)
  BY <1>1 DEF IsCurrent
<1>3. Places'
  BY <1>1, <1>2 DEF ListInv, Places
<1>4. Turns'
  BY <1>1, <1>2 DEF ListInv, Turns
<1>5. Replaced'
  BY <1>1, <1>2 DEF ListInv, Replaced
<1>6. ListOfOneRequest'
  BY <1>1 DEF ListInv, ListOfOneRequest
<1> QED BY <1>3, <1>4, <1>5, <1>6 DEF ListInv

(* The list is cleared and asked for again. *)
LEMMA ClearKeepsList ==
  ASSUME ListInv, setReloadObjectsList, UNCHANGED <<network, simplePath, currentRequestID>>
  PROVE  ListInv'
<1>1. /\ UNCHANGED <<asked, progress, simplePath, currentRequestID>>
      /\ records' = <<>> /\ Len(records') = 0 /\ reloadObjectsList' = TRUE
  BY DEF network, setReloadObjectsList
<1>2. \A s \in Sockets, k \in Nat : IsCurrent(s, k)' <=> IsCurrent(s, k)
  BY <1>1 DEF IsCurrent
<1>3. Places'
  BY <1>1, <1>2 DEF ListInv, Places
<1>4. Turns'
  BY <1>1, <1>2 DEF ListInv, Turns
<1>5. Replaced' /\ ListOfOneRequest'
  BY <1>1 DEF Replaced, ListOfOneRequest
<1> QED BY <1>3, <1>4, <1>5 DEF ListInv

(* What a connection that is lost has not answered is nowhere any more.    *)
LEMMA CloseKeepsList ==
  ASSUME TypeInv, ListInv, NEW s \in Sockets, OnClose(s)
  PROVE  ListInv'
<1>1. /\ asked' = [asked EXCEPT ![s] = <<>>] /\ progress' = [progress EXCEPT ![s] = 0]
      /\ UNCHANGED <<records, simplePath, currentRequestID, reloadObjectsList, retries>>
  BY DEF OnClose, store, request
<1>2. /\ asked'[s] = <<>> /\ Len(asked'[s]) = 0 /\ progress'[s] = 0
      /\ \A t \in Sockets : t # s => asked'[t] = asked[t] /\ progress'[t] = progress[t]
  BY <1>1 DEF TypeInv, Typed
<1>3. \A t \in Sockets, k \in Nat : IsCurrent(t, k)' => t # s /\ IsCurrent(t, k)
  BY <1>1, <1>2 DEF IsCurrent
<1>4. Places'
  <2>1. \A t \in Sockets : \A k \in 1..Len(asked'[t]) : asked'[t][k].rid <= currentRequestID'
    BY <1>1, <1>2 DEF ListInv, Places
  <2>2. \A t, u \in Sockets : \A k, l \in Nat :
          IsCurrent(t, k)' /\ IsCurrent(u, l)' => t = u /\ k = l
    BY <1>3 DEF ListInv, Places
  <2>3. \A t \in Sockets : \A k \in Nat : IsCurrent(t, k)' => asked'[t][k].path = simplePath'
    BY <1>1, <1>2, <1>3 DEF ListInv, Places
  <2> QED BY <2>1, <2>2, <2>3 DEF Places
<1>5. Turns'
  BY <1>1, <1>2, <1>3 DEF ListInv, Turns
<1>6. Replaced'
  BY <1>1, <1>2, <1>3 DEF ListInv, Replaced
<1>7. ListOfOneRequest'
  BY <1>1 DEF ListInv, ListOfOneRequest
<1> QED BY <1>4, <1>5, <1>6, <1>7 DEF ListInv

LEMMA ListKept == TypeInv /\ ListInv /\ [Next]_vars => ListInv'
<1> SUFFICES ASSUME TypeInv, ListInv, [Next]_vars PROVE ListInv'
  OBVIOUS
<1>1. CASE Commit
  BY <1>1, OthersKeepList DEF Commit, store, request
<1>2. CASE RunEffect
  <2>1. location \in Paths /\ showDeleted \in BOOLEAN
    BY <1>2 DEF RunEffect, TypeInv, Typed, Effects
  <2>2. CASE SendRequest(location, showDeleted)
    BY <2>1, <2>2, SendKeepsList
  <2>3. CASE RefuseRequest /\ retries' = Append(retries, [path |-> location, mode |-> showDeleted])
    <3>1. retries \in Seq(Waiting) /\ [path |-> location, mode |-> showDeleted] \in Waiting
      BY <2>1 DEF TypeInv, Typed, Waiting
    <3>2. retries' # <<>>
      BY <2>3, <3>1
    <3> QED BY <2>3, <3>2, OthersKeepList DEF RefuseRequest, request
  <2> QED BY <1>2, <2>2, <2>3 DEF RunEffect
<1>3. CASE OBConnect
  BY <1>3, OthersKeepList DEF OBConnect, store, request
<1>4. CASE Retry
  <2>1. Head(retries) \in Waiting /\ Tail(retries) \in Seq(Waiting)
    BY <1>4, HeadTailProperties DEF Retry, TypeInv, Typed
  <2>2. Head(retries).path \in Paths /\ Head(retries).mode \in BOOLEAN
    BY <2>1 DEF Waiting
  <2>3. CASE SendRequest(Head(retries).path, Head(retries).mode)
    BY <2>2, <2>3, SendKeepsList
  <2>4. CASE RefuseRequest /\ retries' = Append(Tail(retries), Head(retries))
    <3>1. retries' # <<>>
      BY <2>1, <2>4
    <3> QED BY <2>4, <3>1, OthersKeepList DEF RefuseRequest, request
  <2> QED BY <1>4, <2>3, <2>4 DEF Retry
<1>5. ASSUME NEW s \in Sockets, OnOpen(s) PROVE ListInv'
  BY <1>5, OthersKeepList DEF OnOpen, store, request
<1>6. ASSUME NEW s \in Sockets, OnClose(s) PROVE ListInv'
  BY <1>6, CloseKeepsList
<1>7. ASSUME NEW s \in Sockets, NEW kind \in Kinds, OnStale(s, kind) PROVE ListInv'
  BY <1>7, StaleKeepsList
<1>8. ASSUME NEW s \in Sockets, OnData(s) PROVE ListInv'
  BY <1>8, DataKeepsList
<1>9. ASSUME NEW s \in Sockets, OnPermitted(s) PROVE ListInv'
  BY <1>9, PermittedKeepsList
<1>10. ASSUME NEW s \in Sockets, OnRefused(s) PROVE ListInv'
  <2>1. "refused" \in Kinds \ {"data"}
    BY DEF Kinds, Failures
  <2> QED BY <1>10, <2>1, OverKeepsList DEF OnRefused
<1>11. ASSUME NEW s \in Sockets, NEW kind \in {"error", "end"}, OnOver(s, kind) PROVE ListInv'
  <2>1. kind \in Kinds \ {"data"}
    BY DEF Kinds, Failures
  <2> QED BY <1>11, <2>1, OverKeepsList DEF OnOver
<1>12. ASSUME NEW path \in Paths, Navigate(path) PROVE ListInv'
  BY <1>12, OthersKeepList DEF Navigate, store, request
<1>13. CASE Leave
  BY <1>13, OthersKeepList DEF Leave, store, request
<1>14. CASE Refresh \/ setDeletedAction
  BY <1>14, ClearKeepsList DEF Refresh, setDeletedAction, request
<1>15. CASE UNCHANGED vars
  BY <1>15, OthersKeepList DEF vars, store, request
<1> QED
  BY <1>1, <1>2, <1>3, <1>4, <1>5, <1>6, <1>7, <1>8, <1>9, <1>10, <1>11, <1>12, <1>13,
     <1>14, <1>15 DEF Next

THEOREM ListInvariant == Spec => [](TypeInv /\ ListInv)
BY TypesAtFirst, TypesKept, ListAtFirst, ListKept, PTL DEF Spec

(* The list holds the answers to one request, for the path it shows, in     *)
(* order: for every number of sockets, losses and clicks.                   *)
THEOREM OneRequestListed == Spec => []ListOfOneRequest
<1>1. ListInv => ListOfOneRequest
  BY DEF ListInv
<1> QED BY <1>1, ListInvariant, PTL

(* A list without its beginning is about to be replaced. *)
THEOREM CutListReplaced == Spec => []TruncatedIsReplaced
<1>1. ListInv => TruncatedIsReplaced
  BY DEF ListInv, Replaced, TruncatedIsReplaced
<1> QED BY <1>1, ListInvariant, PTL
=============================================================================
