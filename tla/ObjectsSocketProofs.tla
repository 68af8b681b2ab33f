------------------------- MODULE ObjectsSocketProofs -------------------------
(***************************************************************************)
(* Theorems about the server's end of the websocket, for every number of   *)
(* messages, all request ids, every batch size and all listings.           *)
(***************************************************************************)
EXTENDS ObjectsSocket, SequenceTheorems, FiniteSetTheorems, TLAPS

Message == [mode : Modes, rid : RequestIDs]

(* What the places of the reading goroutine say of the rest of its state. *)
Busy == {"store", "dispatch", "range", "call", "delete", "start", "list", "send", "end", "finish"}
Placement ==
  /\ reader \in Busy => Len(taken) > 0 /\ Text(taken[Len(taken)])
  /\ reader = "send" =>
       /\ response.ctx = Len(taken)
       /\ resume \in {"list", "end", "finish", "ended"}
       /\ response.kind = "end" => resume = "finish"
  /\ reader \in {"call", "delete"} =>
       resume \in {"check", "range"} /\ loaded.key \in RequestIDs /\ loaded.ctx # 0
  /\ writer \in {"call", "delete"} => sweepLoaded.key \in RequestIDs /\ sweepLoaded.ctx # 0

Shape == TypeOK /\ Placement

(* The initial state is well-formed. *)
LEMMA InitShape == Init => Shape
<1> SUFFICES ASSUME Init PROVE Shape
  OBVIOUS
<1> USE SocketAssumption
<1>1. /\ <<>> \in Seq(Message) /\ <<>> \in Seq(Nat) /\ <<>> \in Seq(Responses)
      /\ Len(<<>>) = 0
  OBVIOUS
<1>2. NoResponse \in Responses
  BY <1>1 DEF NoResponse, Responses
<1>3. TypeOK
  <2>1. inbox \in Seq(Message) /\ taken \in Seq(Message) /\ Len(taken) + Len(inbox) <= MaxMessages
    BY <1>1 DEF Init
  <2>2. content \in Contents \cup {<<>>} /\ pos \in 0..Len(content)
    BY <1>1 DEF Init
  <2>3. buffer \in Seq(Nat) /\ Len(buffer) < ItemsPerBatch /\ wire \in Seq(Responses)
    BY <1>1 DEF Init
  <2>4. cancels \in [RequestIDs -> 0..Len(taken)] /\ cancelled \subseteq 1..Len(taken)
    BY <1>1 DEF Init
  <2>5. NoFunc \in Funcs /\ {} \subseteq RequestIDs /\ IsFiniteSet({})
    BY <1>1, FS_EmptySet DEF Init, NoFunc, Funcs
  <2>. QED BY <1>2, <2>1, <2>2, <2>3, <2>4, <2>5 DEF Init, TypeOK, Message
<1>4. Placement
  BY DEF Init, Placement, Busy
<1>. QED BY <1>3, <1>4 DEF Shape

(* A slot set to 0 is a slot. *)
LEMMA Emptied ==
  ASSUME NEW n \in Nat, NEW R, NEW f \in [R -> 0..n], NEW r \in R
  PROVE  [f EXCEPT ![r] = 0] \in [R -> 0..n]
  OBVIOUS

(* What the sequences of messages and responses hold. *)
LEMMA Elements ==
  ASSUME TypeOK
  PROVE  /\ inbox \in Seq(Message) /\ taken \in Seq(Message) /\ Len(taken) \in Nat
         /\ \A n \in 1..Len(taken) : taken[n] \in Message /\ taken[n].rid \in RequestIDs
         /\ \A k \in 1..Len(wire) : wire[k] \in Responses /\ wire[k].ctx \in Int
         /\ writing.ctx \in Int
<1>1. inbox \in Seq(Message) /\ taken \in Seq(Message) /\ Len(taken) \in Nat
  BY DEF TypeOK, Message
<1>2. \A n \in 1..Len(taken) : taken[n] \in Message
  BY <1>1, ElementOfSeq
<1>3. \A n \in 1..Len(taken) : taken[n].rid \in RequestIDs
  BY <1>2 DEF Message
<1>4. wire \in Seq(Responses) /\ writing \in Responses
  BY DEF TypeOK
<1>5. \A k \in 1..Len(wire) : wire[k] \in Responses
  BY <1>4, ElementOfSeq
<1>6. \A w \in Responses : w.ctx \in Int
  BY SocketAssumption DEF Responses
<1>. QED BY <1>1, <1>2, <1>3, <1>4, <1>5, <1>6

(* While the reader is busy with a message it has one. *)
LEMMA CurrentMessage ==
  ASSUME TypeOK, Placement, reader \in Busy
  PROVE  /\ Len(taken) \in Nat \ {0} /\ Len(taken) <= MaxMessages
         /\ Msg = taken[Len(taken)] /\ Ctx = Len(taken)
         /\ Msg.rid \in RequestIDs
         /\ Text(Msg)
<1>1. Len(taken) \in Nat \ {0} /\ Text(taken[Len(taken)])
  BY Elements DEF Placement
<1>2. Len(taken) <= MaxMessages
  BY <1>1, SocketAssumption DEF TypeOK
<1>3. taken[Len(taken)].rid \in RequestIDs
  BY <1>1, Elements
<1>. QED BY <1>1, <1>2, <1>3 DEF Msg, Ctx

(* What is loaded from the map is a cancel function of its types. *)
LEMMA NoFuncType == ASSUME TypeOK PROVE NoFunc \in Funcs
<1>1. Len(taken) \in Nat
  BY Elements
<1> QED
  BY <1>1 DEF NoFunc, Funcs

LEMMA FuncsSame == UNCHANGED taken => Funcs' = Funcs
BY DEF Funcs

LEMMA FuncType == ASSUME TypeOK, NEW r \in RequestIDs PROVE Func(r) \in Funcs
BY DEF TypeOK, Func, Funcs

LEMMA LoadedType ==
  ASSUME TypeOK, Placement
  PROVE  /\ reader \in {"call", "delete"} =>
              loaded.ctx \in 1..Len(taken) /\ loaded.key \in RequestIDs
         /\ writer \in {"call", "delete"} =>
              sweepLoaded.ctx \in 1..Len(taken) /\ sweepLoaded.key \in RequestIDs
<1>1. \A f \in Funcs : f.ctx \in 0..Len(taken)
  BY DEF Funcs
<1>2. loaded \in Funcs /\ sweepLoaded \in Funcs /\ Len(taken) \in Nat
  BY Elements DEF TypeOK
<1>3. loaded.ctx \in 0..Len(taken) /\ sweepLoaded.ctx \in 0..Len(taken)
  BY <1>1, <1>2
<1>4. \A k \in 0..Len(taken) : k # 0 => k \in 1..Len(taken)
  BY <1>2
<1> QED
  BY <1>3, <1>4 DEF Placement

LEMMA LoadOwnType ==
  ASSUME TypeOK, Placement, reader \in Busy, LoadOwn
  PROVE  TypeOK'
<1>1. Func(Msg.rid) \in Funcs
  BY FuncType, CurrentMessage
<1>2. loaded' \in Funcs /\ reader' \in {"check", "call"} /\ resume' \in {resume, "check"}
  BY <1>1 DEF LoadOwn, TypeOK
<1> QED
  BY <1>2 DEF LoadOwn, TypeOK, Funcs, client, listing, contexts, writerVars, sweep

LEMMA LoadOwnPlacement ==
  ASSUME TypeOK, Placement, reader \in Busy, LoadOwn
  PROVE  Placement'
<1>1. Msg.rid \in RequestIDs
  BY CurrentMessage
<1>2. /\ UNCHANGED <<taken, writerVars>>
      /\ \/ reader' = "check"
         \/ reader' = "call" /\ resume' = "check" /\ loaded' = Func(Msg.rid) /\ cancels[Msg.rid] # 0
  BY DEF LoadOwn
<1> QED
  BY <1>1, <1>2 DEF Placement, Busy, Func, writerVars, sweep

(* Every step of the code keeps the state well-typed. *)
LEMMA TypeStep == Shape /\ Next => TypeOK'
<1> SUFFICES ASSUME TypeOK, Placement, Next PROVE TypeOK'
  BY DEF Shape
<1> USE SocketAssumption DEF Message
<1>1. CASE \E mode \in Modes, rid \in RequestIDs : ClientSend(mode, rid)
  <2>1. inbox' \in Seq(Message) /\ Len(inbox') = Len(inbox) + 1 /\ Len(taken) + Len(inbox) < MaxMessages
    BY <1>1, Elements, AppendProperties DEF ClientSend
  <2>2. Len(taken') + Len(inbox') <= MaxMessages
    BY <1>1, <2>1, Elements DEF ClientSend
  <2>. QED BY <1>1, <2>1, <2>2, FuncsSame DEF ClientSend, TypeOK, client, listing, sending, ranging, sweep, contexts, writerVars, readerVars
<1>2. CASE ClientGone
  BY <1>2, FuncsSame DEF ClientGone, TypeOK, client, listing, sending, ranging, sweep, contexts, writerVars, readerVars
<1>3. CASE HandOver
  BY <1>3, FuncsSame DEF HandOver, TypeOK, client, listing, sending, ranging, sweep, contexts, writerVars, readerVars
<1>4. CASE Check
  BY <1>4, FuncsSame DEF Check, TypeOK, client, listing, sending, ranging, sweep, contexts, writerVars, readerVars
<1>5. CASE ReadError
  BY <1>5, FuncsSame DEF ReadError, TypeOK, client, listing, sending, ranging, sweep, contexts, writerVars, readerVars
<1>6. CASE Read
  <2>1. /\ Head(inbox) \in Message /\ Tail(inbox) \in Seq(Message)
        /\ Len(Tail(inbox)) = Len(inbox) - 1
    BY <1>6, Elements, HeadTailProperties DEF Read
  <2>2. /\ taken' \in Seq(Message) /\ Len(taken') = Len(taken) + 1
        /\ Len(taken) \in Nat
    BY <1>6, <2>1, Elements, AppendProperties DEF Read
  <2>3. inbox' \in Seq(Message) /\ Len(taken') + Len(inbox') <= MaxMessages
    BY <1>6, <2>1, <2>2 DEF Read, TypeOK
  <2>4. cancels' \in [RequestIDs -> 0..Len(taken')] /\ cancelled' \subseteq 1..Len(taken')
    BY <1>6, <2>2 DEF Read, TypeOK, contexts
  <2>5. loaded' \in Funcs' /\ sweepLoaded' \in Funcs'
    <3>1. \A f \in Funcs : f \in Funcs'
      BY <2>2 DEF Funcs
    <3>2. UNCHANGED <<loaded, sweepLoaded>>
      BY <1>6 DEF Read, ranging, writerVars, sweep
    <3>. QED BY <3>1, <3>2 DEF TypeOK
  <2>. QED BY <1>6, <2>2, <2>3, <2>4, <2>5 DEF Read, TypeOK, client, listing, sending, ranging, sweep, contexts, writerVars, readerVars
<1>7. CASE Store
  <2>1. cancels' \in [RequestIDs -> 0..Len(taken')]
    BY <1>7, CurrentMessage DEF Store, TypeOK, Busy
  <2>. QED BY <1>7, <2>1, FuncsSame DEF Store, TypeOK, client, listing, sending, ranging, sweep, contexts, writerVars, readerVars
<1>8. CASE Close
  BY <1>8, FuncsSame DEF Close, TypeOK, client, listing, sending, ranging, sweep, contexts, writerVars, readerVars
<1>9. CASE Cancel
  BY <1>9, LoadOwnType DEF Cancel, Busy
<1>10. CASE CancelPrevious
  <2>1. keys' \subseteq RequestIDs /\ IsFiniteSet(keys')
    BY <1>10 DEF CancelPrevious, Ranged
  <2>. QED BY <1>10, <2>1, FuncsSame DEF CancelPrevious, TypeOK, client, listing, sending, ranging, sweep, contexts, writerVars, readerVars
<1>11. CASE Start
  <2>1. content' \in Contents \cup {<<>>} /\ pos' \in 0..Len(content')
    BY <1>11, LenProperties DEF Start
  <2>2. buffer' \in Seq(Nat) /\ Len(buffer') < ItemsPerBatch
    BY <1>11 DEF Start
  <2>. QED BY <1>11, <2>1, <2>2, FuncsSame DEF Start, TypeOK, client, listing, sending, ranging, sweep, contexts, writerVars, readerVars
<1>12. CASE RefuseRewind
  <2>1. Ctx \in 0..MaxMessages /\ <<>> \in Seq(Nat)
    BY <1>12, CurrentMessage DEF RefuseRewind, Busy
  <2>2. response' = [ctx |-> Ctx, kind |-> "error", data |-> <<>>]
        /\ resume' = "ended" /\ reader' = "send"
    BY <1>12 DEF RefuseRewind, Send
  <2>3. response' \in Responses
    BY <2>1, <2>2 DEF Responses
  <2>. QED BY <1>12, <2>2, <2>3, FuncsSame DEF RefuseRewind, TypeOK, client, listing, sending, ranging, sweep, contexts, writerVars, readerVars
<1>13. CASE NextItem
  <2> DEFINE item == content[pos + 1]
             filled == IF Skipped(item) THEN buffer ELSE Append(buffer, pos + 1)
  <2>1. /\ content \in Seq(Items) /\ Len(content) \in Nat /\ pos \in Nat
        /\ pos + 1 \in 0..Len(content)
    BY <1>13 DEF NextItem, TypeOK, Items
  <2>2. filled \in Seq(Nat) /\ <<>> \in Seq(Nat) /\ Len(<<>>) = 0
    BY <2>1 DEF TypeOK
  <2>3. Ctx \in 0..MaxMessages
    BY <1>13, CurrentMessage DEF NextItem, Busy
  <2>4. CASE item = "error"
    <3>1. /\ response' = [ctx |-> Ctx, kind |-> "error", data |-> <<>>]
          /\ resume' = "list" /\ reader' = "send" /\ UNCHANGED buffer
      BY <1>13, <2>4 DEF NextItem, Send
    <3>2. response' \in Responses
      BY <3>1, <2>2, <2>3 DEF Responses
    <3>. QED BY <1>13, <2>1, <3>1, <3>2, FuncsSame DEF NextItem, TypeOK, client, listing, sending, ranging, sweep, contexts, writerVars, readerVars
  <2>5. CASE item # "error" /\ Len(filled) >= ItemsPerBatch
    <3>1. buffer' = <<>> /\ response' = [ctx |-> Ctx, kind |-> "data", data |-> filled]
          /\ resume' = "list" /\ reader' = "send"
      BY <1>13, <2>5 DEF NextItem, Send
    <3> HIDE DEF filled
    <3>2. response' \in Responses
      BY <3>1, <2>2, <2>3 DEF Responses
    <3>. QED BY <1>13, <2>1, <2>2, <3>1, <3>2, FuncsSame DEF NextItem, TypeOK, client, listing, sending, ranging, sweep, contexts, writerVars, readerVars
  <2>6. CASE item # "error" /\ ~(Len(filled) >= ItemsPerBatch)
    <3>1. buffer' = filled /\ UNCHANGED <<reader, sending>>
      BY <1>13, <2>6 DEF NextItem
    <3> HIDE DEF filled
    <3>2. Len(buffer') < ItemsPerBatch /\ buffer' \in Seq(Nat)
      BY <2>2, <2>6, <3>1
    <3>. QED BY <1>13, <2>1, <3>1, <3>2, FuncsSame DEF NextItem, TypeOK, client, listing, sending, ranging, sweep, contexts, writerVars, readerVars
  <2>. QED BY <2>4, <2>5, <2>6
<1>14. CASE ListingOver
  <2>1. Ctx \in 0..MaxMessages /\ ("data" \in {"none", "data", "error", "end"})
    BY <1>14, CurrentMessage DEF ListingOver, Busy
  <2>2. CASE buffer # <<>>
    <3>1. response' = [ctx |-> Ctx, kind |-> "data", data |-> buffer]
          /\ resume' = "end" /\ reader' = "send"
      BY <1>14, <2>2 DEF ListingOver, Send
    <3>2. response' \in Responses
      BY <3>1, <2>1 DEF Responses, TypeOK
    <3>. QED BY <1>14, <3>1, <3>2, FuncsSame DEF ListingOver, TypeOK, client, listing, sending, ranging, sweep, contexts, writerVars, readerVars
  <2>3. CASE buffer = <<>>
    <3>1. reader' = "end" /\ UNCHANGED sending
      BY <1>14, <2>3 DEF ListingOver
    <3>. QED BY <1>14, <3>1, FuncsSame DEF ListingOver, TypeOK, client, listing, sending, ranging, sweep, contexts, writerVars, readerVars
  <2>. QED BY <2>2, <2>3
<1>15. CASE RequestEnd
  <2>1. Ctx \in 0..MaxMessages /\ <<>> \in Seq(Nat)
    BY <1>15, CurrentMessage DEF RequestEnd, Busy
  <2>2. response' = [ctx |-> Ctx, kind |-> "end", data |-> <<>>]
        /\ resume' = "finish" /\ reader' = "send"
    BY <1>15 DEF RequestEnd, Send
  <2>3. response' \in Responses
    BY <2>1, <2>2 DEF Responses
  <2>. QED BY <1>15, <2>2, <2>3, FuncsSame DEF RequestEnd, TypeOK, client, listing, sending, ranging, sweep, contexts, writerVars, readerVars
<1>16. CASE Finish
  BY <1>16, LoadOwnType DEF Finish, Busy
<1>17. CASE SendDropped
  BY <1>17, FuncsSame DEF SendDropped, TypeOK, client, listing, sending, ranging, sweep, contexts, writerVars, readerVars
<1>18. CASE Write
  <2>1. wire' \in Seq(Responses)
    BY <1>18 DEF Write, TypeOK
  <2>. QED BY <1>18, <2>1, FuncsSame DEF Write, TypeOK, client, listing, sending, ranging, sweep, contexts, writerVars, readerVars
<1>19. CASE WriteError
  BY <1>19, FuncsSame DEF WriteError, TypeOK, client, listing, sending, ranging, sweep, contexts, writerVars, readerVars
<1>20. CASE ChannelClosed
  BY <1>20, FuncsSame DEF ChannelClosed, TypeOK, client, listing, sending, ranging, sweep, contexts, writerVars, readerVars
<1>21. CASE CloseDone
  BY <1>21, FuncsSame DEF CloseDone, TypeOK, client, listing, sending, ranging, sweep, contexts, writerVars, readerVars
<1>22. CASE CloseConn
  BY <1>22, FuncsSame DEF CloseConn, TypeOK, client, listing, sending, ranging, sweep, contexts, writerVars, readerVars
<1>23. CASE Sweep
  <2>1. sweepKeys' \subseteq RequestIDs /\ IsFiniteSet(sweepKeys')
    BY <1>23 DEF Sweep, Ranged
  <2>. QED BY <1>23, <2>1, FuncsSame DEF Sweep, TypeOK, client, listing, sending, ranging, sweep, contexts, writerVars, readerVars
<1>24. CASE Call
  <2>0. loaded.ctx \in 1..Len(taken)
    BY <1>24, LoadedType DEF Call
  <2>1. cancelled' \subseteq 1..Len(taken)
    BY <1>24, <2>0 DEF Call, TypeOK
  <2>. QED BY <1>24, <2>1, FuncsSame DEF Call, TypeOK, client, listing, sending, ranging, sweep, contexts, writerVars, readerVars
<1>25. CASE Delete
  <2>1. cancels' \in [RequestIDs -> 0..Len(taken)]
    BY <1>25, Elements, Emptied DEF Delete, TypeOK, Placement
  <2>2. loaded' \in Funcs
    BY <1>25, NoFuncType DEF Delete
  <2>. QED BY <1>25, <2>1, <2>2, FuncsSame DEF Delete, TypeOK, Placement, client, listing, sending, ranging, sweep, contexts, writerVars, readerVars
<1>26. CASE Visit
  <2>1. PICK r \in keys : /\ keys' = keys \ {r}
                          /\ \/ UNCHANGED <<reader, loaded, resume>>
                             \/ loaded' = Func(r) /\ reader' = "call" /\ resume' = "range"
    BY <1>26 DEF Visit
  <2>2. r \in RequestIDs /\ keys' \subseteq RequestIDs /\ IsFiniteSet(keys')
    BY <2>1, FS_RemoveElement DEF TypeOK
  <2>3. Func(r) \in Funcs
    BY <2>2, FuncType
  <2>. QED BY <1>26, <2>1, <2>2, <2>3, FuncsSame DEF Visit, TypeOK, client, listing, sending, ranging, sweep, contexts, writerVars, readerVars
<1>27. CASE RangeOver
  BY <1>27, FuncsSame DEF RangeOver, TypeOK, client, listing, sending, ranging, sweep, contexts, writerVars, readerVars
<1>28. CASE SweepVisit
  <2>1. PICK r \in sweepKeys : /\ sweepKeys' = sweepKeys \ {r}
                               /\ \/ UNCHANGED <<writer, sweepLoaded>>
                                  \/ sweepLoaded' = Func(r) /\ writer' = "call"
    BY <1>28 DEF SweepVisit
  <2>2. r \in RequestIDs /\ sweepKeys' \subseteq RequestIDs /\ IsFiniteSet(sweepKeys')
    BY <2>1, FS_RemoveElement DEF TypeOK
  <2>3. Func(r) \in Funcs
    BY <2>2, FuncType
  <2>. QED BY <1>28, <2>1, <2>2, <2>3, FuncsSame DEF SweepVisit, TypeOK, client, listing, sending, ranging, sweep, contexts, writerVars, readerVars
<1>29. CASE SweepCall
  <2>0. sweepLoaded.ctx \in 1..Len(taken)
    BY <1>29, LoadedType DEF SweepCall
  <2>1. cancelled' \subseteq 1..Len(taken)
    BY <1>29, <2>0 DEF SweepCall, TypeOK
  <2>. QED BY <1>29, <2>1, FuncsSame DEF SweepCall, TypeOK, client, listing, sending, ranging, sweep, contexts, writerVars, readerVars
<1>30. CASE SweepDelete
  <2>1. cancels' \in [RequestIDs -> 0..Len(taken)]
    BY <1>30, Elements, Emptied DEF SweepDelete, TypeOK, Placement
  <2>2. sweepLoaded' \in Funcs
    BY <1>30, NoFuncType DEF SweepDelete
  <2>. QED BY <1>30, <2>1, <2>2, FuncsSame DEF SweepDelete, TypeOK, client, listing, sending, ranging, sweep, contexts, writerVars, readerVars
<1>31. CASE SweepOver
  BY <1>31, FuncsSame DEF SweepOver, TypeOK, client, listing, sending, ranging, sweep, contexts, writerVars, readerVars
<1>. QED BY <1>1, <1>2, <1>3, <1>4, <1>5, <1>6, <1>7, <1>8, <1>9, <1>10, <1>11, <1>12, <1>13, <1>14, <1>15, <1>16, <1>17, <1>18, <1>19, <1>20, <1>21, <1>22, <1>23, <1>24, <1>25, <1>26, <1>27, <1>28, <1>29, <1>30, <1>31 DEF Next

(* Every step keeps the reader's places meaningful. *)
LEMMA PlacementStep == Shape /\ Next => Placement'
<1> SUFFICES ASSUME TypeOK, Placement, Next PROVE Placement'
  BY DEF Shape
<1> USE SocketAssumption
<1>1. CASE \E mode \in Modes, rid \in RequestIDs : ClientSend(mode, rid)
  BY <1>1 DEF ClientSend, TypeOK, Placement, Busy, Responses, Listings, Modes, client, listing, sending, ranging, sweep, contexts, writerVars, readerVars
<1>2. CASE ClientGone
  BY <1>2 DEF ClientGone, TypeOK, Placement, Busy, Responses, Listings, Modes, client, listing, sending, ranging, sweep, contexts, writerVars, readerVars
<1>3. CASE HandOver
  BY <1>3 DEF HandOver, TypeOK, Placement, Busy, Responses, Listings, Modes, client, listing, sending, ranging, sweep, contexts, writerVars, readerVars
<1>4. CASE Check
  BY <1>4 DEF Check, TypeOK, Placement, Busy, Responses, Listings, Modes, client, listing, sending, ranging, sweep, contexts, writerVars, readerVars
<1>5. CASE ReadError
  BY <1>5 DEF ReadError, TypeOK, Placement, Busy, Responses, Listings, Modes, client, listing, sending, ranging, sweep, contexts, writerVars, readerVars
<1>6. CASE Read
  <2>1. /\ taken' = Append(taken, Head(inbox)) /\ taken \in Seq(Message)
        /\ Head(inbox) \in Message
    BY <1>6, Elements, HeadTailProperties DEF Read
  <2>2. Len(taken') = Len(taken) + 1 /\ Len(taken) \in Nat /\ taken'[Len(taken')] = Head(inbox)
    BY <2>1, AppendProperties
  <2>3. /\ reader' = IF Text(Head(inbox)) THEN "store" ELSE "check"
    BY <1>6 DEF Read
  <2>4. UNCHANGED <<writer, sweepLoaded>>
    BY <1>6 DEF Read, writerVars, sweep
  <2>. QED BY <2>2, <2>3, <2>4 DEF Placement, Busy
<1>7. CASE Store
  BY <1>7 DEF Store, Msg, Ctx, Text, TypeOK, Placement, Busy, Responses, Listings, Modes, client, listing, sending, ranging, sweep, contexts, writerVars, readerVars
<1>8. CASE Close
  BY <1>8 DEF Close, Msg, Ctx, TypeOK, Placement, Busy, Responses, Listings, Modes, client, listing, sending, ranging, sweep, contexts, writerVars, readerVars
<1>9. CASE Cancel
  BY <1>9, LoadOwnPlacement DEF Cancel, Busy
<1>10. CASE CancelPrevious
  BY <1>10 DEF CancelPrevious, Msg, Ctx, TypeOK, Placement, Busy, Responses, Listings, Modes, client, listing, sending, ranging, sweep, contexts, writerVars, readerVars
<1>11. CASE Start
  BY <1>11 DEF Start, TypeOK, Placement, Busy, Responses, Listings, Modes, client, listing, sending, ranging, sweep, contexts, writerVars, readerVars
<1>12. CASE RefuseRewind
  BY <1>12 DEF RefuseRewind, Msg, Ctx, Send, TypeOK, Placement, Busy, Responses, Listings, Modes, client, listing, sending, ranging, sweep, contexts, writerVars, readerVars
<1>13. CASE NextItem
  <2>1. reader = "list" /\ UNCHANGED taken
    BY <1>13 DEF NextItem
  <2>2. \/ reader' = "list"
        \/ \E kind \in {"error", "data"} : \E data : Send(kind, data, "list")
    BY <1>13, <2>1 DEF NextItem, sending
  <2>3. reader' = "send" => /\ response'.ctx = Len(taken) /\ resume' = "list"
                            /\ response'.kind # "end"
    BY <2>2 DEF Send, Ctx
  <2>4. reader' \in {"list", "send"}
    BY <2>2 DEF Send
  <2>5. UNCHANGED <<writer, sweepLoaded>>
    BY <1>13 DEF NextItem, writerVars, sweep
  <2>. QED BY <2>1, <2>3, <2>4, <2>5 DEF Placement, Busy
<1>14. CASE ListingOver
  <2>1. reader = "list" /\ UNCHANGED <<taken, writer, sweepLoaded>>
    BY <1>14 DEF ListingOver, writerVars, sweep
  <2>2. \/ reader' = "end"
        \/ Send("data", buffer, "end")
    BY <1>14 DEF ListingOver
  <2>. QED BY <2>1, <2>2 DEF Placement, Busy, Send, Ctx
<1>15. CASE RequestEnd
  BY <1>15 DEF RequestEnd, Ctx, Send, TypeOK, Placement, Busy, Responses, Listings, Modes, client, listing, sending, ranging, sweep, contexts, writerVars, readerVars
<1>16. CASE Finish
  BY <1>16, LoadOwnPlacement DEF Finish, Busy
<1>17. CASE SendDropped
  BY <1>17 DEF SendDropped, TypeOK, Placement, Busy, Responses, Listings, Modes, client, listing, sending, ranging, sweep, contexts, writerVars, readerVars
<1>18. CASE Write
  BY <1>18 DEF Write, TypeOK, Placement, Busy, Responses, Listings, Modes, client, listing, sending, ranging, sweep, contexts, writerVars, readerVars
<1>19. CASE WriteError
  BY <1>19 DEF WriteError, TypeOK, Placement, Busy, Responses, Listings, Modes, client, listing, sending, ranging, sweep, contexts, writerVars, readerVars
<1>20. CASE ChannelClosed
  BY <1>20 DEF ChannelClosed, TypeOK, Placement, Busy, Responses, Listings, Modes, client, listing, sending, ranging, sweep, contexts, writerVars, readerVars
<1>21. CASE CloseDone
  BY <1>21 DEF CloseDone, TypeOK, Placement, Busy, Responses, Listings, Modes, client, listing, sending, ranging, sweep, contexts, writerVars, readerVars
<1>22. CASE CloseConn
  BY <1>22 DEF CloseConn, TypeOK, Placement, Busy, Responses, Listings, Modes, client, listing, sending, ranging, sweep, contexts, writerVars, readerVars
<1>23. CASE Sweep
  BY <1>23 DEF Sweep, TypeOK, Placement, Busy, Responses, Listings, Modes, client, listing, sending, ranging, sweep, contexts, writerVars, readerVars
<1>24. CASE Call
  BY <1>24 DEF Call, TypeOK, Placement, Busy, Responses, Listings, Modes, client, listing, sending, ranging, sweep, contexts, writerVars, readerVars
<1>25. CASE Delete
  BY <1>25 DEF Delete, TypeOK, Placement, Busy, Responses, Listings, Modes, client, listing, sending, ranging, sweep, contexts, writerVars, readerVars
<1>26. CASE Visit
  <2>1. PICK r \in keys : \/ UNCHANGED <<reader, loaded, resume>>
                          \/ cancels[r] # 0 /\ loaded' = Func(r) /\ reader' = "call"
    BY <1>26 DEF Visit
  <2>2. r \in RequestIDs
    BY <2>1 DEF TypeOK
  <2>. QED BY <1>26, <2>1, <2>2 DEF Visit, Func, TypeOK, Placement, Busy, writerVars, sweep
<1>27. CASE RangeOver
  BY <1>27 DEF RangeOver, TypeOK, Placement, Busy, Responses, Listings, Modes, client, listing, sending, ranging, sweep, contexts, writerVars, readerVars
<1>28. CASE SweepVisit
  <2>1. PICK r \in sweepKeys : \/ UNCHANGED <<writer, sweepLoaded>>
                               \/ cancels[r] # 0 /\ sweepLoaded' = Func(r) /\ writer' = "call"
    BY <1>28 DEF SweepVisit
  <2>2. r \in RequestIDs
    BY <2>1 DEF TypeOK
  <2>. QED BY <1>28, <2>1, <2>2 DEF SweepVisit, Func, TypeOK, Placement, Busy, readerVars, sending, ranging
<1>29. CASE SweepCall
  BY <1>29 DEF SweepCall, TypeOK, Placement, Busy, Responses, Listings, Modes, client, listing, sending, ranging, sweep, contexts, writerVars, readerVars
<1>30. CASE SweepDelete
  BY <1>30 DEF SweepDelete, TypeOK, Placement, Busy, Responses, Listings, Modes, client, listing, sending, ranging, sweep, contexts, writerVars, readerVars
<1>31. CASE SweepOver
  BY <1>31 DEF SweepOver, TypeOK, Placement, Busy, Responses, Listings, Modes, client, listing, sending, ranging, sweep, contexts, writerVars, readerVars
<1>. QED BY <1>1, <1>2, <1>3, <1>4, <1>5, <1>6, <1>7, <1>8, <1>9, <1>10, <1>11, <1>12, <1>13, <1>14, <1>15, <1>16, <1>17, <1>18, <1>19, <1>20, <1>21, <1>22, <1>23, <1>24, <1>25, <1>26, <1>27, <1>28, <1>29, <1>30, <1>31 DEF Next

(* The state stays well-formed, whatever happens on either side. *)
LEMMA ShapeCorrect == Spec => []Shape
<1>1. Init => Shape
  BY InitShape
<1>2. Shape /\ [Next]_vars => Shape'
  <2> SUFFICES ASSUME Shape, [Next]_vars PROVE Shape'
    OBVIOUS
  <2>1. CASE Next
    BY <2>1, TypeStep, PlacementStep DEF Shape
  <2>2. CASE UNCHANGED vars
    BY <2>2 DEF Shape, TypeOK, Funcs, Placement, vars, client, listing, sending, ranging, contexts,
                writerVars, sweep
  <2>. QED BY <2>1, <2>2
<1>. QED BY <1>1, <1>2, PTL DEF Spec

(* Type correctness of the server's end. *)
THEOREM TypeCorrect == Spec => []TypeOK
<1>1. Shape => TypeOK
  BY DEF Shape
<1>. QED BY <1>1, ShapeCorrect, PTL

-----------------------------------------------------------------------------
(* One cancel function at a time.                                          *)

(* The map holds the cancel function of the last message at most, so a     *)
(* listing finds none of an older one to cancel; and what either goroutine *)
(* has loaded is the same function.  A writer that looks into the map has  *)
(* closed the connection: no further message is read while it does.        *)
Own == [key |-> Msg.rid, ctx |-> Ctx]
Sweeping == {"sweep", "call", "delete", "ended"}
Alone ==
  /\ \A r \in RequestIDs :
       cancels[r] # 0 => Func(r) = Own /\ reader \notin {"check", "read", "store"}
  /\ reader = "range" => \A r \in keys : r < Msg.rid
  /\ reader \in {"call", "delete"} => loaded = Own /\ resume = "check"
  /\ writer \in {"call", "delete"} => sweepLoaded = Own /\ reader # "store"
  /\ writer \in Sweeping \cup {"sweeping"} => conn = "closed"

LEMMA InitAlone == Init => Alone
  BY DEF Init, Alone, Sweeping

LEMMA AloneStep == Shape /\ Alone /\ Next => Alone'
<1> SUFFICES ASSUME Shape, Alone, Next PROVE Alone'
  OBVIOUS
<1>a. ASSUME UNCHANGED taken PROVE Own' = Own /\ Msg' = Msg /\ Ctx' = Ctx
  BY <1>a DEF Own, Msg, Ctx
<1>b. ASSUME UNCHANGED cancels PROVE \A r \in RequestIDs : Func(r)' = Func(r)
  BY <1>b DEF Func
<1>c. ASSUME UNCHANGED <<taken, cancels, writer, sweepLoaded, conn>>,
             \A r \in RequestIDs :
               cancels[r] # 0 => reader \in {"check", "read", "store"}
                                 \/ reader' \notin {"check", "read", "store"},
             reader' \notin {"range", "call", "delete", "store"}
      PROVE  Alone'
  BY <1>a, <1>b, <1>c DEF Alone
<1>d. ASSUME UNCHANGED <<taken, reader, cancels, keys, loaded, resume>>, conn' \in {conn, "closed"},
             writer' \in Sweeping \cup {"sweeping"} => conn' = "closed",
             writer' \in {"call", "delete"} => sweepLoaded' = Own /\ reader # "store"
      PROVE  Alone'
  BY <1>a, <1>b, <1>d DEF Alone
<1>e. /\ cancels \in [RequestIDs -> 0..Len(taken)]
      /\ reader \in Busy => Msg.rid \in RequestIDs
      /\ reader = "send" => resume \in {"list", "end", "finish", "ended"}
      /\ keys \subseteq RequestIDs /\ sweepKeys \subseteq RequestIDs
      /\ conn \in {"open", "closed"}
  BY CurrentMessage DEF Shape, TypeOK, Placement
<1>f. \A r \in RequestIDs : cancels[r] # 0 => r = Msg.rid /\ cancels[r] = Ctx
  BY DEF Alone, Func, Own
<1>1. CASE \E mode \in Modes, rid \in RequestIDs : ClientSend(mode, rid)
  BY <1>1, <1>d DEF ClientSend, Alone, sending, ranging, contexts, writerVars, sweep
<1>2. CASE ClientGone
  BY <1>2, <1>d DEF ClientGone, Alone, sending, ranging, contexts, writerVars, sweep
<1>3. CASE HandOver
  BY <1>3, <1>a, <1>b, <1>e DEF HandOver, Alone, ranging, contexts, sweep, Sweeping
<1>4. CASE Check \/ ReadError \/ Close \/ Start \/ RefuseRewind \/ NextItem \/ ListingOver
           \/ RequestEnd \/ SendDropped \/ RangeOver
  <2>1. /\ UNCHANGED <<taken, cancels, writer, sweepLoaded, conn>>
        /\ reader' \notin {"range", "call", "delete", "store", "check"}
        /\ reader' = "read" => reader = "check"
    BY <1>4, <1>e DEF Check, ReadError, Close, Start, RefuseRewind, NextItem, ListingOver,
                      RequestEnd, SendDropped, RangeOver, Send, contexts, writerVars, sweep
  <2> QED
    BY <1>c, <2>1
<1>5. CASE Read
  <2>1. /\ reader = "read" /\ conn = "open" /\ reader' \in {"store", "check"}
        /\ UNCHANGED <<cancels, writer, conn>>
    BY <1>5 DEF Read, contexts, writerVars
  <2>2. \A r \in RequestIDs : cancels[r] = 0
    BY <2>1 DEF Alone
  <2>3. writer' \notin Sweeping \cup {"sweeping"}
    BY <2>1 DEF Alone
  <2> QED
    BY <2>1, <2>2, <2>3 DEF Alone, Sweeping
<1>6. CASE Store
  <2>1. /\ reader = "store" /\ reader' = "dispatch" /\ cancels' = [cancels EXCEPT ![Msg.rid] = Ctx]
        /\ UNCHANGED <<taken, writer, sweepLoaded, conn>>
    BY <1>6 DEF Store, writerVars, sweep
  <2>2. \A r \in RequestIDs : cancels[r] = 0
    BY <2>1 DEF Alone
  <2>3. \A r \in RequestIDs : cancels'[r] # 0 => r = Msg.rid /\ cancels'[r] = Ctx
    BY <1>e, <2>1, <2>2
  <2>4. \A r \in RequestIDs : cancels'[r] # 0 => Func(r)' = Own'
    BY <1>a, <2>1, <2>3 DEF Func, Own
  <2>5. writer' \notin {"call", "delete"} /\ (writer' \in Sweeping \cup {"sweeping"} => conn' = "closed")
    BY <2>1 DEF Alone
  <2>6. reader' = "dispatch"
    BY <2>1
  <2> QED
    BY <2>4, <2>5, <2>6 DEF Alone
<1>7. CASE Cancel \/ Finish
  <2>1. /\ UNCHANGED <<taken, cancels, writer, sweepLoaded, conn>> /\ reader \in Busy \ {"store"}
        /\ \/ reader' = "check" /\ cancels[Msg.rid] = 0
           \/ reader' = "call" /\ loaded' = Func(Msg.rid) /\ resume' = "check" /\ cancels[Msg.rid] # 0
    BY <1>7 DEF Cancel, Finish, LoadOwn, contexts, writerVars, sweep, Busy
  <2>2. CASE reader' = "check"
    <3>1. \A r \in RequestIDs : cancels[r] = 0
      BY <2>1, <2>2 DEF Alone, Func, Own
    <3> QED
      BY <1>c, <2>1, <2>2, <3>1
  <2>3. CASE reader' = "call"
    <3>1. loaded' = Own
      BY <1>e, <2>1, <2>3 DEF Alone
    <3> QED
      BY <1>a, <1>b, <2>1, <2>3, <3>1 DEF Alone
  <2> QED
    BY <2>1, <2>2, <2>3
<1>8. CASE Call
  BY <1>8, <1>a, <1>b DEF Call, Alone, sending, ranging, writerVars, sweep
<1>9. CASE Delete
  <2>0. loaded = Own /\ Own.key = Msg.rid /\ resume = "check"
    BY <1>9 DEF Delete, Alone, Own
  <2>1. /\ cancels' = [cancels EXCEPT ![Msg.rid] = 0] /\ reader' = "check"
        /\ UNCHANGED <<taken, writer, sweepLoaded, conn>>
    BY <1>9, <2>0 DEF Delete, writerVars, sweep
  <2>2. \A r \in RequestIDs : cancels'[r] = 0
    BY <1>e, <1>f, <2>1
  <2> QED
    BY <1>a, <2>1, <2>2 DEF Alone
<1>10. CASE CancelPrevious
  <2>1. /\ UNCHANGED <<taken, cancels, writer, sweepLoaded, conn>>
        /\ reader = "dispatch" /\ reader' = "range" /\ \A r \in keys' : r < Msg.rid
    BY <1>10 DEF CancelPrevious, Ranged, contexts, writerVars, sweep
  <2> QED
    BY <1>a, <1>b, <2>1 DEF Alone
<1>11. CASE Visit
  <2>1. PICK r \in keys :
          /\ keys' = keys \ {r} /\ reader = "range"
          /\ IF cancels[r] = 0 THEN UNCHANGED <<reader, loaded, resume>>
             ELSE loaded' = Func(r) /\ reader' = "call" /\ resume' = "range"
          /\ UNCHANGED <<taken, cancels, writer, sweepLoaded, conn>>
    BY <1>11 DEF Visit, contexts, writerVars, sweep
  <2>2. r \in RequestIDs /\ r < Msg.rid /\ Msg.rid \in Int /\ r \in Int
    BY <1>e, <2>1, SocketAssumption DEF Alone, Busy
  <2>3. cancels[r] = 0
    BY <1>f, <2>2
  <2> QED
    BY <1>a, <1>b, <2>1, <2>3 DEF Alone
<1>12. CASE Write \/ WriteError \/ ChannelClosed \/ CloseDone \/ CloseConn \/ Sweep
            \/ SweepCall \/ SweepDelete \/ SweepOver \/ SweepVisit
  <2>1. UNCHANGED <<taken, reader, keys, loaded, resume>>
    BY <1>12 DEF Write, WriteError, ChannelClosed, CloseDone, CloseConn, Sweep, SweepCall,
                 SweepDelete, SweepOver, SweepVisit, readerVars, sending, ranging
  <2>2. CASE Write \/ WriteError \/ ChannelClosed \/ CloseDone \/ CloseConn \/ Sweep \/ SweepOver
    BY <1>d, <2>1, <2>2 DEF Write, WriteError, ChannelClosed, CloseDone, CloseConn, Sweep,
                       SweepOver, Alone, Sweeping, contexts
  <2>3. CASE SweepCall
    BY <1>d, <2>1, <2>3 DEF SweepCall, Alone, Sweeping, sweep
  <2>4. CASE SweepVisit
    <3>1. PICK r \in sweepKeys :
            \/ UNCHANGED <<writer, sweepLoaded>>
            \/ cancels[r] # 0 /\ sweepLoaded' = Func(r) /\ writer' = "call"
      BY <2>4 DEF SweepVisit
    <3>2. writer = "sweep" /\ UNCHANGED <<cancels, conn>>
      BY <2>4 DEF SweepVisit, contexts
    <3> QED
      BY <1>d, <1>e, <2>1, <3>1, <3>2 DEF Alone, Sweeping
  <2>5. CASE SweepDelete
    <3>1. /\ cancels' = [cancels EXCEPT ![sweepLoaded.key] = 0] /\ writer' = "sweep" /\ conn' = conn
          /\ writer = "delete"
      BY <2>5 DEF SweepDelete
    <3>2. \A r \in RequestIDs : cancels'[r] # 0 => cancels'[r] = cancels[r]
      BY <1>e, <3>1
    <3>3. \A r \in RequestIDs : cancels'[r] # 0 => Func(r)' = Own
      BY <3>2 DEF Alone, Func
    <3> QED
      BY <1>a, <2>1, <3>1, <3>2, <3>3 DEF Alone, Sweeping
  <2> QED
    BY <1>12, <2>2, <2>3, <2>4, <2>5
<1> QED
  BY <1>1, <1>2, <1>3, <1>4, <1>5, <1>6, <1>7, <1>8, <1>9, <1>10, <1>11, <1>12 DEF Next

LEMMA AloneCorrect == Spec => []Alone
<1>1. Shape /\ Alone /\ [Next]_vars => Alone'
  <2> SUFFICES ASSUME Shape, Alone, UNCHANGED vars PROVE Alone'
    BY AloneStep
  <2>1. UNCHANGED <<taken, reader, cancels, keys, loaded, resume, writer, sweepLoaded, conn>>
    BY DEF vars, sending, ranging, contexts, writerVars, sweep
  <2> QED
    BY <2>1 DEF Alone, Own, Func, Msg, Ctx
<1> QED
  BY <1>1, InitAlone, ShapeCorrect, PTL DEF Spec

-----------------------------------------------------------------------------
(* Answers in order.                                                       *)

Before(a, b) == \/ a.ctx < b.ctx
                \/ a.ctx = b.ctx /\ a.kind # "end"

(* Places of the reader from which it may yet answer the current message. *)
Answering == {"store", "dispatch", "range", "start", "list", "send", "end"}

(* A response already handed over does not come after what the reader will *)
(* still say: its request is over or it is not the end of the current one. *)
Handed(w) ==
  /\ w.ctx <= Len(taken)
  /\ w.ctx = Len(taken) /\ w.kind = "end" => reader \notin Answering

OrderInv ==
  /\ AnswersInOrder
  /\ \A k \in 1..Len(wire) : Handed(wire[k])
  /\ writer = "write" =>
       Handed(writing) /\ \A k \in 1..Len(wire) : Before(wire[k], writing)

LEMMA InitOrder == Init => OrderInv
  BY DEF Init, OrderInv, AnswersInOrder

(* No step lets an answer overtake another. *)
LEMMA OrderStep == Shape /\ Alone /\ OrderInv /\ Next => OrderInv'
<1> SUFFICES ASSUME TypeOK, Placement, Alone, OrderInv, Next PROVE OrderInv'
  BY DEF Shape
<1> USE SocketAssumption
<1>a. ASSUME UNCHANGED <<taken, wire, writing>>, writer' = "write" => writer = "write",
             reader' \in Answering => reader \in Answering
      PROVE  OrderInv'
  BY <1>a DEF OrderInv, AnswersInOrder, Handed, Before
<1>1. CASE \E mode \in Modes, rid \in RequestIDs : ClientSend(mode, rid)
  BY <1>1 DEF ClientSend, TypeOK, Placement, Busy, OrderInv, AnswersInOrder, Handed, Before, Answering, Responses, client, listing, sending, ranging, sweep, contexts, writerVars, readerVars
<1>2. CASE ClientGone
  BY <1>2 DEF ClientGone, TypeOK, Placement, Busy, OrderInv, AnswersInOrder, Handed, Before, Answering, Responses, client, listing, sending, ranging, sweep, contexts, writerVars, readerVars
<1>3. CASE HandOver
  <2>1. /\ response \in Responses /\ response.ctx = Len(taken) /\ Len(taken) \in Nat
        /\ response.kind = "end" => resume = "finish"
        /\ writing' = response /\ reader' = resume
    BY <1>3 DEF HandOver, TypeOK, Placement
  <2>2. UNCHANGED <<wire, taken>>
    BY <1>3 DEF HandOver
  <2>3. \A k \in 1..Len(wire) : wire[k] \in Responses /\ wire[k].ctx \in Int
    BY Elements
  <2>4. Handed(writing)'
    BY <2>1, <2>2 DEF Handed, Answering
  <2>5. \A k \in 1..Len(wire) : Before(wire[k], response)
    BY <1>3, <2>1, <2>3 DEF HandOver, OrderInv, Handed, Before, Answering
  <2>6. \A k \in 1..Len(wire) : Handed(wire[k])'
    BY <1>3, <2>1, <2>2 DEF HandOver, OrderInv, Handed, Answering
  <2>. QED BY <2>1, <2>2, <2>4, <2>5, <2>6 DEF OrderInv, AnswersInOrder, Handed, Before
<1>4. CASE Check
  BY <1>4 DEF Check, TypeOK, Placement, Busy, OrderInv, AnswersInOrder, Handed, Before, Answering, Responses, client, listing, sending, ranging, sweep, contexts, writerVars, readerVars
<1>5. CASE ReadError
  BY <1>5 DEF ReadError, TypeOK, Placement, Busy, OrderInv, AnswersInOrder, Handed, Before, Answering, Responses, client, listing, sending, ranging, sweep, contexts, writerVars, readerVars
<1>6. CASE Read
  <2>1. Len(taken') = Len(taken) + 1 /\ Len(taken) \in Nat
    BY <1>6 DEF Read, TypeOK
  <2>2. /\ \A k \in 1..Len(wire) : wire[k].ctx \in Int
        /\ writing.ctx \in Int
    BY Elements
  <2>3. UNCHANGED <<wire, writer, writing>>
    BY <1>6 DEF Read, writerVars
  <2>4. \A k \in 1..Len(wire) : Handed(wire[k])'
    BY <2>1, <2>2, <2>3 DEF OrderInv, Handed
  <2>5. writer = "write" => Handed(writing)'
    BY <2>1, <2>2, <2>3 DEF OrderInv, Handed
  <2>. QED BY <2>3, <2>4, <2>5 DEF OrderInv, AnswersInOrder, Handed, Before
<1>7. CASE Store
  BY <1>7 DEF Store, Msg, Ctx, Text, TypeOK, Placement, Busy, OrderInv, AnswersInOrder, Handed, Before, Answering, Responses, client, listing, sending, ranging, sweep, contexts, writerVars, readerVars
<1>8. CASE Close
  BY <1>8 DEF Close, Msg, Ctx, TypeOK, Placement, Busy, OrderInv, AnswersInOrder, Handed, Before, Answering, Responses, client, listing, sending, ranging, sweep, contexts, writerVars, readerVars
<1>9. CASE Cancel \/ Finish \/ Call \/ Delete
  <2>1. /\ UNCHANGED <<taken, wire, writing, writer>> /\ reader' \in {"check", "call", "delete"}
    BY <1>9 DEF Cancel, Finish, LoadOwn, Call, Delete, Alone, writerVars
  <2>. QED BY <1>a, <2>1 DEF Answering
<1>10. CASE CancelPrevious \/ Visit \/ RangeOver
  <2>1. /\ UNCHANGED <<taken, wire, writing, writer>> /\ reader \in {"dispatch", "range"}
    BY <1>10 DEF CancelPrevious, Visit, RangeOver, writerVars
  <2>. QED BY <1>a, <2>1 DEF Answering
<1>11. CASE Start
  BY <1>11 DEF Start, TypeOK, Placement, Busy, OrderInv, AnswersInOrder, Handed, Before, Answering, Responses, client, listing, sending, ranging, sweep, contexts, writerVars, readerVars
<1>12. CASE RefuseRewind
  BY <1>12 DEF RefuseRewind, Msg, Ctx, Send, TypeOK, Placement, Busy, OrderInv, AnswersInOrder, Handed, Before, Answering, Responses, client, listing, sending, ranging, sweep, contexts, writerVars, readerVars
<1>13. CASE NextItem
  BY <1>13 DEF NextItem, Msg, Ctx, Send, Skipped, TypeOK, Placement, Busy, OrderInv, AnswersInOrder, Handed, Before, Answering, Responses, client, listing, sending, ranging, sweep, contexts, writerVars, readerVars
<1>14. CASE ListingOver
  BY <1>14 DEF ListingOver, Ctx, Send, TypeOK, Placement, Busy, OrderInv, AnswersInOrder, Handed, Before, Answering, Responses, client, listing, sending, ranging, sweep, contexts, writerVars, readerVars
<1>15. CASE RequestEnd
  BY <1>15 DEF RequestEnd, Ctx, Send, TypeOK, Placement, Busy, OrderInv, AnswersInOrder, Handed, Before, Answering, Responses, client, listing, sending, ranging, sweep, contexts, writerVars, readerVars
<1>17. CASE SendDropped
  BY <1>17 DEF SendDropped, TypeOK, Placement, Busy, OrderInv, AnswersInOrder, Handed, Before, Answering, Responses, client, listing, sending, ranging, sweep, contexts, writerVars, readerVars
<1>18. CASE Write
  <2>1. UNCHANGED <<taken, reader, writing>> /\ writer = "write" /\ writer' = "range"
    BY <1>18 DEF Write, readerVars
  <2>2. CASE peer # "up"
    BY <1>18, <2>1, <2>2 DEF Write, OrderInv, AnswersInOrder, Handed, Before, Answering
  <2>3. CASE peer = "up"
    <3>1. wire' = Append(wire, writing)
      BY <1>18, <2>3 DEF Write
    <3>2. /\ Len(wire) \in Nat /\ Len(wire') = Len(wire) + 1
          /\ wire'[Len(wire) + 1] = writing
          /\ \A k \in 1..Len(wire) : wire'[k] = wire[k]
      BY <3>1 DEF TypeOK
    <3>3. \A k \in 1..Len(wire') : k \in 1..Len(wire) \/ k = Len(wire) + 1
      BY <3>2
    <3>4. \A k \in 1..Len(wire') : Handed(wire'[k])
      BY <2>1, <3>2, <3>3 DEF OrderInv
    <3>5. \A j, k \in 1..Len(wire') : j < k => Before(wire'[j], wire'[k])
      <4> SUFFICES ASSUME NEW j \in 1..Len(wire'), NEW k \in 1..Len(wire'), j < k
                   PROVE  Before(wire'[j], wire'[k])
        OBVIOUS
      <4>1. j \in 1..Len(wire)
        BY <3>2
      <4>2. CASE k \in 1..Len(wire)
        BY <3>2, <4>1, <4>2 DEF OrderInv, AnswersInOrder, Before
      <4>3. CASE k = Len(wire) + 1
        BY <2>1, <3>2, <4>1, <4>3 DEF OrderInv
      <4>. QED BY <3>3, <4>2, <4>3
    <3>6. AnswersInOrder'
      BY <3>5 DEF AnswersInOrder, Before
    <3>7. \A k \in 1..Len(wire') : Handed(wire[k])'
      BY <2>1, <3>4 DEF Handed
    <3>. QED BY <2>1, <3>6, <3>7 DEF OrderInv
  <2>. QED BY <2>2, <2>3
<1>19. CASE WriteError
  BY <1>19 DEF WriteError, TypeOK, Placement, Busy, OrderInv, AnswersInOrder, Handed, Before, Answering, Responses, client, listing, sending, ranging, sweep, contexts, writerVars, readerVars
<1>20. CASE ChannelClosed
  BY <1>20 DEF ChannelClosed, TypeOK, Placement, Busy, OrderInv, AnswersInOrder, Handed, Before, Answering, Responses, client, listing, sending, ranging, sweep, contexts, writerVars, readerVars
<1>21. CASE CloseDone
  BY <1>21 DEF CloseDone, TypeOK, Placement, Busy, OrderInv, AnswersInOrder, Handed, Before, Answering, Responses, client, listing, sending, ranging, sweep, contexts, writerVars, readerVars
<1>22. CASE CloseConn
  BY <1>22 DEF CloseConn, TypeOK, Placement, Busy, OrderInv, AnswersInOrder, Handed, Before, Answering, Responses, client, listing, sending, ranging, sweep, contexts, writerVars, readerVars
<1>23. CASE Sweep \/ SweepVisit \/ SweepCall \/ SweepDelete \/ SweepOver
  <2>1. /\ UNCHANGED <<taken, reader, wire, writing>> /\ (writer' = "write" => writer = "write")
    BY <1>23 DEF Sweep, SweepVisit, SweepCall, SweepDelete, SweepOver, readerVars
  <2>. QED BY <1>a, <2>1
<1>. QED BY <1>1, <1>2, <1>3, <1>4, <1>5, <1>6, <1>7, <1>8, <1>9, <1>10, <1>11, <1>12, <1>13, <1>14, <1>15, <1>17, <1>18, <1>19, <1>20, <1>21, <1>22, <1>23 DEF Next

(* Whatever messages arrive, and however the goroutines interleave, the   *)
(* client receives the answers request by request, each ended once.        *)
THEOREM AnswersOrdered == Spec => []AnswersInOrder
<1>1. Init => OrderInv
  BY InitOrder
<1>2. Shape /\ Alone /\ OrderInv /\ [Next]_vars => OrderInv'
  <2> SUFFICES ASSUME Shape, Alone, OrderInv, [Next]_vars PROVE OrderInv'
    OBVIOUS
  <2>1. CASE Next
    BY <2>1, OrderStep
  <2>2. CASE UNCHANGED vars
    BY <2>2 DEF OrderInv, AnswersInOrder, Handed, Before, vars, client, listing, sending, contexts, writerVars
  <2>. QED BY <2>1, <2>2
<1>3. OrderInv => AnswersInOrder
  BY DEF OrderInv
<1>. QED BY <1>1, <1>2, <1>3, ShapeCorrect, AloneCorrect, PTL DEF Spec

-----------------------------------------------------------------------------
(* Contexts released.                                                      *)

(* Where the last message's context is open: in the hands of the reader or *)
(* in the map, from which only what was called is deleted; a writer that   *)
(* goes through the map after the reader has ended finds it there.         *)
Open == Ctx > 0 /\ Text(Msg) /\ Ctx \notin cancelled
OlderReleased ==
  \A n \in 1..Len(taken) : Text(taken[n]) => n \in cancelled \/ n = Len(taken)
OpenIsFound ==
  /\ Open => /\ reader \notin {"check", "read", "delete"} /\ writer # "delete"
             /\ reader = "store" \/ cancels[Msg.rid] = Ctx
  /\ Open /\ reader = "ended" => Msg.mode \in {"close", "rewind"}
  /\ reader = "send" /\ resume = "ended" => Msg.mode = "rewind"
SweepFinds ==
  /\ peer = "up" /\ writer \notin {"range", "write"} => reader = "ended"
  /\ peer = "up" /\ writer \in Sweeping =>
       \A r \in RequestIDs :
         cancels[r] # 0 => \/ r \in sweepKeys
                           \/ writer \in {"call", "delete"} /\ r = sweepLoaded.key
  /\ writer = "ended" => sweepKeys = {}
Released == OlderReleased /\ OpenIsFound /\ SweepFinds

LEMMA InitReleased == Init => Released
<1> SUFFICES ASSUME Init PROVE Released
  OBVIOUS
<1>1. Len(taken) = 0 /\ Ctx = 0
  BY DEF Init, Ctx
<1> QED
  BY <1>1 DEF Init, Released, OlderReleased, OpenIsFound, SweepFinds, Open, Sweeping

(* While no message is read older contexts stay released. *)
LEMMA OlderStep == Shape /\ Alone /\ Released /\ Next => OlderReleased'
<1> SUFFICES ASSUME Shape, Alone, Released, Next PROVE OlderReleased'
  OBVIOUS
<1>1. CASE Read
  <2>1. taken' = Append(taken, Head(inbox)) /\ UNCHANGED cancelled /\ reader = "read"
    BY <1>1 DEF Read, contexts
  <2>2. /\ Len(taken) \in Nat /\ Len(taken') = Len(taken) + 1
        /\ \A n \in 1..Len(taken) : taken'[n] = taken[n]
    BY <2>1, Elements, AppendProperties DEF Shape
  <2>3. \A n \in 1..Len(taken) : Text(taken[n]) => n \in cancelled
    BY <2>1, <2>2 DEF Released, OlderReleased, OpenIsFound, Open, Ctx, Msg
  <2> QED
    BY <2>1, <2>2, <2>3 DEF OlderReleased
<1>2. CASE ~Read
  <2>1. UNCHANGED taken /\ cancelled \subseteq cancelled'
    BY <1>2 DEF Next, ClientSend, ClientGone, HandOver, Check, ReadError, Store, Close, Cancel,
         Finish, LoadOwn, Call, Delete, CancelPrevious, Visit, RangeOver, Start, RefuseRewind,
         NextItem, ListingOver, RequestEnd, SendDropped, Write, WriteError, ChannelClosed,
         CloseDone, CloseConn, Sweep, SweepVisit, SweepCall, SweepDelete, SweepOver,
         contexts, readerVars
  <2> QED
    BY <2>1 DEF Released, OlderReleased
<1> QED
  BY <1>1, <1>2

(* What is open stays where its function is found. *)
LEMMA OpenStep == Shape /\ Alone /\ Released /\ Next => OpenIsFound'
<1> SUFFICES ASSUME Shape, Alone, Released, Next PROVE OpenIsFound'
  OBVIOUS
<1>a. ASSUME UNCHANGED taken PROVE Ctx' = Ctx /\ Msg' = Msg
  BY <1>a DEF Ctx, Msg
<1>b. /\ OpenIsFound /\ cancels \in [RequestIDs -> 0..Len(taken)]
      /\ reader \in Busy => Ctx > 0 /\ Text(Msg) /\ Msg.rid \in RequestIDs
      /\ reader = "send" => resume \in {"list", "end", "finish", "ended"}
  BY CurrentMessage DEF Released, Shape, TypeOK, Placement, Msg, Ctx
<1>c. \A r \in RequestIDs : cancels[r] # 0 => r = Msg.rid /\ cancels[r] = Ctx
  BY DEF Alone, Func, Own
<1>d. ASSUME UNCHANGED <<taken, cancels, writer>>, cancelled \subseteq cancelled',
             Open' => reader' \notin {"check", "read", "delete"}
                      /\ (reader' = "ended" => Msg.mode \in {"close", "rewind"}),
             reader = "store" => ~Open',
             reader' = "send" /\ resume' = "ended" => Msg.mode = "rewind"
      PROVE  OpenIsFound'
  BY <1>a, <1>b, <1>d DEF OpenIsFound, Open
<1>e. ASSUME UNCHANGED <<taken, reader, resume, cancels, cancelled>>, writer' # "delete"
      PROVE  OpenIsFound'
  BY <1>a, <1>b, <1>e DEF OpenIsFound, Open
<1>f. ASSUME UNCHANGED <<taken, cancelled>> PROVE Open' = Open
  BY <1>a, <1>f DEF Open
<1>1. CASE \E mode \in Modes, rid \in RequestIDs : ClientSend(mode, rid)
  BY <1>1, <1>a, <1>b DEF ClientSend, OpenIsFound, Open, sending, contexts, writerVars
<1>2. CASE ClientGone
  BY <1>2, <1>a, <1>b DEF ClientGone, OpenIsFound, Open, sending, contexts, writerVars
<1>3. CASE HandOver
  BY <1>3, <1>a, <1>b DEF HandOver, OpenIsFound, Open, contexts
<1>4. CASE SendDropped
  BY <1>4, <1>b, <1>d, <1>f DEF SendDropped, OpenIsFound, contexts, writerVars
<1>5. CASE Check \/ ReadError
  BY <1>5, <1>b, <1>d, <1>f DEF Check, ReadError, OpenIsFound, contexts, writerVars
<1>6. CASE Read
  <2>1. /\ reader = "read" /\ reader' = IF Text(Head(inbox)) THEN "store" ELSE "check"
        /\ taken' = Append(taken, Head(inbox)) /\ UNCHANGED writer /\ conn = "open"
    BY <1>6 DEF Read, writerVars
  <2>2. Msg' = Head(inbox)
    BY <1>6, <2>1, Elements, HeadTailProperties, AppendProperties DEF Msg, Ctx, Shape, Read
  <2>3. writer # "delete"
    BY <2>1 DEF Alone, Sweeping
  <2>4. Open' => reader' = "store"
    BY <2>1, <2>2 DEF Open
  <2>5. reader' \notin {"ended", "send", "delete"}
    BY <2>1
  <2> QED
    BY <2>1, <2>3, <2>4, <2>5 DEF OpenIsFound
<1>7. CASE Store
  <2>1. /\ reader' = "dispatch" /\ cancels' = [cancels EXCEPT ![Msg.rid] = Ctx]
        /\ UNCHANGED <<taken, cancelled, writer>>
    BY <1>7 DEF Store, writerVars
  <2>2. Msg.rid \in RequestIDs
    BY <1>7, <1>b DEF Store, Busy
  <2>3. cancels'[Msg.rid] = Ctx
    BY <1>b, <2>1, <2>2
  <2> QED
    BY <1>a, <1>b, <1>f, <2>1, <2>3 DEF OpenIsFound
<1>8. CASE Close
  BY <1>8, <1>b, <1>d, <1>f DEF Close, OpenIsFound, contexts, writerVars
<1>9. CASE Cancel \/ Finish
  <2>1. /\ UNCHANGED <<taken, cancels, cancelled, writer>> /\ reader \in {"dispatch", "finish"}
        /\ \/ reader' = "check" /\ cancels[Msg.rid] = 0
           \/ reader' = "call"
    BY <1>9 DEF Cancel, Finish, LoadOwn, contexts, writerVars
  <2>2. Open /\ cancels[Msg.rid] = 0 => FALSE
    BY <1>b, <2>1 DEF OpenIsFound, Open
  <2> QED
    BY <1>d, <1>f, <2>1, <2>2
<1>10. CASE Call
  <2>1. /\ cancelled' = cancelled \cup {loaded.ctx} /\ reader = "call" /\ reader' = "delete"
        /\ UNCHANGED <<taken, cancels, writer>>
    BY <1>10 DEF Call, writerVars
  <2>2. Ctx \in cancelled'
    BY <2>1 DEF Alone, Own
  <2> QED
    BY <1>a, <1>d, <2>1, <2>2 DEF Open
<1>11. CASE Delete
  <2>1. /\ reader = "delete" /\ reader' = "check" /\ UNCHANGED <<taken, cancelled, writer>>
    BY <1>11 DEF Delete, Alone, writerVars
  <2>2. ~Open'
    BY <1>b, <1>f, <2>1 DEF OpenIsFound
  <2> QED
    BY <2>1, <2>2 DEF OpenIsFound
<1>12. CASE CancelPrevious \/ Visit \/ RangeOver
  <2>1. /\ UNCHANGED <<taken, cancels, cancelled, writer>> /\ reader \in {"dispatch", "range"}
        /\ reader' \in {"range", "start", "call"}
    BY <1>12 DEF CancelPrevious, Visit, RangeOver, contexts, writerVars
  <2> QED
    BY <1>d, <2>1
<1>13. CASE Start \/ NextItem \/ ListingOver \/ RequestEnd
  <2>1. /\ UNCHANGED <<taken, cancels, cancelled, writer>> /\ reader # "store"
        /\ reader' \in {"list", "end", "send"} /\ (reader' = "send" => resume' # "ended")
    BY <1>13 DEF Start, NextItem, ListingOver, RequestEnd, Send, contexts, writerVars
  <2> QED
    BY <1>d, <2>1
<1>14. CASE RefuseRewind
  BY <1>14, <1>d DEF RefuseRewind, Send, contexts, writerVars
<1>15. CASE Write \/ WriteError \/ ChannelClosed \/ CloseDone \/ CloseConn \/ Sweep \/ SweepOver
            \/ SweepVisit
  BY <1>15, <1>e DEF Write, WriteError, ChannelClosed, CloseDone, CloseConn, Sweep, SweepOver,
                     SweepVisit, readerVars, sending, contexts
<1>16. CASE SweepCall
  <2>1. /\ cancelled' = cancelled \cup {sweepLoaded.ctx} /\ writer = "call"
        /\ UNCHANGED <<taken, reader, resume>>
    BY <1>16 DEF SweepCall, readerVars, sending
  <2>2. ~Open'
    BY <1>a, <2>1 DEF Alone, Own, Open
  <2> QED
    BY <1>a, <1>b, <2>1, <2>2 DEF OpenIsFound
<1>17. CASE SweepDelete
  <2>1. writer = "delete" /\ UNCHANGED <<taken, reader, resume, cancelled>>
    BY <1>17 DEF SweepDelete, readerVars, sending
  <2>2. ~Open'
    BY <1>b, <1>f, <2>1 DEF OpenIsFound
  <2> QED
    BY <1>a, <1>b, <2>1, <2>2 DEF OpenIsFound
<1> QED
  BY <1>1, <1>2, <1>3, <1>4, <1>5, <1>6, <1>7, <1>8, <1>9, <1>10, <1>11, <1>12, <1>13, <1>14,
     <1>15, <1>16, <1>17 DEF Next

(* While the client is there a writer stops only after the reader, and its *)
(* Range passes over nothing that the map holds.                           *)
LEMMA SweepStep == Shape /\ Alone /\ Released /\ Next => SweepFinds'
<1> SUFFICES ASSUME Shape, Alone, Released, Next PROVE SweepFinds'
  OBVIOUS
<1>a. SweepFinds /\ cancels \in [RequestIDs -> 0..Len(taken)] /\ sweepKeys \subseteq RequestIDs
  BY DEF Released, Shape, TypeOK
<1>1. CASE UNCHANGED writerVars
  <2>1. CASE writer \in {"range", "write"}
    BY <1>1, <2>1 DEF SweepFinds, Sweeping, writerVars, sweep
  <2>2. CASE peer = "gone" \/ reader # "ended"
    <3>1. peer = "up" => writer \in {"range", "write"}
      BY <1>a, <2>2 DEF SweepFinds
    <3>2. peer' = "up" => peer = "up"
      BY DEF Next, ClientSend, ClientGone, HandOver, Check, ReadError, Read, Store, Close,
         Cancel, Finish, LoadOwn, Call, Delete, CancelPrevious, Visit, RangeOver, Start,
         RefuseRewind, NextItem, ListingOver, RequestEnd, SendDropped, Write, WriteError,
         ChannelClosed, CloseDone, CloseConn, Sweep, SweepVisit, SweepCall, SweepDelete,
         SweepOver, client
    <3> QED
      BY <1>1, <1>a, <3>1, <3>2 DEF SweepFinds, Sweeping, writerVars, sweep
  <2>3. CASE peer = "up" /\ reader = "ended"
    <3>1. UNCHANGED <<reader, cancels>>
      BY <1>1, <2>3 DEF Next, ClientSend, ClientGone, HandOver, Check, ReadError, Read, Store,
         Close, Cancel, Finish, LoadOwn, Call, Delete, CancelPrevious, Visit, RangeOver, Start,
         RefuseRewind, NextItem, ListingOver, RequestEnd, SendDropped, Write, WriteError,
         ChannelClosed, CloseDone, CloseConn, Sweep, SweepVisit, SweepCall, SweepDelete,
         SweepOver, contexts, writerVars, readerVars
    <3> QED
      BY <1>1, <1>a, <2>3, <3>1 DEF SweepFinds, Sweeping, writerVars, sweep
  <2> QED
    BY <2>1, <2>2, <2>3 DEF Shape, TypeOK
<1>2. CASE HandOver \/ Write
  BY <1>2, <1>a DEF HandOver, Write, SweepFinds, Sweeping
<1>3. CASE WriteError \/ ChannelClosed \/ CloseDone \/ CloseConn
  BY <1>3, <1>a DEF WriteError, ChannelClosed, CloseDone, CloseConn, SweepFinds, Sweeping,
                    client, readerVars
<1>4. CASE Sweep
  BY <1>4, <1>a DEF Sweep, Ranged, SweepFinds, Sweeping, client, readerVars, contexts
<1>5. CASE SweepVisit
  <2>1. PICK r \in sweepKeys :
          /\ sweepKeys' = sweepKeys \ {r}
          /\ \/ cancels[r] = 0 /\ UNCHANGED <<writer, sweepLoaded>>
             \/ sweepLoaded' = Func(r) /\ writer' = "call"
    BY <1>5 DEF SweepVisit
  <2>2. writer = "sweep" /\ UNCHANGED <<peer, reader, cancels>>
    BY <1>5 DEF SweepVisit, client, readerVars, contexts
  <2>3. Func(r).key = r
    BY DEF Func
  <2> QED
    BY <1>a, <2>1, <2>2, <2>3 DEF SweepFinds, Sweeping
<1>6. CASE SweepCall
  BY <1>6, <1>a DEF SweepCall, SweepFinds, Sweeping, client, readerVars, sweep
<1>7. CASE SweepDelete
  <2>1. /\ cancels' = [cancels EXCEPT ![sweepLoaded.key] = 0] /\ writer = "delete"
        /\ writer' = "sweep" /\ UNCHANGED <<peer, reader, sweepKeys>>
    BY <1>7 DEF SweepDelete, client, readerVars
  <2>2. \A r \in RequestIDs : cancels'[r] # 0 => cancels[r] # 0 /\ r # sweepLoaded.key
    BY <1>a, <2>1
  <2> QED
    BY <1>a, <2>1, <2>2 DEF SweepFinds, Sweeping
<1>8. CASE SweepOver
  BY <1>8, <1>a DEF SweepOver, SweepFinds, Sweeping, client, readerVars, contexts, sweep
<1>9. UNCHANGED writerVars \/ HandOver \/ WriterStep
  BY DEF Next, ClientSend, ClientGone, Check, ReadError, Read, Store, Close, Cancel, Finish,
         LoadOwn, Call, Delete, CancelPrevious, Visit, RangeOver, Start, RefuseRewind, NextItem,
         ListingOver, RequestEnd, SendDropped, WriterStep
<1> QED
  BY <1>1, <1>2, <1>3, <1>4, <1>5, <1>6, <1>7, <1>8, <1>9 DEF WriterStep

(* Whatever messages arrive, and wherever Range, Load, call and Delete of  *)
(* one goroutine fall between those of the other, a context is left open   *)
(* only by a close or a refused rewind on a connection that is gone.       *)
THEOREM ContextsAreReleased == Spec => []ContextsReleased
<1>1. Shape /\ Alone /\ Released /\ [Next]_vars => Released'
  <2> SUFFICES ASSUME Shape, Alone, Released, UNCHANGED vars PROVE Released'
    BY OlderStep, OpenStep, SweepStep DEF Released
  <2>1. UNCHANGED <<taken, peer, reader, resume, cancels, cancelled, writer, sweepKeys,
                    sweepLoaded>>
    BY DEF vars, client, sending, contexts, writerVars, sweep
  <2> QED
    BY <2>1 DEF Released, OlderReleased, OpenIsFound, SweepFinds, Open, Msg, Ctx
<1>2. Shape /\ Released => ContextsReleased
  <2> SUFFICES ASSUME Shape, Released, NEW n \in 1..Len(taken), n \notin cancelled, Text(taken[n])
               PROVE  /\ n = Ctx
                      /\ \/ reader \notin {"check", "read", "ended"}
                         \/ /\ taken[n].mode \in {"close", "rewind"}
                            /\ writer = "ended" => peer = "gone"
    BY DEF ContextsReleased
  <2>1. n = Ctx /\ taken[n] = Msg /\ Open
    BY Elements DEF Released, OlderReleased, Open, Ctx, Msg, Shape
  <2>2. reader \notin {"check", "read"}
    BY <2>1 DEF Released, OpenIsFound
  <2>3. ASSUME reader = "ended", writer = "ended", peer = "up" PROVE FALSE
    <3>1. cancels[Msg.rid] = Ctx /\ Ctx # 0 /\ Msg.rid \in RequestIDs
      BY <2>1, <2>3, Elements DEF Released, OpenIsFound, Open, Shape
    <3> QED
      BY <2>3, <3>1 DEF Released, SweepFinds, Sweeping
  <2> QED
    BY <2>1, <2>2, <2>3 DEF Released, OpenIsFound, Shape, TypeOK
<1> QED
  BY <1>1, <1>2, InitReleased, AloneCorrect, ShapeCorrect, PTL DEF Spec

-----------------------------------------------------------------------------
(* Complete answers.                                                       *)

(* A set of positions grows by what one more response carries. *)
Rising(b) == \A x, y \in 1..Len(b) : x < y => b[x] < b[y]
After(s, n, b) == \A p \in Positions(s, n) : \A y \in 1..Len(b) : p < b[y]

LEMMA RangeOf ==
  ASSUME NEW b \in Seq(Nat)
  PROVE  /\ \A p : p \in Range(b) <=> \E y \in 1..Len(b) : p = b[y]
         /\ Range(b) \subseteq Nat
<1>1. DOMAIN b = 1..Len(b) /\ \A y \in 1..Len(b) : b[y] \in Nat
  OBVIOUS
<1> QED
  BY <1>1 DEF Range

LEMMA AppendAnswers ==
  ASSUME NEW s \in Seq(Responses), NEW w \in Responses, NEW n \in Nat, w.ctx = n
  PROVE  /\ Positions(Append(s, w), n) = Positions(s, n) \cup Range(w.data)
         /\ InOrder(s, n) /\ Rising(w.data) /\ After(s, n, w.data)
              => InOrder(Append(s, w), n)
         /\ w.kind = "error" => /\ Errors(Append(s, w), n) = Errors(s, n) \cup {Len(s) + 1}
                                /\ Len(s) + 1 \notin Errors(s, n)
         /\ w.kind # "error" => Errors(Append(s, w), n) = Errors(s, n)
<1> DEFINE t == Append(s, w)
<1>1. /\ Len(s) \in Nat /\ Len(t) = Len(s) + 1 /\ t[Len(s) + 1] = w
      /\ \A j \in 1..Len(s) : t[j] = s[j] /\ j # Len(s) + 1 /\ j \in 1..Len(t)
      /\ \A j \in 1..Len(t) : j \in 1..Len(s) \/ j = Len(s) + 1
  OBVIOUS
<1> HIDE DEF t
<1>2. Answers(t, n) = Answers(s, n) \cup {Len(s) + 1}
  BY <1>1 DEF Answers
<1>3. \A j \in Answers(s, n) : j \in 1..Len(s) /\ t[j] = s[j] /\ j # Len(s) + 1 /\ j < Len(s) + 1
  BY <1>1 DEF Answers
<1>4. Positions(t, n) = Positions(s, n) \cup Range(w.data)
  BY <1>1, <1>2, <1>3 DEF Positions
<1>5. ASSUME InOrder(s, n), Rising(w.data), After(s, n, w.data) PROVE InOrder(t, n)
  <2> SUFFICES ASSUME NEW i \in Answers(t, n), NEW j \in Answers(t, n),
                      NEW x \in 1..Len(t[i].data), NEW y \in 1..Len(t[j].data),
                      i < j \/ (i = j /\ x < y)
               PROVE  t[i].data[x] < t[j].data[y]
    BY DEF InOrder
  <2>1. CASE i \in Answers(s, n) /\ j \in Answers(s, n)
    BY <1>3, <1>5, <2>1 DEF InOrder
  <2>2. CASE i \in Answers(s, n) /\ j = Len(s) + 1
    <3>1. s[i].data[x] \in Positions(s, n)
      <4>0. s[i] \in Responses
        BY <1>3, <2>2, ElementOfSeq
      <4>1. s[i].data \in Seq(Nat) /\ x \in 1..Len(s[i].data)
        BY <1>3, <2>2, <4>0 DEF Responses
      <4>2. s[i].data[x] \in Range(s[i].data)
        BY <4>1, RangeOf
      <4> QED
        BY <2>2, <4>2 DEF Positions
    <3> QED
      BY <1>1, <1>3, <1>5, <2>2, <3>1 DEF After
  <2>3. CASE i = Len(s) + 1
    <3>1. i = j /\ x < y
      BY <1>1, <1>2, <1>3, <2>3
    <3> QED
      BY <1>1, <1>5, <2>3, <3>1 DEF Rising
  <2> QED
    BY <1>2, <2>1, <2>2, <2>3
<1>6. w.kind = "error" => Errors(t, n) = Errors(s, n) \cup {Len(s) + 1}
  BY <1>1, <1>2, <1>3 DEF Errors
<1>7. w.kind # "error" => Errors(t, n) = Errors(s, n)
  BY <1>1, <1>2, <1>3 DEF Errors
<1>8. Len(s) + 1 \notin Errors(s, n)
  BY <1>3 DEF Errors
<1> QED
  BY <1>4, <1>5, <1>6, <1>7, <1>8 DEF t

(* What the listing comes to grows by one entry at a time. *)
LEMMA OneMore ==
  ASSUME NEW p \in Nat
  PROVE  /\ Wanted(p + 1) => WantedTo(p + 1) = WantedTo(p) \cup {p + 1}
         /\ ~Wanted(p + 1) => WantedTo(p + 1) = WantedTo(p)
         /\ content[p + 1] = "error" => /\ ErrorsTo(p + 1) = ErrorsTo(p) \cup {p + 1}
                                        /\ p + 1 \notin ErrorsTo(p)
         /\ content[p + 1] # "error" => ErrorsTo(p + 1) = ErrorsTo(p)
<1>1. 1..(p + 1) = (1..p) \cup {p + 1} /\ p + 1 \notin 1..p
  OBVIOUS
<1> QED
  BY <1>1 DEF WantedTo, ErrorsTo

LEMMA CountErrors ==
  ASSUME NEW s \in Seq(Responses), NEW n, NEW p \in Nat
  PROVE  IsFiniteSet(Errors(s, n)) /\ IsFiniteSet(ErrorsTo(p))
<1>1. IsFiniteSet(1..Len(s)) /\ IsFiniteSet(1..p)
  BY FS_Interval
<1>2. Errors(s, n) \subseteq 1..Len(s) /\ ErrorsTo(p) \subseteq 1..p
  BY DEF Errors, Answers, ErrorsTo
<1> QED
  BY <1>1, <1>2, FS_Subset

(* Everything said so far: written, being written, being handed over. *)
Carried == IF writer = "write" THEN Append(wire, writing) ELSE wire
Flow == IF reader = "send" THEN Append(Carried, response) ELSE Carried
EndSaid == \E j \in Answers(Flow, Ctx) : Flow[j].kind = "end"

(* What is said now still reaches the client. *)
Live == peer = "up" /\ writer \in {"range", "write"}

(* Before, in the middle of, and after the listing of the last message. *)
Unheard == reader \in {"store", "dispatch", "range", "start"}
InMiddle == reader = "list" \/ (reader = "send" /\ resume = "list")
Over == \/ reader \in {"end", "finish"}
        \/ reader = "send" /\ resume \in {"end", "finish"}
        \/ EndSaid

(* What is said and what waits in the buffer is the listing so far. *)
Partial ==
  /\ Positions(Flow, Ctx) \cup Range(buffer) = WantedTo(pos)
  /\ InOrder(Flow, Ctx)
  /\ Cardinality(Errors(Flow, Ctx)) = Cardinality(ErrorsTo(pos))
FlowInv ==
  Live /\ Ctx > 0 =>
    /\ Unheard => Answers(Flow, Ctx) = {}
    /\ InMiddle \/ Over => Partial
    /\ InMiddle => Rising(buffer) /\ After(Flow, Ctx, buffer)
    /\ Over => pos = Len(content) /\ Range(buffer) \subseteq Positions(Flow, Ctx)

(* Only listings are listed, and none is cancelled while it is answered to *)
(* a client that is there.                                                 *)
Listed == {"range", "start", "list", "send", "end", "finish"}
ListingsOnly == reader \in Listed => Msg.mode \in Listings
Uncancelled == Live /\ reader \in Answering => Ctx \notin cancelled
DoneNotLive == doneClosed => ~Live

CInv == /\ ListingsOnly /\ Uncancelled /\ DoneNotLive
        /\ FlowInv /\ EndIsComplete
Base == Shape /\ Alone /\ OrderInv

(* What is said is said of the last message or an older one, and an end    *)
(* is said when nothing more will be.                                      *)
LEMMA FlowFacts ==
  ASSUME Base
  PROVE  /\ Ctx \in Nat /\ wire \in Seq(Responses) /\ Carried \in Seq(Responses)
         /\ Flow \in Seq(Responses)
         /\ \A j \in 1..Len(Flow) : Flow[j].ctx <= Ctx
         /\ EndSaid /\ reader \in Answering => reader = "send" /\ resume = "finish"
         /\ reader \in Answering => \A j \in Answers(Carried, Ctx) : Carried[j].kind # "end"
         /\ reader \in Answering => ~Ended(Ctx)
<1>1. /\ Ctx = Len(taken) /\ Ctx \in Nat /\ wire \in Seq(Responses) /\ Len(wire) \in Nat
      /\ response \in Responses /\ writing \in Responses
  BY Elements DEF Base, Shape, TypeOK, Ctx
<1>2. Carried \in Seq(Responses) /\ Flow \in Seq(Responses) /\ Len(Carried) \in Nat
  BY <1>1 DEF Carried, Flow
<1>3. \A j \in 1..Len(Carried) : Handed(Carried[j])
  <2>1. CASE writer = "write"
    <3>1. Carried = Append(wire, writing) /\ Handed(writing)
      BY <2>1 DEF Carried, Base, OrderInv
    <3>2. \A j \in 1..Len(Carried) : \/ j \in 1..Len(wire) /\ Carried[j] = wire[j]
                                     \/ Carried[j] = writing
      BY <1>1, <3>1
    <3> QED
      BY <3>1, <3>2 DEF Base, OrderInv
  <2>2. CASE writer # "write"
    BY <2>2 DEF Carried, Base, OrderInv
  <2> QED
    BY <2>1, <2>2
<1>4. reader = "send" => /\ response.ctx = Ctx
                         /\ response.kind = "end" => resume = "finish"
  BY <1>1 DEF Base, Shape, Placement
<1>5. \A j \in 1..Len(Flow) : \/ j \in 1..Len(Carried) /\ Flow[j] = Carried[j]
                              \/ reader = "send" /\ Flow[j] = response
  BY <1>1, <1>2 DEF Flow
<1>6. \A j \in 1..Len(Flow) : Flow[j].ctx <= Ctx
  BY <1>1, <1>3, <1>4, <1>5 DEF Handed
<1>7. reader \in Answering => \A j \in Answers(Carried, Ctx) : Carried[j].kind # "end"
  BY <1>1, <1>3 DEF Handed, Answers
<1>8. EndSaid /\ reader \in Answering => reader = "send" /\ resume = "finish"
  <2> SUFFICES ASSUME NEW j \in Answers(Flow, Ctx), Flow[j].kind = "end", reader \in Answering
               PROVE  reader = "send" /\ resume = "finish"
    BY DEF EndSaid
  <2>1. j \in 1..Len(Flow) /\ Flow[j].ctx = Ctx
    BY DEF Answers
  <2>2. ~(j \in 1..Len(Carried) /\ Flow[j] = Carried[j])
    BY <1>7, <2>1 DEF Answers
  <2> QED
    BY <1>4, <1>5, <2>1, <2>2
<1>9. reader \in Answering => ~Ended(Ctx)
  BY <1>1 DEF Base, OrderInv, Handed, Ended
<1> QED
  BY <1>1, <1>2, <1>6, <1>7, <1>8, <1>9

(* A step that says nothing and leaves the listing alone. *)
LEMMA QuietStep ==
  ASSUME FlowInv, UNCHANGED <<taken, content, pos, buffer>>, Flow' = Flow,
         Live' => Live, Unheard' => Unheard, InMiddle' => InMiddle,
         \/ reader' \in {"end", "finish"}
         \/ reader' = "send" /\ resume' \in {"end", "finish"}
         => Over
  PROVE  FlowInv'
<1>1. Ctx' = Ctx /\ Msg' = Msg /\ EndSaid' = EndSaid
  BY DEF Ctx, Msg, EndSaid
<1>2. Over' => Over
  BY <1>1 DEF Over
<1>3. Partial => Partial'
  BY <1>1 DEF Partial, WantedTo, Wanted, ErrorsTo
<1> QED
  BY <1>1, <1>2, <1>3 DEF FlowInv

(* Only listings are listed. *)
LEMMA ListingsStep == Base /\ ListingsOnly /\ Next => ListingsOnly'
<1> SUFFICES ASSUME Base, ListingsOnly, Next PROVE ListingsOnly'
  OBVIOUS
<1>1. CASE Read
  BY <1>1 DEF Read, ListingsOnly, Listed
<1>2. ASSUME UNCHANGED taken, reader' = reader PROVE ListingsOnly'
  BY <1>2 DEF ListingsOnly, Msg, Ctx
<1>3. ASSUME UNCHANGED taken, \/ reader' \notin Listed \/ reader \in Listed
                              \/ Msg.mode \in Listings
      PROVE  ListingsOnly'
  BY <1>3 DEF ListingsOnly, Msg, Ctx
<1>4. CASE \E mode \in Modes, rid \in RequestIDs : ClientSend(mode, rid)
  BY <1>2, <1>4 DEF ClientSend
<1>5. CASE ClientGone \/ WriterStep
  BY <1>2, <1>5 DEF ClientGone, WriterStep, Write, WriteError, ChannelClosed, CloseDone,
                    CloseConn, Sweep, SweepVisit, SweepCall, SweepDelete, SweepOver, readerVars
<1>6. CASE HandOver \/ Check \/ ReadError \/ Store \/ Close \/ Cancel \/ Call \/ Delete
  BY <1>3, <1>6 DEF HandOver, Check, ReadError, Store, Close, Cancel, LoadOwn, Call, Delete,
                    Base, Alone, Listed
<1>7. CASE CancelPrevious \/ Visit \/ RangeOver
  BY <1>3, <1>7 DEF CancelPrevious, Visit, RangeOver, Listed
<1>8. CASE \/ Start \/ RefuseRewind \/ NextItem \/ ListingOver \/ RequestEnd \/ Finish
           \/ SendDropped
  BY <1>3, <1>8 DEF Start, RefuseRewind, NextItem, ListingOver, RequestEnd, Finish, LoadOwn,
                    SendDropped, Listed
<1> QED
  BY <1>1, <1>4, <1>5, <1>6, <1>7, <1>8 DEF Next, WriterStep

(* No step cancels the context of what is being answered while the client  *)
(* can still be told.                                                      *)
LEMMA UncancelledStep == Base /\ Uncancelled /\ Next => Uncancelled'
<1> SUFFICES ASSUME Base, Uncancelled, Next PROVE Uncancelled'
  OBVIOUS
<1>a. Ctx = Len(taken) /\ Len(taken) \in Nat /\ cancelled \subseteq 1..Len(taken)
  BY Elements DEF Base, Shape, TypeOK, Ctx
<1>b. ASSUME UNCHANGED <<taken, cancelled>>, Live' => Live,
             reader' \in Answering => reader \in Answering
      PROVE  Uncancelled'
  BY <1>b DEF Uncancelled, Ctx
<1>1. CASE Read
  <2>1. taken' = Append(taken, Head(inbox)) /\ cancelled' = cancelled
    BY <1>1 DEF Read, contexts
  <2>2. Ctx' = Len(taken) + 1
    BY <2>1, Elements DEF Ctx, Base, Shape
  <2> QED
    BY <1>a, <2>1, <2>2 DEF Uncancelled
<1>2. CASE \E mode \in Modes, rid \in RequestIDs : ClientSend(mode, rid)
  BY <1>b, <1>2 DEF ClientSend, contexts, writerVars, Live
<1>3. CASE ClientGone \/ Write \/ WriteError \/ ChannelClosed \/ CloseDone \/ CloseConn
  BY <1>b, <1>3 DEF ClientGone, Write, WriteError, ChannelClosed, CloseDone, CloseConn,
                    contexts, readerVars, writerVars, client, Live
<1>4. CASE HandOver \/ Check \/ ReadError \/ Store \/ Close
  BY <1>b, <1>4 DEF HandOver, Check, ReadError, Store, Close, contexts, writerVars, client,
                    Live, Answering
<1>5. CASE CancelPrevious \/ Visit \/ RangeOver \/ Start \/ RefuseRewind
  BY <1>b, <1>5 DEF CancelPrevious, Visit, RangeOver, Start, RefuseRewind, contexts, writerVars,
                    client, Live, Answering
<1>6. CASE NextItem \/ ListingOver \/ RequestEnd
  BY <1>b, <1>6 DEF NextItem, ListingOver, RequestEnd, contexts, writerVars, client, Live,
                    Answering
<1>7. CASE SendDropped
  BY <1>b, <1>7 DEF SendDropped, contexts, writerVars, client, Live, Answering
<1>8. CASE Cancel \/ Finish \/ Call \/ Delete
  <2>1. reader' \in {"check", "call", "delete"}
    BY <1>8 DEF Cancel, Finish, LoadOwn, Call, Delete, Base, Alone
  <2> QED
    BY <2>1 DEF Uncancelled, Answering
<1>9. CASE Sweep \/ SweepVisit \/ SweepCall \/ SweepDelete \/ SweepOver
  <2>1. writer' \in {"sweep", "call", "delete", "ended"}
    BY <1>9 DEF Sweep, SweepVisit, SweepCall, SweepDelete, SweepOver
  <2> QED
    BY <2>1 DEF Uncancelled, Live
<1> QED
  BY <1>1, <1>2, <1>3, <1>4, <1>5, <1>6, <1>7, <1>8, <1>9 DEF Next

(* done is closed by a writer that has stopped. *)
LEMMA DoneStep == DoneNotLive /\ Next => DoneNotLive'
<1> SUFFICES ASSUME DoneNotLive, Next PROVE DoneNotLive'
  OBVIOUS
<1> USE DEF DoneNotLive, Live, client, writerVars
<1>1. CASE \E mode \in Modes, rid \in RequestIDs : ClientSend(mode, rid)
  BY <1>1 DEF ClientSend
<1>2. CASE ClientGone \/ Write \/ WriteError \/ ChannelClosed \/ CloseDone \/ CloseConn
  BY <1>2 DEF ClientGone, Write, WriteError, ChannelClosed, CloseDone, CloseConn
<1>3. CASE HandOver \/ Check \/ ReadError \/ Read \/ Store \/ Close \/ CancelPrevious
           \/ Visit \/ RangeOver
  BY <1>3 DEF HandOver, Check, ReadError, Read, Store, Close, CancelPrevious, Visit, RangeOver
<1>4. CASE \/ Start \/ RefuseRewind \/ NextItem \/ ListingOver \/ RequestEnd \/ SendDropped
  BY <1>4 DEF Start, RefuseRewind, NextItem, ListingOver, RequestEnd, SendDropped
<1>5. CASE Cancel \/ Finish \/ Call \/ Delete
  BY <1>5 DEF Cancel, Finish, LoadOwn, Call, Delete
<1>6. CASE Sweep \/ SweepVisit \/ SweepCall \/ SweepDelete \/ SweepOver
  <2>1. writer' \in {"sweep", "call", "delete", "ended"}
    BY <1>6 DEF Sweep, SweepVisit, SweepCall, SweepDelete, SweepOver
  <2> QED
    BY <2>1
<1> QED
  BY <1>1, <1>2, <1>3, <1>4, <1>5, <1>6 DEF Next

(* The buffer takes the next position. *)
LEMMA AppendBuffer ==
  ASSUME NEW b \in Seq(Nat), NEW p \in Nat, \A x \in Range(b) : x < p, Rising(b)
  PROVE  /\ Append(b, p) \in Seq(Nat)
         /\ Range(Append(b, p)) = Range(b) \cup {p}
         /\ Rising(Append(b, p))
<1> DEFINE c == Append(b, p)
<1>1. /\ c \in Seq(Nat) /\ Len(c) = Len(b) + 1 /\ Len(b) \in Nat /\ c[Len(b) + 1] = p
      /\ \A y \in 1..Len(b) : c[y] = b[y]
      /\ \A y \in 1..Len(c) : y \in 1..Len(b) \/ y = Len(b) + 1
  OBVIOUS
<1> HIDE DEF c
<1>2. Range(c) = Range(b) \cup {p}
  <2>1. \A q : q \in Range(c) <=> \E y \in 1..Len(c) : q = c[y]
    BY <1>1, RangeOf
  <2>2. \A q : q \in Range(b) <=> \E y \in 1..Len(b) : q = b[y]
    BY RangeOf
  <2>3. \A q : q \in Range(c) <=> q \in Range(b) \/ q = p
    BY <1>1, <2>1, <2>2
  <2> QED
    BY <2>3
<1>3. Rising(c)
  <2> SUFFICES ASSUME NEW x \in 1..Len(c), NEW y \in 1..Len(c), x < y PROVE c[x] < c[y]
    BY DEF Rising
  <2>1. x \in 1..Len(b) /\ c[x] = b[x] /\ b[x] \in Range(b)
    BY <1>1, RangeOf
  <2> QED
    BY <1>1, <2>1 DEF Rising
<1> QED
  BY <1>1, <1>2, <1>3 DEF c

(* A response that is no end adds no end. *)
LEMMA NoEndSaid ==
  ASSUME Flow \in Seq(Responses), NEW w \in Responses, Flow' = Append(Flow, w),
         Ctx' = Ctx, w.kind # "end"
  PROVE  EndSaid' => EndSaid
<1> SUFFICES ASSUME NEW j \in Answers(Flow', Ctx), Flow'[j].kind = "end" PROVE EndSaid
  BY DEF EndSaid
<1>1. /\ j \in 1..Len(Flow') /\ Flow'[j].ctx = Ctx
  BY DEF Answers
<1>2. \/ j \in 1..Len(Flow) /\ Flow'[j] = Flow[j]
      \/ Flow'[j] = w
  BY <1>1
<1> QED
  BY <1>1, <1>2 DEF EndSaid, Answers

LEMMA StillPartial ==
  ASSUME UNCHANGED <<taken, content>>,
         Positions(Flow', Ctx) \cup Range(buffer') = WantedTo(pos'),
         InOrder(Flow', Ctx),
         Cardinality(Errors(Flow', Ctx)) = Cardinality(ErrorsTo(pos'))
  PROVE  Partial'
<1>1. Ctx' = Ctx /\ Msg' = Msg
  BY DEF Ctx, Msg
<1> QED
  BY <1>1 DEF Partial, WantedTo, Wanted, ErrorsTo

(* What the reader sends is said after everything else. *)
LEMMA Saying ==
  ASSUME Base, Shape', reader # "send", reader' = "send",
         UNCHANGED <<taken, writer, writing, wire>>,
         NEW kind, NEW data, response' = [ctx |-> Ctx, kind |-> kind, data |-> data]
  PROVE  /\ response' \in Responses /\ response'.ctx = Ctx /\ response'.kind = kind
         /\ response'.data = data /\ data \in Seq(Nat)
         /\ Flow' = Append(Flow, response')
<1>1. response' \in Responses
  BY DEF Shape, TypeOK
<1>2. Carried' = Carried /\ Flow = Carried /\ Flow' = Append(Carried', response')
  BY DEF Carried, Flow
<1>3. response'.data = data /\ response'.kind = kind /\ response'.ctx = Ctx
  OBVIOUS
<1>4. data \in Seq(Nat)
  BY <1>1, <1>3 DEF Responses
<1> QED
  BY <1>1, <1>2, <1>3, <1>4

LEMMA Nothing == Range(<<>>) = {} /\ <<>> \in Seq(Nat) /\ Rising(<<>>) /\ Len(<<>>) = 0
BY DEF Range, Rising

(* The next entry of a listing goes to the buffer, to the client, or is    *)
(* reported.                                                               *)
LEMMA NextItemFlow ==
  ASSUME Base, Shape', ListingsOnly, FlowInv, NextItem, Live, Ctx > 0
  PROVE  /\ InMiddle' /\ Partial' /\ Rising(buffer)' /\ After(Flow, Ctx, buffer)'
         /\ EndSaid' => EndSaid
<1> DEFINE p == pos + 1
           item == content[p]
           filled == IF Skipped(item) THEN buffer ELSE Append(buffer, p)
<1>1. /\ reader = "list" /\ pos < Len(content) /\ pos' = p
      /\ UNCHANGED <<taken, content, writer, writing, wire>>
      /\ IF item = "error"
         THEN Send("error", <<>>, "list") /\ buffer' = buffer
         ELSE IF Len(filled) >= ItemsPerBatch
         THEN Send("data", filled, "list") /\ buffer' = <<>>
         ELSE buffer' = filled /\ reader' = reader /\ response' = response /\ resume' = resume
  BY DEF NextItem, writerVars, sending
<1>2. /\ pos \in Nat /\ p \in Nat /\ p > pos /\ p \in 1..Len(content)
      /\ buffer \in Seq(Nat) /\ Ctx \in Nat /\ Flow \in Seq(Responses)
      /\ item \in Items /\ Msg.mode \in Listings
  <2>1. content \in Seq(Items)
    <3>1. content \in Contents \/ content = <<>>
      BY DEF Base, Shape, TypeOK
    <3>2. <<>> \in Seq(Items)
      OBVIOUS
    <3> QED
      BY <3>1, <3>2, SocketAssumption
  <2>2. pos \in Nat /\ p \in Nat /\ p > pos /\ p \in 1..Len(content)
    BY <1>1, <2>1 DEF Base, Shape, TypeOK
  <2>3. item \in Items
    BY <2>1, <2>2, ElementOfSeq
  <2>4. Msg.mode \in Listings
    BY <1>1 DEF ListingsOnly, Listed
  <2> QED
    BY <2>2, <2>3, <2>4, FlowFacts DEF Base, Shape, TypeOK
<1>3. Partial /\ Rising(buffer) /\ After(Flow, Ctx, buffer)
  BY <1>1 DEF FlowInv, InMiddle
<1>4. /\ \A x \in Range(buffer) : x < p
      /\ \A x \in Positions(Flow, Ctx) : x < p
  BY <1>2, <1>3 DEF Partial, WantedTo
<1>5. Wanted(p) <=> item # "error" /\ ~Skipped(item)
  BY <1>2 DEF Wanted, Skipped, Items, Listings
<1>w. item # "error" => WantedTo(p) = IF Skipped(item) THEN WantedTo(pos) ELSE WantedTo(pos) \cup {p}
  BY <1>2, <1>5, OneMore
<1>e. item = "error" => /\ WantedTo(p) = WantedTo(pos)
                        /\ ErrorsTo(p) = ErrorsTo(pos) \cup {p} /\ p \notin ErrorsTo(pos)
  BY <1>2, <1>5, OneMore
<1>n. item # "error" => ErrorsTo(p) = ErrorsTo(pos)
  BY <1>2, OneMore
<1>c. Ctx' = Ctx
  BY <1>1 DEF Ctx
<1>f. item # "error" => /\ filled \in Seq(Nat) /\ Rising(filled)
                        /\ Positions(Flow, Ctx) \cup Range(filled) = WantedTo(p)
                        /\ After(Flow, Ctx, filled)
  <2>1. CASE Skipped(item)
    BY <1>2, <1>3, <1>w, <2>1 DEF Partial
  <2>2. CASE ~Skipped(item)
    <3>1. /\ filled = Append(buffer, p) /\ filled \in Seq(Nat) /\ Rising(filled)
          /\ Range(filled) = Range(buffer) \cup {p}
      BY <1>2, <1>3, <1>4, <2>2, AppendBuffer
    <3>2. item # "error" => Positions(Flow, Ctx) \cup Range(filled) = WantedTo(p)
      BY <1>3, <1>w, <2>2, <3>1 DEF Partial
    <3>3. \A y \in 1..Len(filled) : filled[y] = p \/ (y \in 1..Len(buffer) /\ filled[y] = buffer[y])
      BY <1>2, <3>1
    <3>4. After(Flow, Ctx, filled)
      BY <1>3, <1>4, <3>3 DEF After
    <3> QED
      BY <3>1, <3>2, <3>4
  <2> QED
    BY <2>1, <2>2
<1> HIDE DEF p, item, filled
<1>6. CASE item = "error"
  <2>1. /\ Send("error", <<>>, "list") /\ buffer' = buffer
    BY <1>1, <1>6
  <2>2. /\ reader' = "send" /\ resume' = "list"
        /\ response' = [ctx |-> Ctx, kind |-> "error", data |-> <<>>]
    BY <2>1 DEF Send
  <2>3. /\ response' \in Responses /\ response'.ctx = Ctx /\ response'.kind = "error"
        /\ response'.data = <<>> /\ Flow' = Append(Flow, response')
    BY <1>1, <2>2, Saying
  <2>4. /\ Positions(Flow', Ctx) = Positions(Flow, Ctx)
        /\ InOrder(Flow', Ctx)
        /\ Errors(Flow', Ctx) = Errors(Flow, Ctx) \cup {Len(Flow) + 1}
        /\ Len(Flow) + 1 \notin Errors(Flow, Ctx)
    <3>1. /\ Range(response'.data) = {} /\ Rising(response'.data)
          /\ After(Flow, Ctx, response'.data)
      <4>1. Range(response'.data) = {} /\ Rising(response'.data) /\ Len(response'.data) = 0
        BY <2>3, Nothing
      <4> QED
        BY <4>1 DEF After
    <3>2. InOrder(Flow, Ctx)
      BY <1>3 DEF Partial
    <3>3. /\ Positions(Flow', Ctx) = Positions(Flow, Ctx) \cup Range(response'.data)
          /\ InOrder(Flow', Ctx)
      BY <1>2, <2>3, <3>1, <3>2, AppendAnswers
    <3>4. /\ Errors(Flow', Ctx) = Errors(Flow, Ctx) \cup {Len(Flow) + 1}
          /\ Len(Flow) + 1 \notin Errors(Flow, Ctx)
      BY <1>2, <2>3, AppendAnswers
    <3> QED
      BY <3>1, <3>3, <3>4
  <2>5. Cardinality(Errors(Flow', Ctx)) = Cardinality(ErrorsTo(p))
    <3>1. IsFiniteSet(Errors(Flow, Ctx)) /\ IsFiniteSet(ErrorsTo(pos))
      BY <1>2, CountErrors
    <3>2. Cardinality(Errors(Flow', Ctx)) = Cardinality(Errors(Flow, Ctx)) + 1
      BY <2>4, <3>1, FS_AddElement
    <3>3. Cardinality(ErrorsTo(p)) = Cardinality(ErrorsTo(pos)) + 1
      BY <1>6, <1>e, <3>1, FS_AddElement
    <3> QED
      BY <1>3, <3>2, <3>3 DEF Partial
  <2>6. Partial'
    BY <1>1, <1>3, <1>6, <1>e, <2>1, <2>4, <2>5, StillPartial DEF Partial
  <2>7. After(Flow', Ctx, buffer)
    BY <1>3, <2>4 DEF After
  <2>8. EndSaid' => EndSaid
    BY <1>2, <1>c, <2>3, NoEndSaid
  <2> QED
    BY <1>3, <1>c, <2>1, <2>2, <2>6, <2>7, <2>8 DEF InMiddle, Rising, After
<1>7. CASE item # "error" /\ Len(filled) >= ItemsPerBatch
  <2>1. Send("data", filled, "list") /\ buffer' = <<>>
    BY <1>1, <1>7
  <2>2. /\ reader' = "send" /\ resume' = "list"
        /\ response' = [ctx |-> Ctx, kind |-> "data", data |-> filled]
    BY <2>1 DEF Send
  <2>3. /\ response' \in Responses /\ response'.ctx = Ctx /\ response'.kind = "data"
        /\ response'.data = filled /\ Flow' = Append(Flow, response')
    BY <1>1, <2>2, Saying
  <2>4. /\ Positions(Flow', Ctx) = Positions(Flow, Ctx) \cup Range(filled)
        /\ InOrder(Flow', Ctx)
        /\ Errors(Flow', Ctx) = Errors(Flow, Ctx)
    BY <1>2, <1>3, <1>7, <1>f, <2>3, AppendAnswers DEF Partial
  <2>5. Positions(Flow', Ctx) \cup Range(buffer') = WantedTo(p)
    BY <1>7, <1>f, <2>1, <2>4, Nothing
  <2>6. Partial'
    BY <1>1, <1>3, <1>7, <1>n, <2>4, <2>5, StillPartial DEF Partial
  <2>7. Rising(buffer)' /\ After(Flow, Ctx, buffer)'
    BY <2>1, Nothing DEF Rising, After
  <2>8. EndSaid' => EndSaid
    BY <1>2, <1>c, <2>3, NoEndSaid
  <2> QED
    BY <2>2, <2>6, <2>7, <2>8 DEF InMiddle
<1>8. CASE item # "error" /\ ~(Len(filled) >= ItemsPerBatch)
  <2>1. buffer' = filled /\ reader' = reader /\ response' = response /\ resume' = resume
    BY <1>1, <1>8
  <2>2. Flow' = Flow
    BY <1>1, <2>1 DEF Flow, Carried
  <2>3. Partial'
    BY <1>1, <1>3, <1>8, <1>f, <1>n, <2>1, <2>2, StillPartial DEF Partial
  <2>4. Rising(buffer)' /\ After(Flow, Ctx, buffer)'
    BY <1>8, <1>c, <1>f, <2>1, <2>2 DEF Rising, After
  <2>5. EndSaid' = EndSaid
    BY <1>c, <2>2 DEF EndSaid
  <2> QED
    BY <1>1, <2>1, <2>3, <2>4, <2>5 DEF InMiddle
<1> QED
  BY <1>6, <1>7, <1>8

(* The listing is over: what is left is said before the end. *)
LEMMA ListingOverFlow ==
  ASSUME Base, Shape', Uncancelled, FlowInv, ListingOver, Live, Ctx > 0
  PROVE  FlowInv'
<1>1. /\ reader = "list" /\ pos = Len(content)
      /\ UNCHANGED <<taken, content, pos, buffer, writer, writing, wire>>
      /\ IF buffer # <<>> THEN Send("data", buffer, "end")
         ELSE reader' = "end" /\ UNCHANGED sending
  BY DEF ListingOver, Uncancelled, Answering, listing, writerVars
<1>2. Partial /\ Rising(buffer) /\ After(Flow, Ctx, buffer)
  BY <1>1 DEF FlowInv, InMiddle
<1>3. Ctx \in Nat /\ Flow \in Seq(Responses) /\ Ctx' = Ctx
  BY <1>1, FlowFacts DEF Ctx
<1>4. CASE buffer # <<>>
  <2>1. /\ reader' = "send" /\ resume' = "end"
        /\ response' = [ctx |-> Ctx, kind |-> "data", data |-> buffer]
    BY <1>1, <1>4 DEF Send
  <2>2. /\ response' \in Responses /\ response'.ctx = Ctx /\ response'.kind = "data"
        /\ response'.data = buffer /\ Flow' = Append(Flow, response')
    BY <1>1, <2>1, Saying
  <2>3. /\ Positions(Flow', Ctx) = Positions(Flow, Ctx) \cup Range(buffer)
        /\ InOrder(Flow', Ctx)
        /\ Errors(Flow', Ctx) = Errors(Flow, Ctx)
    BY <1>2, <1>3, <2>2, AppendAnswers DEF Partial
  <2>4. Positions(Flow', Ctx) \cup Range(buffer') = WantedTo(pos')
    BY <1>1, <1>2, <2>3 DEF Partial
  <2>5. Partial'
    BY <1>1, <1>2, <2>3, <2>4, StillPartial DEF Partial
  <2>6. (pos = Len(content) /\ Range(buffer) \subseteq Positions(Flow, Ctx))'
    BY <1>1, <1>3, <2>3
  <2> QED
    BY <2>1, <2>5, <2>6 DEF FlowInv, Unheard, InMiddle
<1>5. CASE buffer = <<>>
  <2>1. reader' = "end" /\ Flow' = Flow
    BY <1>1, <1>5 DEF Flow, Carried
  <2>2. Partial'
    BY <1>1, <1>2, <2>1, StillPartial DEF Partial
  <2>3. (pos = Len(content) /\ Range(buffer) \subseteq Positions(Flow, Ctx))'
    BY <1>1, <1>5, Nothing
  <2> QED
    BY <2>1, <2>2, <2>3 DEF FlowInv, Unheard, InMiddle
<1> QED
  BY <1>4, <1>5

(* The end is said when all is said. *)
LEMMA RequestEndFlow ==
  ASSUME Base, Shape', FlowInv, RequestEnd, Live, Ctx > 0
  PROVE  FlowInv'
<1>1. /\ reader = "end" /\ reader' = "send" /\ resume' = "finish"
      /\ response' = [ctx |-> Ctx, kind |-> "end", data |-> <<>>]
      /\ UNCHANGED <<taken, content, pos, buffer, writer, writing, wire>>
  BY DEF RequestEnd, Send, listing, writerVars
<1>2. Partial /\ pos = Len(content) /\ Range(buffer) \subseteq Positions(Flow, Ctx)
  BY <1>1 DEF FlowInv, Over
<1>3. Ctx \in Nat /\ Flow \in Seq(Responses) /\ Ctx' = Ctx
  BY <1>1, FlowFacts DEF Ctx
<1>4. /\ response' \in Responses /\ response'.ctx = Ctx /\ response'.kind = "end"
      /\ response'.data = <<>> /\ Flow' = Append(Flow, response')
  BY <1>1, Saying
<1>5. /\ Range(response'.data) = {} /\ Rising(response'.data)
      /\ After(Flow, Ctx, response'.data)
  <2>1. Range(response'.data) = {} /\ Rising(response'.data) /\ Len(response'.data) = 0
    BY <1>4, Nothing
  <2> QED
    BY <2>1 DEF After
<1>6. /\ Positions(Flow', Ctx) = Positions(Flow, Ctx) \cup Range(response'.data)
      /\ InOrder(Flow', Ctx)
      /\ Errors(Flow', Ctx) = Errors(Flow, Ctx)
  BY <1>2, <1>3, <1>4, <1>5, AppendAnswers DEF Partial
<1>7. Partial'
  BY <1>1, <1>2, <1>5, <1>6, StillPartial DEF Partial
<1>8. (pos = Len(content) /\ Range(buffer) \subseteq Positions(Flow, Ctx))'
  BY <1>1, <1>2, <1>3, <1>5, <1>6
<1> QED
  BY <1>1, <1>7, <1>8 DEF FlowInv, Unheard, InMiddle

(* Nothing has been said of a message that was just read. *)
LEMMA ReadFlow ==
  ASSUME Base, Read PROVE FlowInv'
<1>1. /\ taken' = Append(taken, Head(inbox)) /\ reader = "read"
      /\ reader' \in {"store", "check"}
      /\ UNCHANGED <<writer, writing, wire>>
  BY DEF Read, writerVars
<1>2. Ctx \in Nat /\ Ctx' = Ctx + 1
  BY <1>1, Elements, FlowFacts DEF Ctx, Base, Shape
<1>3. Flow' = Flow
  BY <1>1 DEF Flow, Carried
<1>4. Answers(Flow', Ctx') = {}
  BY <1>2, <1>3, FlowFacts, SMT DEF Answers
<1>5. ~EndSaid'
  BY <1>4 DEF EndSaid
<1> QED
  BY <1>1, <1>4, <1>5 DEF FlowInv, InMiddle, Over

(* A listing starts with nothing said. *)
LEMMA StartFlow ==
  ASSUME Base, FlowInv, Start, Live, Ctx > 0 PROVE FlowInv'
<1>1. /\ reader = "start" /\ reader' = "list" /\ pos' = 0 /\ buffer' = <<>>
      /\ UNCHANGED <<taken, writer, writing, wire>>
  BY DEF Start, writerVars
<1>2. Ctx' = Ctx /\ Flow' = Flow
  BY <1>1 DEF Ctx, Flow, Carried
<1>3. Answers(Flow', Ctx') = {}
  BY <1>1, <1>2 DEF FlowInv, Unheard
<1>4. /\ Positions(Flow', Ctx') = {} /\ InOrder(Flow', Ctx') /\ Errors(Flow', Ctx') = {}
      /\ ~EndSaid'
  BY <1>3 DEF Positions, InOrder, Errors, EndSaid
<1>5. WantedTo(pos)' = {} /\ ErrorsTo(pos)' = {}
  <2>1. 1..0 = {}
    OBVIOUS
  <2> QED
    BY <1>1, <2>1 DEF WantedTo, ErrorsTo
<1>6. Partial'
  BY <1>1, <1>4, <1>5, Nothing DEF Partial
<1>7. Rising(buffer)' /\ After(Flow, Ctx, buffer)'
  BY <1>1, <1>4, Nothing DEF Rising, After
<1> QED
  BY <1>1, <1>4, <1>6, <1>7 DEF FlowInv, Unheard, Over

(* A refused rewind says so, and no end. *)
LEMMA RefuseFlow ==
  ASSUME Base, Shape', FlowInv, RefuseRewind, Live, Ctx > 0 PROVE FlowInv'
<1>1. /\ reader = "start" /\ reader' = "send" /\ resume' = "ended"
      /\ response' = [ctx |-> Ctx, kind |-> "error", data |-> <<>>]
      /\ UNCHANGED <<taken, writer, writing, wire>>
  BY DEF RefuseRewind, Send, writerVars
<1>2. Flow \in Seq(Responses) /\ Ctx' = Ctx
  BY <1>1, FlowFacts DEF Ctx
<1>3. response' \in Responses /\ response'.kind = "error" /\ Flow' = Append(Flow, response')
  BY <1>1, Saying
<1>4. EndSaid' => EndSaid
  BY <1>2, <1>3, NoEndSaid
<1>5. ~EndSaid
  BY <1>1 DEF FlowInv, Unheard, EndSaid
<1> QED
  BY <1>1, <1>4, <1>5 DEF FlowInv, Unheard, InMiddle, Over

LEMMA FlowStep == Base /\ Shape' /\ CInv /\ Next => FlowInv'
<1> SUFFICES ASSUME Base, Shape', CInv, Next PROVE FlowInv'
  OBVIOUS
<1>a. FlowInv /\ ListingsOnly /\ Uncancelled /\ DoneNotLive
  BY DEF CInv
<1>b. reader = "send" => resume \in {"list", "end", "finish", "ended"}
  BY DEF Base, Shape, Placement
<1>c. ASSUME ~Live' PROVE FlowInv'
  BY <1>c DEF FlowInv
<1>d. ASSUME UNCHANGED taken, Live' => Live, Live /\ Ctx > 0 => FlowInv' PROVE FlowInv'
  BY <1>c, <1>d DEF FlowInv, Ctx
<1>1. CASE \E mode \in Modes, rid \in RequestIDs : ClientSend(mode, rid)
  <2>1. UNCHANGED <<taken, content, pos, buffer, peer, writer, writing, wire, reader,
                    response, resume>>
    BY <1>1 DEF ClientSend, listing, sending, writerVars
  <2>2. Flow' = Flow
    BY <2>1 DEF Flow, Carried
  <2> QED
    BY <1>a, <2>1, <2>2, QuietStep DEF Live, Unheard, InMiddle, Over
<1>2. CASE \/ ClientGone \/ WriteError \/ ChannelClosed \/ CloseDone \/ CloseConn
           \/ Sweep \/ SweepVisit \/ SweepCall \/ SweepDelete \/ SweepOver
  <2>1. peer' = "gone" \/ writer' \notin {"range", "write"}
    BY <1>2 DEF ClientGone, WriteError, ChannelClosed, CloseDone, CloseConn, Sweep, SweepVisit,
                SweepCall, SweepDelete, SweepOver
  <2> QED
    BY <1>c, <2>1 DEF Live
<1>3. CASE Write
  <2>1. /\ UNCHANGED <<taken, content, pos, buffer, peer, reader, response, resume, writing>>
        /\ writer = "write" /\ writer' = "range"
        /\ wire' = IF peer = "up" THEN Append(wire, writing) ELSE wire
    BY <1>3 DEF Write, readerVars, listing, sending, client
  <2>2. CASE peer # "up"
    BY <1>c, <2>1, <2>2 DEF Live
  <2>3. CASE peer = "up"
    <3>1. Flow' = Flow
      BY <2>1, <2>3 DEF Flow, Carried
    <3> QED
      BY <1>a, <2>1, <3>1, QuietStep DEF Live, Unheard, InMiddle, Over
  <2> QED
    BY <2>2, <2>3
<1>4. CASE HandOver
  <2>1. /\ UNCHANGED <<taken, content, pos, buffer, peer, wire>>
        /\ reader = "send" /\ writer = "range" /\ reader' = resume
        /\ writer' = "write" /\ writing' = response
    BY <1>4 DEF HandOver, listing, client
  <2>2. Flow' = Flow
    BY <1>b, <2>1 DEF Flow, Carried
  <2> QED
    BY <1>a, <1>b, <2>1, <2>2, QuietStep DEF Live, Unheard, InMiddle, Over
<1>5. CASE \/ Check \/ ReadError \/ Store \/ Close \/ Cancel \/ Call \/ Delete
           \/ CancelPrevious \/ Visit \/ RangeOver \/ Finish
  <2>1. UNCHANGED <<taken, content, pos, buffer, peer, writer, writing, wire>>
    BY <1>5 DEF Check, ReadError, Store, Close, Cancel, Call, Delete, CancelPrevious, Visit,
                RangeOver, Finish, LoadOwn, listing, writerVars, client
  <2>2. \/ /\ reader \in {"check", "read", "finish", "call", "delete"}
           /\ reader' \in {"ended", "read", "check", "call", "delete"}
        \/ /\ reader \in {"store", "dispatch", "range"}
           /\ reader' \in {"dispatch", "ended", "check", "call", "range", "start"}
    BY <1>5 DEF Check, ReadError, Store, Close, Cancel, Call, Delete, CancelPrevious, Visit,
                RangeOver, Finish, LoadOwn, Base, Alone
  <2>3. Flow' = Flow
    BY <2>1, <2>2 DEF Flow, Carried
  <2> QED
    BY <1>a, <2>1, <2>2, <2>3, QuietStep DEF Live, Unheard, InMiddle, Over
<1>6. CASE SendDropped
  BY <1>6, <1>a, <1>c DEF SendDropped, DoneNotLive, Live, writerVars, client
<1>7. CASE Read
  BY <1>7, ReadFlow
<1>8. CASE Start
  BY <1>8, <1>a, <1>d, StartFlow DEF Start, Live, writerVars, client
<1>9. CASE RefuseRewind
  BY <1>9, <1>a, <1>d, RefuseFlow DEF RefuseRewind, Live, writerVars, client
<1>10. CASE ListingOver
  BY <1>10, <1>a, <1>d, ListingOverFlow DEF ListingOver, Live, writerVars, client
<1>11. CASE RequestEnd
  BY <1>11, <1>a, <1>d, RequestEndFlow DEF RequestEnd, Live, writerVars, client
<1>12. CASE NextItem
  <2>1. ASSUME Live, Ctx > 0 PROVE FlowInv'
    <3>1. reader = "list" /\ ~EndSaid
      BY <1>12, FlowFacts DEF NextItem, Answering
    <3>2. /\ InMiddle' /\ Partial' /\ Rising(buffer)' /\ After(Flow, Ctx, buffer)'
          /\ ~EndSaid'
      BY <1>12, <1>a, <2>1, <3>1, NextItemFlow
    <3> QED
      BY <3>2 DEF FlowInv, InMiddle, Over, Unheard
  <2> QED
    BY <1>12, <1>d, <2>1 DEF NextItem, Live, writerVars, client
<1> QED
  BY <1>1, <1>2, <1>3, <1>4, <1>5, <1>6, <1>7, <1>8, <1>9, <1>10, <1>11, <1>12 DEF Next

(* An end that reaches the client was said after everything else. *)
LEMMA EndStep == Base /\ CInv /\ Next => EndIsComplete'
<1> SUFFICES ASSUME Base, CInv, Next, Ctx' > 0, Ended(Ctx)' PROVE CompleteIn(wire)'
  BY DEF EndIsComplete
<1>a. EndIsComplete /\ FlowInv
  BY DEF CInv
<1>1. ASSUME UNCHANGED <<taken, content, wire>> PROVE CompleteIn(wire)'
  BY <1>1, <1>a DEF EndIsComplete, CompleteIn, Ended, Ctx, Msg, WantedTo, Wanted, ErrorsTo
<1>2. CASE Read
  <2>1. taken' = Append(taken, Head(inbox)) /\ wire' = wire
    BY <1>2 DEF Read, writerVars
  <2>2. Ctx \in Nat /\ Ctx' = Ctx + 1
    BY <2>1, Elements, FlowFacts DEF Ctx, Base, Shape
  <2>3. \A k \in 1..Len(wire) : wire[k].ctx <= Ctx
    BY DEF Base, OrderInv, Handed, Ctx
  <2> QED
    BY <2>1, <2>2, <2>3, Elements DEF Ended, Base, Shape
<1>3. CASE Start
  <2>1. ~Ended(Ctx) /\ UNCHANGED <<taken, wire>>
    BY <1>3, FlowFacts DEF Start, Answering, writerVars
  <2> QED
    BY <2>1 DEF Ended, Ctx
<1>4. CASE Write
  <2>1. /\ writer = "write" /\ UNCHANGED <<taken, content>>
        /\ wire' = IF peer = "up" THEN Append(wire, writing) ELSE wire
    BY <1>4 DEF Write, readerVars, listing
  <2>2. CASE peer # "up"
    BY <1>1, <2>1, <2>2
  <2>3. CASE peer = "up"
    <3>1. wire' = Carried /\ Live /\ Ctx' = Ctx
      BY <2>1, <2>3 DEF Carried, Live, Ctx
    <3>2. \E j \in Answers(Carried, Ctx) : Carried[j].kind = "end"
      BY <3>1 DEF Ended, Answers
    <3>3. reader \notin Answering
      BY <3>2, FlowFacts
    <3>4. Flow = Carried /\ EndSaid
      BY <3>2, <3>3 DEF Flow, EndSaid, Answering
    <3>5. /\ Partial /\ pos = Len(content)
          /\ Range(buffer) \subseteq Positions(Flow, Ctx)
      BY <1>a, <3>1, <3>4 DEF FlowInv, Over
    <3>6. CompleteIn(Carried)
      BY <3>4, <3>5 DEF Partial, CompleteIn
    <3> QED
      BY <2>1, <3>1, <3>6 DEF CompleteIn, WantedTo, Wanted, ErrorsTo, Msg
  <2> QED
    BY <2>2, <2>3
<1>5. CASE \E mode \in Modes, rid \in RequestIDs : ClientSend(mode, rid)
  BY <1>1, <1>5 DEF ClientSend, listing, writerVars
<1>6. CASE \/ ClientGone \/ WriteError \/ ChannelClosed \/ CloseDone \/ CloseConn
           \/ Sweep \/ SweepVisit \/ SweepCall \/ SweepDelete \/ SweepOver
  BY <1>1, <1>6 DEF ClientGone, WriteError, ChannelClosed, CloseDone, CloseConn, Sweep,
                    SweepVisit, SweepCall, SweepDelete, SweepOver, listing, readerVars, writerVars
<1>7. CASE \/ HandOver \/ Check \/ ReadError \/ Store \/ Close \/ Cancel \/ Call \/ Delete
           \/ CancelPrevious \/ Visit \/ RangeOver \/ Finish
  BY <1>1, <1>7 DEF HandOver, Check, ReadError, Store, Close, Cancel, Call, Delete,
                    CancelPrevious, Visit, RangeOver, Finish, LoadOwn, listing, writerVars
<1>8. CASE RefuseRewind \/ NextItem \/ ListingOver \/ RequestEnd \/ SendDropped
  BY <1>1, <1>8 DEF RefuseRewind, NextItem, ListingOver, RequestEnd, SendDropped,
                    listing, writerVars
<1> QED
  BY <1>2, <1>3, <1>4, <1>5, <1>6, <1>7, <1>8 DEF Next

(* When the end of a request reaches the client so have all its objects,   *)
(* each once and in order, and its errors, whatever cancels, sweeps or     *)
(* breaks off in between.                                                  *)
THEOREM EndsAreComplete == Spec => []EndIsComplete
<1>1. Init => CInv
  <2> SUFFICES ASSUME Init PROVE CInv
    OBVIOUS
  <2>1. Ctx = 0
    BY DEF Init, Ctx
  <2>2. ListingsOnly /\ DoneNotLive
    BY DEF Init, ListingsOnly, Listed, DoneNotLive
  <2>3. Uncancelled /\ FlowInv /\ EndIsComplete
    BY <2>1 DEF Init, Uncancelled, FlowInv, EndIsComplete
  <2> QED
    BY <2>2, <2>3 DEF CInv
<1>2. Shape /\ Alone /\ OrderInv /\ Shape' /\ CInv /\ [Next]_vars => CInv'
  <2> SUFFICES ASSUME Base, Shape', CInv, [Next]_vars PROVE CInv'
    BY DEF Base
  <2>1. CASE Next
    BY <2>1, ListingsStep, UncancelledStep, DoneStep, FlowStep, EndStep DEF CInv
  <2>2. CASE UNCHANGED vars
    <3>1. UNCHANGED <<inbox, peer, conn, taken, reader, content, pos, buffer, response, resume,
                      writer, writing, doneClosed, cancels, cancelled, wire>>
      BY <2>2 DEF vars, client, listing, sending, contexts, writerVars
    <3>2. ListingsOnly' /\ Uncancelled' /\ DoneNotLive'
      BY <3>1 DEF CInv, ListingsOnly, Uncancelled, DoneNotLive, Live, Msg, Ctx
    <3>3. Flow' = Flow
      BY <3>1 DEF Flow, Carried
    <3>4. FlowInv'
      BY <3>1, <3>3, QuietStep DEF CInv, Live, Unheard, InMiddle, Over
    <3>5. EndIsComplete'
      BY <3>1 DEF CInv, EndIsComplete, CompleteIn, Ended, Ctx, Msg, WantedTo, Wanted, ErrorsTo
    <3> QED
      BY <3>2, <3>4, <3>5 DEF CInv
  <2> QED
    BY <2>1, <2>2
<1>3. Init => OrderInv
  BY InitOrder
<1>4. Shape /\ Alone /\ OrderInv /\ [Next]_vars => OrderInv'
  <2>1. OrderInv /\ UNCHANGED vars => OrderInv'
    BY DEF OrderInv, AnswersInOrder, Handed, Before, vars, client, listing, sending,
           contexts, writerVars
  <2> QED
    BY <2>1, OrderStep
<1>5. CInv => EndIsComplete
  BY DEF CInv
<1> QED
  BY <1>1, <1>2, <1>3, <1>4, <1>5, ShapeCorrect, AloneCorrect, PTL DEF Spec

-----------------------------------------------------------------------------
(* Nothing waits for ever, and nothing goes on for ever: what              *)
(* GoroutinesEnd and RequestsAnswered rest on besides fairness.            *)

Idle ==
  /\ reader = "read" /\ writer = "range"
  /\ inbox = <<>> /\ peer = "up" /\ conn = "open"
BothEnded == reader = "ended" /\ writer = "ended"

(* Where some goroutine can go on: the guards of ReaderStep, WriterStep    *)
(* and HandOver.                                                           *)
CanGoOn ==
  \/ reader \in {"check", "store", "dispatch", "range", "call", "delete", "start", "list",
                 "end", "finish"}
  \/ reader = "read" /\ (peer = "gone" \/ conn = "closed" \/ inbox # <<>>)
  \/ reader = "send" /\ (writer = "range" \/ doneClosed)
  \/ writer \in {"write", "stop", "closing", "sweeping", "sweep", "call", "delete"}
  \/ writer = "range" /\ reader = "ended"

NeverStuck == Idle \/ BothEnded \/ CanGoOn

(* How many messages were read, and how far the last one has got; and      *)
(* whether the writer goes through the map.                                *)
Begun == CASE reader \in {"store", "dispatch"} -> 0
           [] reader \in {"range", "start"} -> 1
           [] OTHER -> 2
Swept == IF writer \in Sweeping THEN 1 ELSE 0
LastStage == 3 * MaxMessages + 3
Stage == 3 * Len(taken) + Begun + Swept

(* How much each goroutine has ahead of it from where it is. *)
Ahead(place) ==
  CASE place = "store" -> 1
    [] place = "range" -> 2 + Cardinality(keys)
    [] place = "start" -> 1
    [] place = "list" -> 16 + 4 * (Len(content) - pos)
    [] place = "end" -> 12
    [] place = "finish" -> 8
    [] place = "call" -> 6
    [] place = "delete" -> 5
    [] place = "check" -> 4
    [] place = "read" -> 2
    [] OTHER -> 0
Reading == IF reader = "send" THEN 3 + Ahead(resume) ELSE Ahead(reader)
Writing ==
  CASE writer = "write" -> 5
    [] writer = "range" -> 4
    [] writer = "stop" -> 3
    [] writer = "closing" -> 2
    [] writer = "sweeping" -> 1
    [] writer = "sweep" -> 1 + 3 * Cardinality(sweepKeys)
    [] writer = "call" -> 3 + 3 * Cardinality(sweepKeys)
    [] writer = "delete" -> 2 + 3 * Cardinality(sweepKeys)
    [] OTHER -> 0
Sending == MaxMessages - (Len(taken) + Len(inbox)) + (IF peer = "up" THEN 1 ELSE 0)
Work == Reading + Writing + Sending

Measured == Stage \in 0..LastStage /\ Work \in Nat
NearerToEnd == Stage' > Stage \/ (Stage' = Stage /\ Work' < Work)

(* What the writer has closed by the time it is closing. *)
Closed ==
  /\ writer \in {"closing", "sweeping"} \cup Sweeping => doneClosed
  /\ writer \in {"sweeping"} \cup Sweeping => conn = "closed"

LEMMA ClosedStep == Closed /\ [Next]_vars => Closed'
<1> SUFFICES ASSUME Closed, [Next]_vars PROVE Closed'
  OBVIOUS
<1>1. CASE UNCHANGED writerVars
  BY <1>1 DEF Closed, writerVars
<1>2. CASE HandOver \/ Write \/ WriteError \/ ChannelClosed \/ CloseDone \/ CloseConn
  BY <1>2 DEF Closed, HandOver, Write, WriteError, ChannelClosed, CloseDone, CloseConn, Sweeping
<1>3. CASE Sweep \/ SweepVisit \/ SweepCall \/ SweepDelete \/ SweepOver
  <2>1. UNCHANGED <<doneClosed, conn>> /\ writer \in {"sweeping", "sweep", "call", "delete"}
    BY <1>3 DEF Sweep, SweepVisit, SweepCall, SweepDelete, SweepOver
  <2> QED
    BY <2>1 DEF Closed, Sweeping
<1>4. UNCHANGED writerVars \/ HandOver \/ WriterStep
  BY DEF Next, vars, ClientSend, ClientGone, Check, ReadError, Read, Store, Close, Cancel,
         LoadOwn, Call, Delete, CancelPrevious, Visit, RangeOver, Start, RefuseRewind, NextItem,
         ListingOver, RequestEnd, Finish, SendDropped, WriterStep
<1> QED
  BY <1>1, <1>2, <1>3, <1>4 DEF WriterStep

(* Unless the server waits for the client, or both goroutines have ended,  *)
(* one of them can go on: a reader that sends and a writer that has        *)
(* stopped, or a reader that has ended and a writer that waits, never      *)
(* leave each other waiting (the select of sendWSResponse, ws_objects.go:  *)
(* 51, and the deferred calls of both goroutines).                         *)
THEOREM NoOneStuck == Spec => []NeverStuck
<1>1. Init => Closed
  BY DEF Init, Closed, Sweeping
<1>2. Shape /\ Closed => NeverStuck
  <2> SUFFICES ASSUME Shape, Closed, ~ CanGoOn, ~ BothEnded PROVE Idle
    BY DEF NeverStuck
  <2>1. writer \in {"range", "ended"} /\ reader \in {"read", "send", "ended"}
    BY DEF Shape, TypeOK, CanGoOn
  <2>2. reader = "read"
    BY <2>1 DEF CanGoOn, Closed, Sweeping, BothEnded
  <2>3. peer = "up" /\ conn = "open" /\ inbox = <<>>
    BY <2>2 DEF Shape, TypeOK, CanGoOn
  <2> QED
    BY <2>1, <2>2, <2>3 DEF Closed, Sweeping, Idle
<1> QED
  BY <1>1, <1>2, ClosedStep, ShapeCorrect, PTL DEF Spec

LEMMA WorkType ==
  ASSUME TypeOK
  PROVE  /\ Measured /\ Reading \in Nat /\ Writing \in Nat
         /\ Len(taken) \in Nat /\ Len(inbox) \in Nat
         /\ Sending \in Nat
         /\ Len(content) \in Nat /\ pos \in Nat /\ Len(content) - pos \in Nat
         /\ \A place : Ahead(place) \in Nat
         /\ Cardinality(keys) \in Nat /\ Cardinality(sweepKeys) \in Nat
<1>1. /\ Len(taken) \in Nat /\ Len(inbox) \in Nat /\ MaxMessages \in Nat
      /\ Len(taken) <= MaxMessages
  BY Elements, SocketAssumption, LenProperties DEF TypeOK
<1>2. Sending \in Nat
  BY <1>1 DEF TypeOK, Sending
<1>3. Len(content) \in Nat
  BY SocketAssumption, LenProperties DEF TypeOK
<1>4. pos \in Nat /\ Len(content) - pos \in Nat
  BY <1>3 DEF TypeOK
<1>5. Cardinality(keys) \in Nat /\ Cardinality(sweepKeys) \in Nat
  BY FS_CardinalityType DEF TypeOK
<1>6. \A place : Ahead(place) \in Nat
  BY <1>3, <1>4, <1>5 DEF Ahead
<1>7. Reading \in Nat /\ Writing \in Nat
  BY <1>5, <1>6 DEF Reading, Writing
<1>8. Work \in Nat
  BY <1>2, <1>7 DEF Work
<1>9. Stage \in 0..LastStage
  <2>1. Begun \in 0..2 /\ Swept \in 0..1
    BY DEF Begun, Swept
  <2> QED
    BY <1>1, <2>1 DEF Stage, LastStage
<1> QED
  BY <1>1, <1>2, <1>3, <1>4, <1>5, <1>6, <1>7, <1>8, <1>9 DEF Measured

(* Less for the reader and the writer together is less work in all. *)
LEMMA LessWork ==
  ASSUME TypeOK, Reading' \in Nat, Writing' \in Nat, Reading' + Writing' < Reading + Writing,
         Sending' = Sending, Stage' = Stage
  PROVE  NearerToEnd
<1>1. \A a, b, c, d, e \in Nat : a + b < c + d => a + b + e < c + d + e
  OBVIOUS
<1>2. Reading \in Nat /\ Writing \in Nat /\ Sending \in Nat
  BY WorkType
<1>3. Reading' + Writing' + Sending < Reading + Writing + Sending
  BY <1>1, <1>2
<1>4. Work' = Reading' + Writing' + Sending /\ Work = Reading + Writing + Sending
  BY DEF Work
<1> QED
  BY <1>3, <1>4 DEF NearerToEnd

(* The client sends, or goes away. *)
LEMMA ClientNearer ==
  ASSUME TypeOK, \/ \E mode \in Modes, rid \in RequestIDs : ClientSend(mode, rid)
                 \/ ClientGone
  PROVE  NearerToEnd
<1>n. Reading \in Nat /\ Writing \in Nat /\ Sending \in Nat
  BY WorkType
<1>1. UNCHANGED <<taken, reader, content, pos, resume, keys, writer, sweepKeys>>
  BY DEF ClientSend, ClientGone, listing, sending, ranging, writerVars, sweep
<1>2. Reading' = Reading /\ Writing' = Writing /\ Stage' = Stage
  BY <1>1 DEF Reading, Writing, Stage, Begun, Swept, Ahead
<1>3. CASE \E mode \in Modes, rid \in RequestIDs : ClientSend(mode, rid)
  <2>1. Len(inbox') = Len(inbox) + 1 /\ peer' = peer
    BY <1>3, AppendProperties, Elements DEF ClientSend
  <2>2. Sending' = Sending - 1
    BY <1>1, <2>1, WorkType, SocketAssumption DEF Sending
  <2>3. Work' < Work
    BY <1>2, <2>2, <1>n DEF Work
  <2> QED
    BY <1>2, <2>3 DEF NearerToEnd
<1>4. CASE ClientGone
  <2>1. inbox' = inbox /\ peer = "up" /\ peer' = "gone"
    BY <1>4 DEF ClientGone
  <2>2. Sending' = Sending - 1
    BY <1>1, <2>1, WorkType, SocketAssumption DEF Sending
  <2>3. Work' < Work
    BY <1>2, <2>2, <1>n DEF Work
  <2> QED
    BY <1>2, <2>3 DEF NearerToEnd
<1> QED
  BY <1>3, <1>4

(* The reader goes on to another stage: it reads a message, goes through   *)
(* the map for it, or has got as far as to answer it, or not to.           *)
LEMMA StageNearer ==
  ASSUME TypeOK, \/ Read \/ Close \/ Cancel \/ CancelPrevious
                 \/ Start \/ RefuseRewind
  PROVE  NearerToEnd
<1>1. Begun \in 0..2 /\ Swept \in 0..1 /\ Begun' \in 0..2 /\ Len(taken) \in Nat
  BY WorkType DEF Begun, Swept
<1>2. Swept' = Swept
  BY DEF Read, Close, Cancel, LoadOwn, CancelPrevious, Start, RefuseRewind, Swept, writerVars
<1>3. CASE Read
  <2>1. Len(taken') = Len(taken) + 1
    BY <1>3, AppendProperties, Elements, HeadTailProperties DEF Read
  <2>2. Begun = 2 /\ reader' \in {"store", "check"}
    BY <1>3 DEF Read, Begun
  <2>3. CASE reader' = "store"
    <3>1. Begun' = 0
      BY <2>3 DEF Begun
    <3> QED
      BY <1>1, <1>2, <2>1, <2>2, <3>1 DEF Stage, NearerToEnd
  <2>4. CASE reader' = "check"
    <3>1. Begun' = 2
      BY <2>4 DEF Begun
    <3> QED
      BY <1>1, <1>2, <2>1, <2>2, <3>1 DEF Stage, NearerToEnd
  <2> QED
    BY <2>2, <2>3, <2>4
<1>4. CASE Close \/ Cancel \/ CancelPrevious \/ Start \/ RefuseRewind
  <2>1. /\ taken' = taken
        /\ \/ reader = "dispatch" /\ reader' \in {"ended", "check", "call", "range"}
           \/ reader = "start" /\ reader' \in {"list", "send"}
    BY <1>4 DEF Close, Cancel, LoadOwn, CancelPrevious, Start, RefuseRewind, Send
  <2>2. Begun' > Begun
    BY <2>1 DEF Begun
  <2> QED
    BY <1>1, <1>2, <2>1, <2>2 DEF Stage, NearerToEnd
<1> QED
  BY <1>3, <1>4

(* Any other step of the reader leaves less ahead of it; a Range visits    *)
(* one key less, as it finds nothing to cancel.                            *)
LEMMA ReaderNearer ==
  ASSUME Shape, Alone,
         \/ Check \/ ReadError \/ Store \/ Call \/ Delete \/ Visit \/ RangeOver
         \/ NextItem \/ ListingOver \/ RequestEnd \/ Finish \/ SendDropped
  PROVE  NearerToEnd
<1>a. TypeOK /\ (reader = "send" => resume \in {"list", "end", "finish", "ended"})
  BY DEF Shape, Placement
<1>b. UNCHANGED <<inbox, peer, taken, content, writer, sweepKeys>>
  BY DEF Check, ReadError, Store, Call, Delete, Visit, RangeOver, NextItem, ListingOver,
         RequestEnd, Finish, LoadOwn, SendDropped, client, listing, writerVars, sweep
<1>1. ASSUME Begun' = Begun, Reading' \in Nat, Reading' < Reading
     PROVE  NearerToEnd
  <2>1. Writing' = Writing /\ Stage' = Stage /\ Sending' = Sending
    BY <1>b, <1>1 DEF Writing, Stage, Swept, Sending
  <2>2. Reading \in Nat /\ Writing \in Nat
    BY <1>a, WorkType
  <2>3. Reading' + Writing' < Reading + Writing
    <3>1. \A a, b, c \in Nat : a < b => a + c < b + c
      OBVIOUS
    <3>2. Reading' + Writing < Reading + Writing
      BY <1>1, <2>2, <3>1
    <3> QED
      BY <2>1, <3>2
  <2> QED
    BY <1>a, <1>1, <2>1, <2>2, <2>3, LessWork
<1>2. CASE Check \/ ReadError \/ Store \/ Call \/ Delete \/ RequestEnd \/ Finish
  <2>1. \/ reader = "check" /\ reader' \in {"read", "ended"}
        \/ reader = "read" /\ reader' = "ended"
        \/ reader = "store" /\ reader' = "dispatch"
        \/ reader = "call" /\ reader' = "delete"
        \/ reader = "delete" /\ reader' = "check"
        \/ reader = "end" /\ reader' = "send" /\ resume' = "finish"
        \/ reader = "finish" /\ reader' \in {"check", "call"}
    BY <1>2 DEF Check, ReadError, Store, Call, Delete, RequestEnd, Finish, LoadOwn, Send, Alone
  <2>2. Begun' = Begun
    BY <2>1 DEF Begun
  <2>3. Reading' \in Nat /\ Reading' < Reading
    BY <2>1 DEF Reading, Ahead
  <2> QED
    BY <1>1, <2>2, <2>3
<1>3. CASE Visit
  <2>1. PICK r \in keys :
          /\ keys' = keys \ {r} /\ reader = "range"
          /\ cancels[r] # 0 \/ reader' = reader
    BY <1>3 DEF Visit
  <2>2. r \in RequestIDs /\ r < Msg.rid /\ Msg.rid \in RequestIDs /\ IsFiniteSet(keys)
    BY <2>1, CurrentMessage DEF Shape, TypeOK, Alone, Busy
  <2>3. cancels[r] = 0
    <3>1. cancels[r] # 0 => r = Msg.rid
      BY <2>2 DEF Alone, Func, Own
    <3> QED
      BY <2>2, <3>1, SocketAssumption
  <2>4. Cardinality(keys') = Cardinality(keys) - 1 /\ Cardinality(keys) \in Nat
    BY <2>1, <2>2, FS_RemoveElement, FS_CardinalityType
  <2>5. Cardinality(keys') \in Nat
    BY <2>1, <2>2, FS_RemoveElement, FS_CardinalityType
  <2>6. Reading = 2 + Cardinality(keys) /\ Reading' = 2 + Cardinality(keys')
    BY <2>1, <2>3 DEF Reading, Ahead
  <2>7. Begun' = Begun
    BY <2>1, <2>3 DEF Begun
  <2>8. Reading' \in Nat /\ Reading' < Reading
    BY <2>4, <2>5, <2>6
  <2> QED
    BY <1>1, <2>7, <2>8
<1>4. CASE RangeOver
  <2>1. reader = "range" /\ reader' = "start" /\ keys = {}
    BY <1>4 DEF RangeOver
  <2>2. Reading = 2 /\ Reading' = 1
    BY <2>1, FS_EmptySet DEF Reading, Ahead
  <2>3. Begun' = Begun
    BY <2>1 DEF Begun
  <2> QED
    BY <1>1, <2>2, <2>3
<1>5. CASE NextItem
  <2>1. /\ reader = "list" /\ pos' = pos + 1 /\ pos < Len(content)
        /\ \/ reader' = "list"
           \/ reader' = "send" /\ resume' = "list"
    BY <1>5 DEF NextItem, Send
  <2>2. Reading = 16 + 4 * (Len(content) - pos)
    BY <2>1 DEF Reading, Ahead
  <2>3. \/ Reading' = 16 + 4 * (Len(content) - (pos + 1))
        \/ Reading' = 3 + (16 + 4 * (Len(content) - (pos + 1)))
    BY <1>b, <2>1 DEF Reading, Ahead
  <2>4. Reading' \in Nat /\ Reading' < Reading
    <3> DEFINE n == Len(content)
    <3>1. n \in Nat /\ pos \in Nat /\ pos < n
      BY <1>a, <2>1, WorkType
    <3> HIDE DEF n
    <3>2. \A k \in {16 + 4 * (n - (pos + 1)), 3 + (16 + 4 * (n - (pos + 1)))} :
            k \in Nat /\ k < 16 + 4 * (n - pos)
      BY <3>1
    <3> QED
      BY <2>2, <2>3, <3>2 DEF n
  <2>5. Begun' = Begun
    BY <2>1 DEF Begun
  <2> QED
    BY <1>1, <2>4, <2>5
<1>6. CASE ListingOver
  <2>1. /\ reader = "list"
        /\ \/ reader' = "end"
           \/ reader' = "send" /\ resume' = "end"
    BY <1>6 DEF ListingOver, Send
  <2>2. Reading = 16 + 4 * (Len(content) - pos) /\ Reading' \in {12, 15}
    BY <2>1 DEF Reading, Ahead
  <2>3. Reading' \in Nat /\ Reading' < Reading
    BY <1>a, <2>2, WorkType
  <2>4. Begun' = Begun
    BY <2>1 DEF Begun
  <2> QED
    BY <1>1, <2>3, <2>4
<1>7. CASE SendDropped
  <2>1. /\ reader = "send" /\ reader' = resume /\ UNCHANGED <<content, pos, resume>>
        /\ resume \in {"list", "end", "finish", "ended"}
    BY <1>a, <1>7 DEF SendDropped, listing, sending
  <2>2. Reading = 3 + Ahead(resume) /\ Reading' = Ahead(resume)
    BY <2>1 DEF Reading, Ahead
  <2>3. Reading' \in Nat /\ Reading' < Reading
    BY <1>a, <2>2, WorkType
  <2>4. Begun' = Begun
    BY <2>1 DEF Begun
  <2> QED
    BY <1>1, <2>3, <2>4
<1> QED
  BY <1>2, <1>3, <1>4, <1>5, <1>6, <1>7

(* A response handed over leaves the reader with less by more than the     *)
(* writer gets.                                                            *)
LEMMA HandOverNearer ==
  ASSUME Shape, HandOver
  PROVE  NearerToEnd
<1>1. /\ UNCHANGED <<inbox, peer, taken, content, pos, resume>>
      /\ reader = "send" /\ reader' = resume /\ writer = "range" /\ writer' = "write"
      /\ resume \in {"list", "end", "finish", "ended"}
  BY DEF HandOver, client, listing, sending, Shape, Placement
<1>2. /\ Reading = 3 + Ahead(resume) /\ Reading' = Ahead(resume)
      /\ Writing = 4 /\ Writing' = 5
  BY <1>1 DEF Reading, Writing, Ahead
<1>3. Stage' = Stage /\ Sending' = Sending
  BY <1>1 DEF Stage, Begun, Swept, Sweeping, Sending
<1>4. TypeOK /\ Ahead(resume) \in Nat
  BY WorkType DEF Shape
<1>5. Reading' + Writing' < Reading + Writing
  BY <1>2, <1>4
<1> QED
  BY <1>2, <1>3, <1>4, <1>5, LessWork

(* The writer writes, comes nearer to its own end, or has one key less to  *)
(* visit; when it begins its Range the stage is another.                   *)
LEMMA WriterNearer ==
  ASSUME TypeOK, WriterStep
  PROVE  NearerToEnd
<1>a. UNCHANGED <<inbox, peer, taken, reader, content, pos, resume, keys>>
  BY DEF WriterStep, Write, WriteError, ChannelClosed, CloseDone, CloseConn, Sweep, SweepVisit,
         SweepCall, SweepDelete, SweepOver, client, readerVars, listing, sending, ranging
<1>b. /\ Reading \in Nat /\ Writing \in Nat /\ Cardinality(sweepKeys) \in Nat
      /\ IsFiniteSet(sweepKeys) /\ Stage \in Nat
  BY WorkType, SocketAssumption DEF TypeOK, Measured, LastStage
<1>c. ASSUME Swept' = Swept, Writing' < Writing, Writing' \in Nat PROVE NearerToEnd
  <2>1. Reading' = Reading /\ Stage' = Stage /\ Sending' = Sending
    BY <1>a, <1>c DEF Reading, Stage, Begun, Ahead, Sending
  <2>2. Reading' + Writing' < Reading + Writing
    <3>1. \A a, b, c \in Nat : a < b => c + a < c + b
      OBVIOUS
    <3>2. Reading + Writing' < Reading + Writing
      BY <1>b, <1>c, <3>1
    <3> QED
      BY <2>1, <3>2
  <2> QED
    BY <1>b, <1>c, <2>1, <2>2, LessWork
<1>1. CASE Write \/ WriteError \/ ChannelClosed \/ CloseDone \/ CloseConn
  <2>1. \/ writer = "write" /\ writer' \in {"range", "stop"}
        \/ writer = "range" /\ writer' = "stop"
        \/ writer = "stop" /\ writer' = "closing"
        \/ writer = "closing" /\ writer' = "sweeping"
    BY <1>1 DEF Write, WriteError, ChannelClosed, CloseDone, CloseConn
  <2>2. Writing' < Writing /\ Writing' \in Nat
    BY <2>1 DEF Writing
  <2>3. Swept' = Swept
    BY <2>1 DEF Swept, Sweeping
  <2> QED
    BY <1>c, <2>2, <2>3
<1>2. CASE Sweep
  <2>1. Swept = 0 /\ Swept' = 1
    BY <1>2 DEF Sweep, Swept, Sweeping
  <2>2. Begun' = Begun /\ Begun \in 0..2 /\ Len(taken') = Len(taken) /\ Len(taken) \in Nat
    BY <1>a, WorkType DEF Begun
  <2> QED
    BY <2>1, <2>2 DEF Stage, NearerToEnd
<1>3. CASE SweepVisit
  <2>1. PICK r \in sweepKeys : /\ sweepKeys' = sweepKeys \ {r}
                               /\ writer = "sweep" /\ writer' \in {"sweep", "call"}
    BY <1>3 DEF SweepVisit
  <2> DEFINE n == Cardinality(sweepKeys)
  <2>2. Cardinality(sweepKeys') = n - 1 /\ n \in Nat /\ n - 1 \in Nat
    <3>1. IsFiniteSet(sweepKeys') /\ Cardinality(sweepKeys') = n - 1
      BY <1>b, <2>1, FS_RemoveElement
    <3> QED
      BY <1>b, <3>1, FS_CardinalityType
  <2>3. Writing = 1 + 3 * n /\ Writing' \in {1 + 3 * (n - 1), 3 + 3 * (n - 1)}
    BY <2>1, <2>2 DEF Writing
  <2> HIDE DEF n
  <2>4. Writing' < Writing /\ Writing' \in Nat
    BY <2>2, <2>3
  <2>5. Swept' = Swept
    BY <2>1 DEF Swept, Sweeping
  <2> QED
    BY <1>c, <2>4, <2>5
<1>4. CASE SweepCall \/ SweepDelete \/ SweepOver
  <2>1. /\ sweepKeys' = sweepKeys
        /\ \/ writer = "call" /\ writer' = "delete"
           \/ writer = "delete" /\ writer' = "sweep"
           \/ writer = "sweep" /\ writer' = "ended"
    BY <1>4 DEF SweepCall, SweepDelete, SweepOver, sweep
  <2>2. Writing' < Writing /\ Writing' \in Nat
    BY <1>b, <2>1 DEF Writing
  <2>3. Swept' = Swept
    BY <2>1 DEF Swept, Sweeping
  <2> QED
    BY <1>c, <2>2, <2>3
<1> QED
  BY <1>1, <1>2, <1>3, <1>4 DEF WriterStep

(* Every step, the client's included, brings the connection nearer to      *)
(* where it waits or ends: another message is read or begun to be          *)
(* answered, or the writer begins its Range, which happens LastStage times *)
(* at most; or the natural number Work decreases.  So the listing of a     *)
(* request is over after as many steps as it has entries, a Range after as *)
(* many as it has keys, and what is sent while the writer stops is not     *)
(* tried again.                                                            *)
THEOREM AlwaysNearer == Spec => []Measured /\ [][NearerToEnd]_vars
<1>1. Shape => Measured
  BY WorkType DEF Shape
<1>2. Shape /\ Alone /\ [Next]_vars => [NearerToEnd]_vars
  BY ClientNearer, StageNearer, ReaderNearer, HandOverNearer, WriterNearer
     DEF Shape, Next, WriterStep
<1> QED
  BY <1>1, <1>2, ShapeCorrect, AloneCorrect, PTL DEF Spec
=============================================================================
