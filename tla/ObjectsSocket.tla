---------------------------- MODULE ObjectsSocket ----------------------------
(***************************************************************************)
(* The server's end of an object browser's websocket (objectManager): one  *)
(* goroutine reads the client's messages and lists objects, the other      *)
(* writes what the first hands over through an unbuffered channel.  They   *)
(* stop each other by closing channels and the connection.                 *)
(*                                                                         *)
(* Messages are numbered in the order in which they are read; a number     *)
(* also stands for the context (and the cancel function) made for the      *)
(* message.  An object listed is its position in the listing.              *)
(***************************************************************************)
EXTENDS Integers, Sequences, FiniteSets, Functions

CONSTANTS MaxMessages,   \* bound: messages the client sends
          RequestIDs,    \* request_id values, integers
          ItemsPerBatch, \* itemsPerBatch
          Contents       \* what a listing may find: sequences of Items

Items == {"object", "self", "error"}   \* "self": the key is the prefix asked for
Listings == {"objects", "rewind"}
Modes == Listings \cup {"cancel", "close", "junk"}

ASSUME SocketAssumption == /\ MaxMessages \in Nat
                           /\ RequestIDs \subseteq Int
                           /\ ItemsPerBatch \in Nat \ {0}
                           /\ Contents \subseteq Seq(Items)

VARIABLES
  inbox,      \* messages sent and not read yet
  peer,       \* "up", or "gone": the client or the network broke the connection
  conn,       \* the server's end: "open" or "closed"
  taken,      \* the messages read, in order
  reader,     \* where the reading goroutine is
  content, pos, buffer,   \* of the listing it runs
  response, resume,       \* what it sends, and where it goes on afterwards
  keys, loaded,           \* of its Range over cancelContexts: the keys to visit;
                          \* the cancel function it took from the map to call
  writer,     \* where the writing goroutine is
  writing,    \* the response it writes
  doneClosed, \* close(done) was called
  sweepKeys, sweepLoaded, \* of its Range, as keys and loaded
  cancels,    \* cancelContexts: the context stored under each request id, 0 if none
  cancelled,  \* the contexts that are cancelled
  wire        \* the responses written, in order

client == <<inbox, peer>>
listing == <<content, pos, buffer>>
sending == <<response, resume>>
ranging == <<keys, loaded>>
sweep == <<sweepKeys, sweepLoaded>>
contexts == <<cancels, cancelled>>
writerVars == <<writer, writing, doneClosed, conn, wire, sweep>>
vars == <<client, taken, reader, listing, sending, ranging, contexts, writerVars>>

NoResponse == [ctx |-> 0, kind |-> "none", data |-> <<>>]
NoFunc == [key |-> 0, ctx |-> 0]
Ctx == Len(taken)              \* of the message being handled
Msg == taken[Ctx]
Text(m) == m.mode # "junk"

Init ==
  /\ inbox = <<>> /\ peer = "up" /\ conn = "open" /\ taken = <<>>
  /\ reader = "check"
  /\ content = <<>> /\ pos = 0 /\ buffer = <<>>
  /\ response = NoResponse /\ resume = "check"
  /\ keys = {} /\ loaded = NoFunc /\ sweepKeys = {} /\ sweepLoaded = NoFunc
  /\ writer = "range" /\ writing = NoResponse /\ doneClosed = FALSE
  /\ cancels = [r \in RequestIDs |-> 0] /\ cancelled = {}
  /\ wire = <<>>

-----------------------------------------------------------------------------
(* The client and the network.                                             *)

ClientSend(mode, rid) ==
  /\ peer = "up" /\ conn = "open"
  /\ Len(taken) + Len(inbox) < MaxMessages
  /\ inbox' = Append(inbox, [mode |-> mode, rid |-> rid])
  /\ UNCHANGED <<peer, taken, reader, listing, sending, ranging, contexts, writerVars>>

ClientGone ==
  /\ peer = "up"
  /\ peer' = "gone"
  /\ UNCHANGED <<inbox, taken, reader, listing, sending, ranging, contexts, writerVars>>

-----------------------------------------------------------------------------
(* The reading goroutine.  "ended": it returned and closed writeChannel.   *)

Check ==
  /\ reader = "check"
  /\ reader' = IF doneClosed THEN "ended" ELSE "read"
  /\ UNCHANGED <<client, taken, listing, sending, ranging, contexts, writerVars>>

ReadError ==
  /\ reader = "read"
  /\ peer = "gone" \/ conn = "closed"
  /\ reader' = "ended"
  /\ UNCHANGED <<client, taken, listing, sending, ranging, contexts, writerVars>>

(* A message that is not text or not parsed is dropped. *)
Read ==
  /\ reader = "read"
  /\ conn = "open" /\ inbox # <<>>
  /\ inbox' = Tail(inbox)
  /\ taken' = Append(taken, Head(inbox))
  /\ reader' = IF Text(Head(inbox)) THEN "store" ELSE "check"
  /\ UNCHANGED <<peer, listing, sending, ranging, contexts, writerVars>>

(* Whatever the message asks for, its own cancel function is stored, over  *)
(* the one its request id had.                                             *)
Store ==
  /\ reader = "store"
  /\ cancels' = [cancels EXCEPT ![Msg.rid] = Ctx]
  /\ reader' = "dispatch"
  /\ UNCHANGED <<client, taken, listing, sending, ranging, cancelled, writerVars>>

Close ==
  /\ reader = "dispatch" /\ Msg.mode = "close"
  /\ reader' = "ended"
  /\ UNCHANGED <<client, taken, listing, sending, ranging, contexts, writerVars>>

(* Range over the map, which the other goroutine may use meanwhile: a key  *)
(* that stays in it is visited, each key once at most and in any order;    *)
(* whether a key is that is stored or deleted meanwhile is open.           *)
Ranged(S) == {K \in SUBSET S : IsFiniteSet(K) /\ \A r \in S : cancels[r] # 0 => r \in K}
Func(r) == [key |-> r, ctx |-> cancels[r]]

(* Load of the message's own id; what is found is called, then deleted. *)
LoadOwn ==
  /\ IF cancels[Msg.rid] = 0
     THEN reader' = "check" /\ UNCHANGED <<loaded, resume>>
     ELSE loaded' = Func(Msg.rid) /\ reader' = "call" /\ resume' = "check"
  /\ UNCHANGED <<client, taken, listing, response, keys, contexts, writerVars>>

Cancel ==
  /\ reader = "dispatch" /\ Msg.mode = "cancel"
  /\ LoadOwn

Call ==
  /\ reader = "call"
  /\ cancelled' = cancelled \cup {loaded.ctx}
  /\ reader' = "delete"
  /\ UNCHANGED <<client, taken, listing, sending, ranging, cancels, writerVars>>

Delete ==
  /\ reader = "delete"
  /\ cancels' = [cancels EXCEPT ![loaded.key] = 0]
  /\ loaded' = NoFunc
  /\ reader' = resume
  /\ UNCHANGED <<client, taken, listing, sending, keys, cancelled, writerVars>>

(* A listing first cancels the ones with a smaller request id, one by one. *)
CancelPrevious ==
  /\ reader = "dispatch" /\ Msg.mode \in Listings
  /\ keys' \in Ranged({r \in RequestIDs : r < Msg.rid})
  /\ reader' = "range"
  /\ UNCHANGED <<client, taken, listing, sending, loaded, contexts, writerVars>>

Visit ==
  /\ reader = "range"
  /\ \E r \in keys :
       /\ keys' = keys \ {r}
       /\ IF cancels[r] = 0 THEN UNCHANGED <<reader, loaded, resume>>
          ELSE loaded' = Func(r) /\ reader' = "call" /\ resume' = "range"
  /\ UNCHANGED <<client, taken, listing, response, contexts, writerVars>>

RangeOver ==
  /\ reader = "range" /\ keys = {}
  /\ reader' = "start"
  /\ UNCHANGED <<client, taken, listing, sending, ranging, contexts, writerVars>>

(* sendWSResponse(r), going on at place "next". *)
Send(kind, data, next) ==
  /\ response' = [ctx |-> Ctx, kind |-> kind, data |-> data]
  /\ resume' = next
  /\ reader' = "send"

Start ==
  /\ reader = "start"
  /\ content' \in Contents
  /\ pos' = 0 /\ buffer' = <<>>
  /\ reader' = "list"
  /\ UNCHANGED <<client, taken, sending, ranging, contexts, writerVars>>

(* A rewind with a date that cannot be parsed, or no client for it, ends   *)
(* the session.                                                            *)
RefuseRewind ==
  /\ reader = "start" /\ Msg.mode = "rewind"
  /\ Send("error", <<>>, "ended")
  /\ UNCHANGED <<client, taken, listing, ranging, contexts, writerVars>>

(* Only a listing of objects skips the entry that is the prefix itself. *)
Skipped(item) == item = "self" /\ Msg.mode = "objects"

(* Mutant: a batch is sent when one item more has come. *)
NextItem_Late ==
  LET item == content[pos + 1]
      filled == IF Skipped(item) THEN buffer ELSE Append(buffer, pos + 1)
  IN
  /\ reader = "list"
  /\ pos < Len(content)
  /\ pos' = pos + 1
  /\ IF item = "error"
     THEN Send("error", <<>>, "list") /\ UNCHANGED buffer
     ELSE IF Len(filled) > ItemsPerBatch
     THEN Send("data", filled, "list") /\ buffer' = <<>>
     ELSE buffer' = filled /\ UNCHANGED <<reader, sending>>
  /\ UNCHANGED <<client, taken, content, ranging, contexts, writerVars>>

NextItem ==
  LET item == content[pos + 1]
      filled == IF Skipped(item) THEN buffer ELSE Append(buffer, pos + 1)
  IN
  /\ reader = "list"
  /\ pos < Len(content)
  /\ pos' = pos + 1
  /\ IF item = "error"
     THEN Send("error", <<>>, "list") /\ UNCHANGED buffer
     ELSE IF Len(filled) >= ItemsPerBatch
     THEN Send("data", filled, "list") /\ buffer' = <<>>
     ELSE buffer' = filled /\ UNCHANGED <<reader, sending>>
  /\ UNCHANGED <<client, taken, content, ranging, contexts, writerVars>>

(* Mutant: what is left in the buffer is not sent. *)
ListingOver_NoFlush ==
  /\ reader = "list"
  /\ pos = Len(content) \/ Ctx \in cancelled
  /\ reader' = "end"
  /\ UNCHANGED <<client, taken, listing, sending, ranging, contexts, writerVars>>

(* The listing is over, or ends early because its context is cancelled. *)
ListingOver ==
  /\ reader = "list"
  /\ pos = Len(content) \/ Ctx \in cancelled
  /\ IF buffer # <<>> THEN Send("data", buffer, "end")
     ELSE reader' = "end" /\ UNCHANGED sending
  /\ UNCHANGED <<client, taken, listing, ranging, contexts, writerVars>>

(* Mutant: an empty listing is not answered. *)
RequestEnd_IfListed ==
  /\ reader = "end"
  /\ IF content = <<>> THEN reader' = "finish" /\ UNCHANGED sending
     ELSE Send("end", <<>>, "finish")
  /\ UNCHANGED <<client, taken, listing, ranging, contexts, writerVars>>

(* Mutant: the end is sent again after it was sent. *)
RequestEnd_Again ==
  /\ reader = "end"
  /\ Send("end", <<>>, "end")
  /\ UNCHANGED <<client, taken, listing, ranging, contexts, writerVars>>

RequestEnd ==
  /\ reader = "end"
  /\ Send("end", <<>>, "finish")
  /\ UNCHANGED <<client, taken, listing, ranging, contexts, writerVars>>

Finish ==
  /\ reader = "finish"
  /\ LoadOwn

(* The two cases of sendWSResponse's select. *)
HandOver ==
  /\ reader = "send" /\ writer = "range"
  /\ reader' = resume
  /\ writer' = "write" /\ writing' = response
  /\ UNCHANGED <<client, taken, listing, sending, ranging, contexts, doneClosed, conn, wire, sweep>>

(* Mutant: a plain send, without the case for done. *)
SendDropped_Never == FALSE /\ UNCHANGED vars

SendDropped ==
  /\ reader = "send" /\ doneClosed
  /\ reader' = resume
  /\ UNCHANGED <<client, taken, listing, sending, ranging, contexts, writerVars>>

-----------------------------------------------------------------------------
(* The writing goroutine, and its deferred calls in the order they run.    *)

readerVars == <<taken, reader, listing, sending, ranging>>

(* What is written once the connection is broken is lost. *)
Write ==
  /\ writer = "write"
  /\ wire' = IF peer = "up" THEN Append(wire, writing) ELSE wire
  /\ writer' = "range"
  /\ UNCHANGED <<client, readerVars, contexts, sweep, writing, doneClosed, conn>>

WriteError ==
  /\ writer = "write" /\ peer = "gone"
  /\ writer' = "stop"
  /\ UNCHANGED <<client, readerVars, contexts, sweep, writing, doneClosed, conn, wire>>

ChannelClosed ==
  /\ writer = "range" /\ reader = "ended"
  /\ writer' = "stop"
  /\ UNCHANGED <<client, readerVars, contexts, sweep, writing, doneClosed, conn, wire>>

CloseDone ==
  /\ writer = "stop"
  /\ doneClosed' = TRUE
  /\ writer' = "closing"
  /\ UNCHANGED <<client, readerVars, contexts, sweep, writing, conn, wire>>

CloseConn ==
  /\ writer = "closing"
  /\ conn' = "closed"
  /\ writer' = "sweeping"
  /\ UNCHANGED <<client, readerVars, contexts, sweep, writing, doneClosed, wire>>

Sweep ==
  /\ writer = "sweeping"
  /\ sweepKeys' \in Ranged(RequestIDs)
  /\ writer' = "sweep"
  /\ UNCHANGED <<client, readerVars, contexts, sweepLoaded, writing, doneClosed, conn, wire>>

SweepVisit ==
  /\ writer = "sweep"
  /\ \E r \in sweepKeys :
       /\ sweepKeys' = sweepKeys \ {r}
       /\ IF cancels[r] = 0 THEN UNCHANGED <<writer, sweepLoaded>>
          ELSE sweepLoaded' = Func(r) /\ writer' = "call"
  /\ UNCHANGED <<client, readerVars, contexts, writing, doneClosed, conn, wire>>

(* Mutant: an entry is deleted without its function being called. *)
SweepCall_Not ==
  /\ writer = "call"
  /\ writer' = "delete"
  /\ UNCHANGED <<client, readerVars, contexts, sweep, writing, doneClosed, conn, wire>>

SweepCall ==
  /\ writer = "call"
  /\ cancelled' = cancelled \cup {sweepLoaded.ctx}
  /\ writer' = "delete"
  /\ UNCHANGED <<client, readerVars, cancels, sweep, writing, doneClosed, conn, wire>>

SweepDelete ==
  /\ writer = "delete"
  /\ cancels' = [cancels EXCEPT ![sweepLoaded.key] = 0]
  /\ sweepLoaded' = NoFunc
  /\ writer' = "sweep"
  /\ UNCHANGED <<client, readerVars, cancelled, sweepKeys, writing, doneClosed, conn, wire>>

SweepOver ==
  /\ writer = "sweep" /\ sweepKeys = {}
  /\ writer' = "ended"
  /\ UNCHANGED <<client, readerVars, contexts, sweep, writing, doneClosed, conn, wire>>

-----------------------------------------------------------------------------
ReaderStep ==
  \/ Check \/ ReadError \/ Read \/ Store \/ Close \/ Cancel \/ Call \/ Delete
  \/ CancelPrevious \/ Visit \/ RangeOver
  \/ Start \/ RefuseRewind \/ NextItem \/ ListingOver \/ RequestEnd \/ Finish
  \/ SendDropped
WriterStep ==
  \/ Write \/ WriteError \/ ChannelClosed \/ CloseDone \/ CloseConn
  \/ Sweep \/ SweepVisit \/ SweepCall \/ SweepDelete \/ SweepOver

Next ==
  \/ \E mode \in Modes, rid \in RequestIDs : ClientSend(mode, rid)
  \/ ClientGone
  \/ HandOver
  \/ Check \/ ReadError \/ Read \/ Store \/ Close \/ Cancel \/ Call \/ Delete
  \/ CancelPrevious \/ Visit \/ RangeOver
  \/ Start \/ RefuseRewind \/ NextItem \/ ListingOver \/ RequestEnd \/ Finish
  \/ SendDropped
  \/ Write \/ WriteError \/ ChannelClosed \/ CloseDone \/ CloseConn
  \/ Sweep \/ SweepVisit \/ SweepCall \/ SweepDelete \/ SweepOver

(* The Go scheduler runs both goroutines; nothing is assumed of the client. *)
Spec == Init /\ [][Next]_vars
FairSpec == Spec /\ WF_vars(ReaderStep) /\ WF_vars(WriterStep) /\ WF_vars(HandOver)

-----------------------------------------------------------------------------
(* Properties.                                                             *)

Responses == [ctx : 0..MaxMessages, kind : {"none", "data", "error", "end"},
              data : Seq(Nat)]

Funcs == [key : RequestIDs \cup {0}, ctx : 0..Len(taken)]

TypeOK ==
  /\ inbox \in Seq([mode : Modes, rid : RequestIDs])
  /\ taken \in Seq([mode : Modes, rid : RequestIDs])
  /\ Len(taken) + Len(inbox) <= MaxMessages
  /\ peer \in {"up", "gone"} /\ conn \in {"open", "closed"}
  /\ reader \in {"check", "read", "store", "dispatch", "range", "call", "delete", "start",
                 "list", "send", "end", "finish", "ended"}
  /\ content \in Contents \cup {<<>>} /\ pos \in 0..Len(content)
  /\ buffer \in Seq(Nat) /\ Len(buffer) < ItemsPerBatch
  /\ response \in Responses /\ resume \in {"check", "range", "list", "end", "finish", "ended"}
  /\ keys \subseteq RequestIDs /\ IsFiniteSet(keys) /\ loaded \in Funcs
  /\ writer \in {"range", "write", "stop", "closing", "sweeping", "sweep", "call", "delete",
                 "ended"}
  /\ sweepKeys \subseteq RequestIDs /\ IsFiniteSet(sweepKeys) /\ sweepLoaded \in Funcs
  /\ writing \in Responses
  /\ doneClosed \in BOOLEAN
  /\ cancels \in [RequestIDs -> 0..Len(taken)]
  /\ cancelled \subseteq 1..Len(taken)
  /\ wire \in Seq(Responses)

Ended(n) == \E k \in 1..Len(wire) : wire[k].ctx = n /\ wire[k].kind = "end"

(* The client receives the answers to its requests one request after the   *)
(* other: nothing of a request after its end, nor after another's answer.  *)
AnswersInOrder ==
  \A j, k \in 1..Len(wire) :
    j < k => \/ wire[j].ctx < wire[k].ctx
             \/ wire[j].ctx = wire[k].ctx /\ wire[j].kind # "end"

(* What a sequence of responses carries for message n. *)
Answers(s, n) == {j \in 1..Len(s) : s[j].ctx = n}
Positions(s, n) == UNION {Range(s[j].data) : j \in Answers(s, n)}
Errors(s, n) == {j \in Answers(s, n) : s[j].kind = "error"}
InOrder(s, n) ==
  \A i, j \in Answers(s, n) :
    \A x \in 1..Len(s[i].data), y \in 1..Len(s[j].data) :
      i < j \/ (i = j /\ x < y) => s[i].data[x] < s[j].data[y]

(* What the first p entries of the listing come to. *)
Wanted(k) == content[k] = "object" \/ (content[k] = "self" /\ Msg.mode = "rewind")
WantedTo(p) == {k \in 1..p : Wanted(k)}
ErrorsTo(p) == {k \in 1..p : content[k] = "error"}

(* When the end of a request reaches the client so have all its objects,   *)
(* each once, in the order of the listing, and an error for each one that  *)
(* the listing reported: no truncated listing is ever called complete,     *)
(* whoever cancels what.                                                   *)
CompleteIn(s) ==
  /\ Positions(s, Ctx) = WantedTo(Len(content))
  /\ InOrder(s, Ctx)
  /\ Cardinality(Errors(s, Ctx)) = Cardinality(ErrorsTo(Len(content)))
EndIsComplete == (Ctx > 0 /\ Ended(Ctx)) => CompleteIn(wire)

(* A context is open only while its message is handled; once the reader    *)
(* has ended only if the message that ended it was a close or a rewind     *)
(* that was refused; and once the writer has ended too only if the client  *)
(* is gone: then the reader may have stored it after the writer, stopped   *)
(* by a failing write, had looked for it.  No Range, Load or Delete of one *)
(* goroutine between two steps of the other leaves any more behind.        *)
ContextsReleased ==
  \A n \in 1..Len(taken) \ cancelled :
    \/ ~Text(taken[n])
    \/ n = Ctx /\ reader \notin {"check", "read", "ended"}
    \/ /\ n = Ctx /\ taken[n].mode \in {"close", "rewind"}
       /\ writer = "ended" => peer = "gone"

(* Once the connection is broken or closed both goroutines end: neither    *)
(* waits for the other for ever, wherever they were.                       *)
GoroutinesEnd ==
  (peer = "gone" \/ conn = "closed" \/ reader = "ended")
    ~> (reader = "ended" /\ writer = "ended")

(* Every listing that is read is answered to its end, by an end or by the  *)
(* end of the connection.                                                  *)
RequestsAnswered ==
  \A n \in 1..MaxMessages :
    (Len(taken) = n /\ Msg.mode \in Listings)
      ~> (Ended(n) \/ peer = "gone" \/ conn = "closed")

-----------------------------------------------------------------------------
(* What the code says of itself and does not do.                           *)

(* "if we have that request id, cancel it": a cancel message cancels the   *)
(* context of a listing.                                                   *)
CancelReachesListing ==
  [][Call /\ Msg.mode = "cancel" =>
       \A n \in cancelled' \ cancelled : taken[n].mode \in Listings]_vars
=============================================================================
