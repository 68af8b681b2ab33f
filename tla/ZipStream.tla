----------------------------- MODULE ZipStream -----------------------------
(* An archive made while it is sent: a goroutine fetches the selected      *)
(* objects one after the other into a zip writer whose buffer empties into *)
(* a pipe, and the handler copies the pipe to the client.  The pipe holds  *)
(* nothing: a write waits for the handler to take it, and fails once       *)
(* either end is closed.  The store is external: each call may fail, or    *)
(* not answer until the context of the request is done.                    *)
EXTENDS Sequences, Naturals, SequencesExt

CONSTANTS
  Selections,   \* what may be asked for: a sequence of [prefix, objects],
                \* where prefix is TRUE for a folder and objects are its own
  Pieces        \* of each object, how often its data fill the buffer

Objects == DOMAIN Pieces

ASSUME PiecesAssumption == Pieces \in [Objects -> Nat]
ASSUME SelectionsAssumption ==
  Selections \subseteq Seq([prefix : BOOLEAN, objects : Seq(Objects)])

VARIABLES
  asked,       \* [folder, items]: one folder, or a selection
  handler,     \* "listing" a folder, "refused", "copying", "returned"
  client,      \* "there" or "gone"
  producer,    \* the goroutine: "none", "loop", "read", "write", "finish", "close", "ended"
  items,       \* selected and not looked at
  objects,     \* of the item being added, those not added
  left,        \* of the object being added, writes to come
  entries,     \* objects wholly in the archive
  skipped,     \* objects that could not be opened
  writeEnd,    \* of the pipe: "open", "eof", "error"
  whole        \* the end of the archive, its directory, was copied

answer == <<handler, client, whole>>
vars == <<asked, answer, producer, items, objects, left, entries, skipped, writeEnd>>

ContextDone == client = "gone" \/ handler = "returned"

(* Mutant: the handler does not close its end.                             *)
PipeClosed_Undeferred == writeEnd # "open"

PipeClosed == writeEnd # "open" \/ handler = "returned"

(* A folder is listed before the goroutine starts, a selection by it.      *)
Init ==
  /\ asked \in [folder : BOOLEAN, items : Selections]
  /\ asked.folder => Len(asked.items) = 1 /\ asked.items[1].prefix
  /\ handler = IF asked.folder THEN "listing" ELSE "copying"
  /\ producer = IF asked.folder THEN "none" ELSE "loop"
  /\ client = "there" /\ whole = FALSE
  /\ items = asked.items /\ objects = <<>> /\ left = 0
  /\ entries = {} /\ skipped = {} /\ writeEnd = "open"

-----------------------------------------------------------------------------
(* The handler.                                                            *)

(* A folder that cannot be listed is answered with the error.              *)
ListFolder ==
  /\ handler = "listing"
  /\ \/ /\ handler' = "copying" /\ producer' = "loop"
        /\ objects' = Head(items).objects /\ items' = <<>>
     \/ handler' = "refused" /\ UNCHANGED <<producer, objects, items>>
  /\ UNCHANGED <<asked, client, whole, left, entries, skipped, writeEnd>>

(* The pipe ends, with EOF or with an error that is only logged; the       *)
(* reading end is closed.                                                  *)
CopyEnds ==
  /\ handler = "copying" /\ writeEnd # "open"
  /\ handler' = "returned"
  /\ UNCHANGED <<asked, client, whole, producer, items, objects, left, entries, skipped,
                 writeEnd>>

(* The handler takes a write; writing it on to a client that is gone may   *)
(* fail, and ends the copy.                                                *)
Taken ==
  /\ handler = "copying" /\ writeEnd = "open"
  /\ \/ UNCHANGED handler
     \/ client = "gone" /\ handler' = "returned"
  /\ UNCHANGED <<asked, client>>

ClientGoes ==
  /\ client = "there" /\ handler # "returned" /\ handler # "refused"
  /\ client' = "gone"
  /\ UNCHANGED <<asked, handler, whole, producer, items, objects, left, entries, skipped,
                 writeEnd>>

-----------------------------------------------------------------------------
(* The goroutine.                                                          *)

(* CloseWithError and Close: the first one counts.                         *)
CloseWith(end) == writeEnd' = IF writeEnd = "open" THEN end ELSE writeEnd

(* Mutant: the error of a listing is not reported.                         *)
ListObjects_Ignored ==
  \/ objects' = Head(items).objects /\ UNCHANGED writeEnd
  \/ Head(items).prefix /\ objects' = <<>> /\ UNCHANGED writeEnd

(* listBucketObjects: what it returns of a prefix, or its error.           *)
ListObjects ==
  \/ objects' = Head(items).objects /\ UNCHANGED writeEnd
  \/ Head(items).prefix /\ objects' = <<>> /\ CloseWith("error")

(* The next selected item; after a listing that failed the loop goes on.   *)
NextItem ==
  /\ producer = "loop" /\ objects = <<>> /\ items # <<>>
  /\ ListObjects
  /\ items' = Tail(items)
  /\ UNCHANGED <<asked, answer, producer, left, entries, skipped>>

(* An object that cannot be opened, and one whose header cannot be written *)
(* because the pipe is closed: both are ignored.                           *)
Skip ==
  /\ producer = "loop" /\ objects # <<>>
  /\ objects' = Tail(objects)
  /\ skipped' = skipped \cup {Head(objects)}
  /\ UNCHANGED <<asked, answer, producer, items, left, entries, writeEnd>>

HeaderFails ==
  /\ producer = "loop" /\ objects # <<>> /\ PipeClosed
  /\ objects' = Tail(objects)
  /\ UNCHANGED <<asked, answer, producer, items, left, entries, skipped, writeEnd>>

Open ==
  /\ producer = "loop" /\ objects # <<>>
  /\ producer' = "read" /\ left' = Pieces[Head(objects)]
  /\ UNCHANGED <<asked, answer, items, objects, entries, skipped, writeEnd>>

(* io.Copy into the archive: more data, or the end of the object.          *)
Read ==
  /\ producer = "read"
  /\ IF left > 0
     THEN producer' = "write" /\ UNCHANGED <<objects, entries>>
     ELSE /\ producer' = "loop"
          /\ entries' = entries \cup {Head(objects)} /\ objects' = Tail(objects)
  /\ UNCHANGED <<asked, answer, items, left, skipped, writeEnd>>

Write ==
  /\ producer = "write" /\ Taken
  /\ producer' = "read" /\ left' = left - 1
  /\ UNCHANGED <<whole, items, objects, entries, skipped, writeEnd>>

(* "We have a partial object, report error."                               *)
Fail ==
  /\ producer' = "finish" /\ CloseWith("error")
  /\ UNCHANGED <<asked, answer, items, objects, left, entries, skipped>>

ReadFails == producer = "read" /\ Fail
WriteFails == producer = "write" /\ PipeClosed /\ Fail

Finished ==
  /\ producer = "loop" /\ objects = <<>> /\ items = <<>>
  /\ producer' = "finish"
  /\ UNCHANGED <<asked, answer, items, objects, left, entries, skipped, writeEnd>>

(* Deferred: zipw.Close writes the directory, pw.Close ends the pipe.      *)
CloseZip ==
  /\ producer = "finish"
  /\ \/ Taken /\ whole' = TRUE
     \/ PipeClosed /\ UNCHANGED <<asked, answer>>
  /\ producer' = "close"
  /\ UNCHANGED <<items, objects, left, entries, skipped, writeEnd>>

ClosePipe ==
  /\ producer = "close"
  /\ producer' = "ended" /\ CloseWith("eof")
  /\ UNCHANGED <<asked, answer, items, objects, left, entries, skipped>>

-----------------------------------------------------------------------------
Next ==
  \/ ListFolder \/ CopyEnds \/ ClientGoes
  \/ NextItem \/ Skip \/ HeaderFails \/ Open \/ Read \/ Write \/ ReadFails \/ WriteFails
  \/ Finished \/ CloseZip \/ ClosePipe

(* The store is called with the context of the request: when it is done, a *)
(* call ends.  Before that nothing is assumed of the store, nor of a       *)
(* client that is there but does not read.                                 *)
StoreEnds == ContextDone /\ (ListFolder \/ NextItem \/ Skip \/ ReadFails)

PipeGoes == ContextDone /\ (Write \/ CloseZip)
ThreadsGo == CopyEnds \/ WriteFails \/ Finished \/ ClosePipe

Fairness == WF_vars(StoreEnds) /\ WF_vars(PipeGoes) /\ WF_vars(ThreadsGo)

Spec == Init /\ [][Next]_vars
FairSpec == Spec /\ Fairness

-----------------------------------------------------------------------------
(* Properties.                                                             *)

ZipTypeOK ==
  /\ asked \in [folder : BOOLEAN, items : Selections]
  /\ handler \in {"listing", "refused", "copying", "returned"}
  /\ client \in {"there", "gone"} /\ whole \in BOOLEAN
  /\ producer \in {"none", "loop", "read", "write", "finish", "close", "ended"}
  /\ items \in Seq([prefix : BOOLEAN, objects : Seq(Objects)])
  /\ objects \in Seq(Objects) /\ left \in Nat
  /\ producer \in {"read", "write"} => objects # <<>>
  /\ producer = "write" => left > 0
  /\ entries \subseteq Objects /\ skipped \subseteq Objects
  /\ writeEnd \in {"open", "eof", "error"}

Asked == UNION {ToSet(asked.items[k].objects) : k \in 1..Len(asked.items)}

(* An archive that can be opened is not missing what broke off: whatever   *)
(* fails in the middle, the listing of one folder of several too, the      *)
(* directory is sent only when every object is in or could not be opened.  *)
WholeHasAll == whole => Asked \subseteq entries \cup skipped

(* The goroutine ends with the answer, wherever it was when the client     *)
(* left: in a call to the store, or in a write nobody takes.               *)
ProducerEnds == client = "gone" ~> handler = "refused" \/ producer = "ended"

(* "Handle incomplete write in client": an answer that ends in the normal  *)
(* way for a client that is there carries the whole archive.               *)
NormalEndIsWhole == handler = "returned" /\ client = "there" => whole
=============================================================================
