--------------------------- MODULE StreamsProofs ---------------------------
(* Safety of ZipStream for every selection and sizes of objects, of        *)
(* Download for every width of integers, of UploadForm for every form, and *)
(* of ErasureSets for every number and length of arguments.                *)
EXTENDS ObjectStreams, SequenceTheorems, WellFoundedInduction, TLAPS

Items == Seq([prefix : BOOLEAN, objects : Seq(Objects)])

(* The objects of a sequence of items.                                     *)
Of(its) == UNION {ToSet(its[k].objects) : k \in 1..Len(its)}

PipeOpen == writeEnd = "open" /\ handler \in {"listing", "copying"}

(* While the pipe is open, what was asked for is in, was skipped, or is    *)
(* still to come; and once the directory is out nothing is to come.        *)
Covered ==
  PipeOpen \/ whole => Asked \subseteq entries \cup skipped \cup ToSet(objects) \cup Of(items)

NothingLeft ==
  whole \/ (producer = "finish" /\ writeEnd = "open") => objects = <<>> /\ items = <<>>

Stages ==
  /\ handler = "listing" => producer = "none" /\ Len(items) = 1 /\ objects = <<>>
  /\ whole => producer \in {"close", "ended"}

IInv == ZipTypeOK /\ Covered /\ NothingLeft /\ Stages

-----------------------------------------------------------------------------
(* A sequence holds its head and what its tail holds.                      *)
LEMMA HeadOrTail ==
  ASSUME NEW S, NEW q \in Seq(S), q # <<>>
  PROVE  ToSet(q) = {Head(q)} \cup ToSet(Tail(q))
<1>1. /\ Tail(q) \in Seq(S) /\ Len(Tail(q)) = Len(q) - 1 /\ Head(q) = q[1]
      /\ Len(q) \in Nat \ {0}
      /\ \A i \in 1..Len(Tail(q)) : Tail(q)[i] = q[i + 1]
  BY HeadTailProperties, LenProperties, EmptySeq
<1>2. ToSet(q) = {q[i] : i \in 1..Len(q)} /\ ToSet(Tail(q)) = {Tail(q)[i] : i \in 1..Len(Tail(q))}
  BY <1>1, LenProperties DEF ToSet
<1>3. ASSUME NEW i \in 1..Len(q) PROVE q[i] \in {Head(q)} \cup ToSet(Tail(q))
  <2>1. CASE i = 1
    BY <2>1, <1>1
  <2>2. CASE i # 1
    <3>1. i - 1 \in 1..Len(Tail(q)) /\ Tail(q)[i - 1] = q[i]
      BY <2>2, <1>1
    <3>. QED
      BY <3>1, <1>2
  <2>. QED
    BY <2>1, <2>2
<1>4. ASSUME NEW i \in 1..Len(Tail(q)) PROVE Tail(q)[i] \in ToSet(q)
  <2>1. i + 1 \in 1..Len(q) /\ Tail(q)[i] = q[i + 1]
    BY <1>1
  <2>. QED
    BY <2>1, <1>2
<1>5. Head(q) \in ToSet(q)
  <2>1. 1 \in 1..Len(q)
    BY <1>1
  <2>. QED
    BY <2>1, <1>1, <1>2
<1>. QED
  BY <1>2, <1>3, <1>4, <1>5

LEMMA HeadOrTailItems ==
  ASSUME NEW its \in Items, its # <<>>
  PROVE  Of(its) \subseteq ToSet(Head(its).objects) \cup Of(Tail(its))
<1>1. /\ Tail(its) \in Items /\ Len(Tail(its)) = Len(its) - 1 /\ Head(its) = its[1]
      /\ Len(its) \in Nat \ {0}
      /\ \A i \in 1..Len(Tail(its)) : Tail(its)[i] = its[i + 1]
  BY HeadTailProperties, LenProperties, EmptySeq DEF Items
<1>2. ASSUME NEW i \in 1..Len(its) PROVE ToSet(its[i].objects) \subseteq ToSet(Head(its).objects) \cup Of(Tail(its))
  <2>1. CASE i = 1
    BY <2>1, <1>1
  <2>2. CASE i # 1
    <3>1. i - 1 \in 1..Len(Tail(its)) /\ Tail(its)[i - 1] = its[i]
      BY <2>2, <1>1
    <3>. QED
      BY <3>1 DEF Of
  <2>. QED
    BY <2>1, <2>2
<1>. QED
  BY <1>2 DEF Of

LEMMA NoItems == Of(<<>>) = {}
  BY EmptySeq DEF Of

(* One folder is its objects.                                              *)
LEMMA OneItem ==
  ASSUME NEW its \in Items, Len(its) = 1
  PROVE  its # <<>> /\ Of(its) \subseteq ToSet(Head(its).objects)
<1>0. its # <<>>
  BY EmptySeq
<1>1. Tail(its) \in Items /\ Len(Tail(its)) = 0
  BY <1>0, HeadTailProperties DEF Items
<1>2. Tail(its) = <<>>
  BY <1>1, EmptySeq DEF Items
<1>. QED
  BY <1>0, <1>2, HeadOrTailItems, NoItems

LEMMA TypedItem ==
  ASSUME NEW its \in Items, its # <<>>
  PROVE  Head(its).objects \in Seq(Objects) /\ Tail(its) \in Items
<1>1. Head(its) \in [prefix : BOOLEAN, objects : Seq(Objects)] /\ Tail(its) \in Items
  BY HeadTailProperties DEF Items
<1>. QED
  BY <1>1

-----------------------------------------------------------------------------
LEMMA InitIInv == Init => IInv
<1>. SUFFICES ASSUME Init PROVE IInv
  OBVIOUS
<1>1. asked.items \in Items /\ items = asked.items
  BY SelectionsAssumption DEF Init, Items
<1>2. ZipTypeOK
  BY <1>1, EmptySeq DEF Init, ZipTypeOK, Items
<1>3. Asked = Of(items)
  BY <1>1 DEF Asked, Of
<1>. QED
  BY <1>2, <1>3 DEF Init, IInv, Covered, NothingLeft, Stages

LEMMA NextIInv == IInv /\ [Next]_vars => IInv'
<1>. SUFFICES ASSUME IInv, [Next]_vars PROVE IInv'
  OBVIOUS
<1>. USE DEF IInv, answer
<1>0. /\ items \in Items /\ objects \in Seq(Objects)
      /\ asked' = asked => Asked' = Asked
  BY DEF ZipTypeOK, Items, Asked
<1>1. CASE ListFolder
  <2>1. items # <<>> /\ Of(items) \subseteq ToSet(Head(items).objects) /\ Len(items) = 1
    BY <1>0, <1>1, OneItem DEF ListFolder, Stages
  <2>2. /\ Head(items).objects \in Seq(Objects) /\ <<>> \in Items
    BY <2>1, <1>0, TypedItem, EmptySeq DEF Items
  <2>3. ZipTypeOK'
    BY <1>1, <2>2 DEF ListFolder, ZipTypeOK, Items, Stages
  <2>4. Covered'
    <3>1. ToSet(objects) = {}
      BY <1>1 DEF ListFolder, Stages, ToSet
    <3>2. CASE handler' = "copying"
      BY <3>1, <3>2, <1>0, <1>1, <2>1 DEF ListFolder, Covered, PipeOpen, Stages
    <3>3. CASE handler' = "refused"
      BY <3>3, <1>1 DEF ListFolder, Covered, PipeOpen, Stages
    <3>. QED
      BY <3>2, <3>3, <1>1 DEF ListFolder
  <2>. QED
    BY <1>1, <2>3, <2>4 DEF ListFolder, NothingLeft, Stages
<1>2. CASE CopyEnds
  BY <1>0, <1>2 DEF CopyEnds, ZipTypeOK, Covered, PipeOpen, NothingLeft, Stages
<1>3. CASE ClientGoes
  BY <1>0, <1>3 DEF ClientGoes, ZipTypeOK, Covered, PipeOpen, NothingLeft, Stages
<1>4. CASE NextItem
  <2>1. /\ Head(items).objects \in Seq(Objects) /\ Tail(items) \in Items
        /\ <<>> \in Seq(Objects)
        /\ Of(items) \subseteq ToSet(Head(items).objects) \cup Of(Tail(items))
    BY <1>0, <1>4, TypedItem, HeadOrTailItems, EmptySeq DEF NextItem
  <2>2. ToSet(objects) = {}
    BY <1>4 DEF NextItem, ToSet
  <2>3. ZipTypeOK'
    BY <1>4, <2>1 DEF NextItem, ListObjects, CloseWith, ZipTypeOK, Items
  <2>4. ~whole /\ producer = "loop" /\ producer' = "loop" /\ ~whole'
    BY <1>4 DEF NextItem, Stages
  <2>5. PipeOpen' => objects' = Head(items).objects /\ items' = Tail(items) /\ PipeOpen
    BY <1>4 DEF NextItem, ListObjects, CloseWith, PipeOpen
  <2>6. Covered'
    BY <1>0, <1>4, <2>1, <2>2, <2>4, <2>5 DEF NextItem, Covered
  <2>. QED
    BY <1>4, <2>3, <2>4, <2>6 DEF NextItem, NothingLeft, Stages
<1>5. CASE Skip
  <2>1. /\ Head(objects) \in Objects /\ Tail(objects) \in Seq(Objects)
        /\ ToSet(objects) = {Head(objects)} \cup ToSet(Tail(objects))
    BY <1>0, <1>5, HeadTailProperties, HeadOrTail DEF Skip
  <2>2. ZipTypeOK'
    BY <1>5, <2>1 DEF Skip, ZipTypeOK
  <2>. QED
    BY <1>0, <1>5, <2>1, <2>2 DEF Skip, Covered, PipeOpen, NothingLeft, Stages
<1>6. CASE HeaderFails
  <2>1. Tail(objects) \in Seq(Objects)
    BY <1>0, <1>6, HeadTailProperties DEF HeaderFails
  <2>2. ZipTypeOK'
    BY <1>6, <2>1 DEF HeaderFails, ZipTypeOK
  <2>. QED
    BY <1>0, <1>6, <2>2 DEF HeaderFails, PipeClosed, Covered, PipeOpen, NothingLeft, Stages
<1>7. CASE Open
  <2>1. Pieces[Head(objects)] \in Nat
    BY <1>0, <1>7, HeadTailProperties, PiecesAssumption DEF Open
  <2>2. ZipTypeOK'
    BY <1>7, <2>1 DEF Open, ZipTypeOK
  <2>. QED
    BY <1>0, <1>7, <2>2 DEF Open, Covered, PipeOpen, NothingLeft, Stages
<1>8. CASE Read
  <2>0. producer = "read" /\ objects # <<>>
    BY <1>8 DEF Read, ZipTypeOK
  <2>1. /\ Head(objects) \in Objects /\ Tail(objects) \in Seq(Objects)
        /\ ToSet(objects) = {Head(objects)} \cup ToSet(Tail(objects))
    BY <1>0, <2>0, HeadTailProperties, HeadOrTail
  <2>2. ZipTypeOK'
    BY <1>8, <2>1, <2>0 DEF Read, ZipTypeOK
  <2>3. Covered'
    BY <1>0, <1>8, <2>1 DEF Read, Covered, PipeOpen
  <2>. QED
    BY <1>8, <2>0, <2>2, <2>3 DEF Read, NothingLeft, Stages
<1>9. CASE Write
  <2>1. ZipTypeOK'
    BY <1>9 DEF Write, Taken, ZipTypeOK
  <2>. QED
    BY <1>0, <1>9, <2>1 DEF Write, Taken, ZipTypeOK, Covered, PipeOpen, NothingLeft, Stages
<1>10. ASSUME Fail, producer \in {"read", "write"} PROVE IInv'
  <2>1. ZipTypeOK'
    BY <1>10 DEF Fail, CloseWith, ZipTypeOK
  <2>. QED
    BY <1>0, <1>10, <2>1 DEF Fail, CloseWith, ZipTypeOK, Covered, PipeOpen, NothingLeft, Stages
<1>11. CASE Finished
  <2>1. ZipTypeOK'
    BY <1>11 DEF Finished, ZipTypeOK
  <2>. QED
    BY <1>0, <1>11, <2>1 DEF Finished, Covered, PipeOpen, NothingLeft, Stages
<1>12. CASE CloseZip
  <2>1. ZipTypeOK'
    BY <1>12 DEF CloseZip, Taken, ZipTypeOK
  <2>2. producer = "finish" /\ producer' = "close" /\ ~whole /\ handler # "listing" /\ handler' # "listing"
    BY <1>12 DEF CloseZip, Taken, Stages
  <2>3. whole' => PipeOpen /\ writeEnd = "open"
    BY <1>12, <2>2 DEF CloseZip, Taken, PipeOpen
  <2>4. PipeOpen' => PipeOpen
    BY <1>12 DEF CloseZip, Taken, PipeOpen
  <2>. QED
    BY <1>0, <1>12, <2>1, <2>2, <2>3, <2>4 DEF CloseZip, Taken, Covered, NothingLeft, Stages
<1>13. CASE ClosePipe
  <2>1. ZipTypeOK'
    BY <1>13 DEF ClosePipe, CloseWith, ZipTypeOK
  <2>. QED
    BY <1>0, <1>13, <2>1 DEF ClosePipe, CloseWith, ZipTypeOK, Covered, PipeOpen, NothingLeft, Stages
<1>14. CASE UNCHANGED vars
  BY <1>0, <1>14 DEF vars, ZipTypeOK, Covered, PipeOpen, NothingLeft, Stages
<1>. QED
  BY <1>1, <1>2, <1>3, <1>4, <1>5, <1>6, <1>7, <1>8, <1>9, <1>10, <1>11, <1>12, <1>13, <1>14
  DEF Next, ReadFails, WriteFails

(* Every state of an archive's request is typed.                           *)
THEOREM ZipTypeCorrect == Spec => []ZipTypeOK
<1>1. IInv => ZipTypeOK
  BY DEF IInv
<1>. QED
  BY <1>1, InitIInv, NextIInv, PTL DEF Spec

(* The directory is sent only when all that was asked for is in the        *)
(* archive or could not be opened: any other failure closes the pipe with  *)
(* an error before, and a closed pipe never takes the directory.           *)
THEOREM ArchiveIsComplete == Spec => []WholeHasAll
<1>1. IInv => WholeHasAll
  BY NoItems DEF IInv, WholeHasAll, Covered, NothingLeft, ToSet
<1>. QED
  BY <1>1, InitIInv, NextIInv, PTL DEF Spec

(* Nothing waits for ever, and nothing goes on for ever: what ProducerEnds *)
(* rests on besides fairness.                                              *)

Over == handler = "refused" \/ (handler = "returned" /\ producer = "ended")

(* Where the store, the pipe or a goroutine goes on: the guards of         *)
(* StoreEnds, PipeGoes and ThreadsGo.                                      *)
CanGoOn ==
  \/ ContextDone /\ \/ handler = "listing"
                    \/ producer = "loop" /\ (objects # <<>> \/ items # <<>>)
                    \/ producer = "read"
                    \/ producer \in {"write", "finish"} /\ handler = "copying" /\ writeEnd = "open"
                    \/ producer = "finish" /\ PipeClosed
  \/ handler = "copying" /\ writeEnd # "open"
  \/ producer = "write" /\ PipeClosed
  \/ producer = "loop" /\ objects = <<>> /\ items = <<>>
  \/ producer = "close"

NeverStuck == ContextDone => Over \/ CanGoOn

(* What is still to be looked at, to be opened, to be written, to be done. *)
ToOpen == 2 * Len(objects) + (IF producer \in {"none", "loop"} THEN 1 ELSE 0)
Rest ==
  (CASE producer = "read" -> 4
     [] producer = "write" -> 3
     [] producer = "finish" -> 2
     [] producer = "close" -> 1
     [] OTHER -> 0)
  + (IF handler = "listing" THEN 2 ELSE IF handler = "copying" THEN 1 ELSE 0)
  + (IF client = "there" THEN 1 ELSE 0)

Measured == Len(items) \in Nat /\ ToOpen \in Nat /\ left \in Nat /\ Rest \in Nat
NearerToEnd ==
  \/ Len(items') < Len(items)
  \/ /\ Len(items') = Len(items)
     /\ \/ ToOpen' < ToOpen
        \/ ToOpen' = ToOpen /\ (left' < left \/ (left' = left /\ Rest' < Rest))

(* A goroutine exists once the folder is listed, and the pipe is closed    *)
(* where it ended.                                                         *)
Begun ==
  /\ producer = "none" => handler \in {"listing", "refused"}
  /\ handler = "listing" => producer = "none"
  /\ producer = "ended" => writeEnd # "open"

LEMMA BegunStep == Begun /\ [Next]_vars => Begun'
<1> SUFFICES ASSUME Begun, [Next]_vars PROVE Begun'
  OBVIOUS
<1>1. CASE ListFolder \/ CopyEnds \/ ClientGoes
  BY <1>1 DEF ListFolder, CopyEnds, ClientGoes, Begun
<1>2. CASE NextItem \/ Skip \/ HeaderFails \/ Open \/ Read \/ Finished
  BY <1>2 DEF NextItem, ListObjects, CloseWith, Skip, HeaderFails, Open, Read, Finished, Begun, answer
<1>3. CASE Write \/ CloseZip \/ ClosePipe
  BY <1>3 DEF Write, CloseZip, ClosePipe, CloseWith, Taken, Begun, answer
<1>4. CASE ReadFails \/ WriteFails
  BY <1>4 DEF ReadFails, WriteFails, Fail, CloseWith, Begun, answer
<1>5. CASE UNCHANGED vars
  BY <1>5 DEF vars, answer, Begun
<1> QED
  BY <1>1, <1>2, <1>3, <1>4, <1>5 DEF Next

(* Once the client has left or the handler has returned, the request and   *)
(* its goroutine have ended or one of them goes on, if only the store heeds *)
(* its context: a goroutine that writes finds its pipe taken or closed     *)
(* (the deferred Close of the reading end, user_objects.go:548, 689).      *)
THEOREM ProducerNotStuck == Spec => []NeverStuck
<1>1. Init => Begun
  BY DEF Init, Begun
<1>2. IInv /\ Begun => NeverStuck
  BY DEF IInv, ZipTypeOK, Begun, NeverStuck, Over, CanGoOn, ContextDone, PipeClosed
<1> QED
  BY <1>1, <1>2, BegunStep, InitIInv, NextIInv, PTL DEF Spec

LEMMA ZipStep ==
  ASSUME IInv, Next
  PROVE  NearerToEnd
<1>a. /\ Len(items) \in Nat /\ Len(objects) \in Nat /\ left \in Nat
      /\ ToOpen \in Nat /\ Rest \in Nat
  BY LenProperties DEF IInv, ZipTypeOK, ToOpen, Rest
<1>1. CASE ListFolder
  <2>1. Len(items) = 1 /\ Len(<<>>) = 0
    BY <1>1 DEF ListFolder, IInv, Stages
  <2> QED
    BY <1>1, <1>a, <2>1 DEF ListFolder, NearerToEnd, ToOpen, Rest
<1>2. CASE CopyEnds \/ ClientGoes
  BY <1>2, <1>a DEF CopyEnds, ClientGoes, NearerToEnd, ToOpen, Rest
<1>3. CASE NextItem
  BY <1>3, <1>a, HeadTailProperties DEF NextItem, IInv, ZipTypeOK, NearerToEnd
<1>4. CASE Skip \/ HeaderFails
  <2>1. Len(objects') = Len(objects) - 1 /\ UNCHANGED <<items, producer>>
    BY <1>4, HeadTailProperties DEF Skip, HeaderFails, IInv, ZipTypeOK
  <2> QED
    BY <1>a, <2>1 DEF NearerToEnd, ToOpen
<1>5. CASE Open
  BY <1>5, <1>a DEF Open, NearerToEnd, ToOpen
<1>6. CASE Read
  <2>1. CASE left > 0
    BY <1>6, <1>a, <2>1 DEF Read, NearerToEnd, ToOpen, Rest, answer
  <2>2. CASE ~ (left > 0)
    <3>1. /\ Len(objects') = Len(objects) - 1 /\ items' = items
          /\ producer = "read" /\ producer' = "loop"
      BY <1>6, <2>2, HeadTailProperties DEF Read, IInv, ZipTypeOK
    <3> QED
      BY <1>a, <3>1 DEF NearerToEnd, ToOpen
  <2> QED
    BY <2>1, <2>2
<1>7. CASE Write
  BY <1>7, <1>a DEF Write, NearerToEnd, ToOpen
<1>8. CASE ReadFails \/ WriteFails
  BY <1>8, <1>a DEF ReadFails, WriteFails, Fail, NearerToEnd, ToOpen, Rest, answer
<1>9. CASE Finished
  BY <1>9, <1>a DEF Finished, NearerToEnd, ToOpen
<1>10. CASE CloseZip
  BY <1>10, <1>a DEF CloseZip, Taken, NearerToEnd, ToOpen, Rest, answer
<1>11. CASE ClosePipe
  BY <1>11, <1>a DEF ClosePipe, NearerToEnd, ToOpen, Rest, answer
<1> QED
  BY <1>1, <1>2, <1>3, <1>4, <1>5, <1>6, <1>7, <1>8, <1>9, <1>10, <1>11 DEF Next

(* Every step of the request, whoever takes it and however it fails,       *)
(* brings it nearer to its end: of the items to look at, the objects to    *)
(* open, the writes to come and what the goroutines have left, the first   *)
(* that changes decreases.  So no selection keeps its goroutine for ever.  *)
THEOREM ArchiveAlwaysNearer == Spec => []Measured /\ [][NearerToEnd]_vars
<1>1. IInv => Measured
  BY LenProperties DEF IInv, ZipTypeOK, Measured, ToOpen, Rest
<1>2. IInv /\ [Next]_vars => [NearerToEnd]_vars
  BY ZipStep
<1> QED
  BY <1>1, <1>2, InitIInv, NextIInv, PTL DEF Spec

-----------------------------------------------------------------------------
(* Download.                                                               *)

(* What is served lies in the object from the moment it is announced.      *)
GInv ==
  /\ Get!DownloadTypeOK /\ Get!WithinObject
  /\ phase = "stat" => status = 0 /\ sent = 0
  /\ phase = "copy" => status \in {200, 206}

(* The first range of a header is a range.                                 *)
LEMMA FirstRange ==
  ASSUME NEW h \in Get!Headers, h # <<>>, MaxRanges \in Nat
  PROVE  1 \in 1..Len(h) /\ h[1] \in Get!Ranges
<1>1. PICK n \in 0..MaxRanges : h \in [1..n -> Get!Ranges]
  BY DEF Get!Headers
<1>2. h \in Seq(Get!Ranges) /\ Len(h) = n
  BY <1>1
<1>3. n # 0
  BY <1>2, EmptySeq
<1>. QED
  BY <1>1, <1>2, <1>3

(* A valid range that the seek does not refuse lies in the object.         *)
LEMMA ValidRange ==
  ASSUME Get!Widths, NEW total \in 0..MaxInt, NEW ra \in Get!Ranges,
         ~Get!Invalid(ra, total), Get!Start(ra, total) \in 0..total
  PROVE  Get!Length(ra, total) \in 0..(total - Get!Start(ra, total))
<1>1. /\ ra.start # <<>> => ra.start[1] \in Int
      /\ ra.end # <<>> => ra.end[1] \in Int
  BY DEF Get!Ranges, Get!Bounds, Get!Widths
<1>2. CASE ra.start # <<>> /\ ra.end # <<>>
  BY <1>1, <1>2 DEF Get!Length, Get!Until, Get!Start, Get!Invalid, Get!Widths
<1>3. CASE ~(ra.start # <<>> /\ ra.end # <<>>)
  BY <1>3 DEF Get!Length, Get!Wrap, Get!Widths
<1>. QED
  BY <1>2, <1>3

LEMMA DownloadInit ==
  ASSUME Get!Widths, Get!Init
  PROVE  GInv
<1>1. size \in Nat
  BY DEF Get!Init, Get!Sizes, Get!Widths
<1>2. offset \in 0..size /\ sent \in 0..size /\ length \in Int
  BY <1>1 DEF Get!Init
<1>3. Get!DownloadTypeOK
  BY <1>2 DEF Get!Init, Get!DownloadTypeOK
<1>. QED
  BY <1>3 DEF Get!Init, GInv, Get!WithinObject

LEMMA DownloadNext ==
  ASSUME Get!Widths, GInv, [Get!Next]_Get!vars
  PROVE  GInv'
<1>. USE DEF GInv, Get!DownloadTypeOK, Get!WithinObject, Get!Widths
<1>1. size \in 0..MaxInt
  BY DEF Get!Sizes
<1>2. CASE Get!Fails
  BY <1>1, <1>2 DEF Get!Fails
<1>3. CASE Get!Refuse
  BY <1>1, <1>3 DEF Get!Refuse
<1>4. CASE Get!Serve
  <2>1. CASE header = <<>>
    BY <1>1, <1>4, <2>1 DEF Get!Serve
  <2>2. CASE header # <<>>
    <3>1. 1 \in 1..Len(header) /\ header[1] \in Get!Ranges
      BY <2>2, FirstRange
    <3>2. ~Get!Invalid(header[1], size) /\ Get!Start(header[1], size) \in 0..size
      BY <1>4, <2>2, <3>1 DEF Get!Serve, Get!AllValid, Get!Seeks
    <3>3. Get!Length(header[1], size) \in 0..(size - Get!Start(header[1], size))
      BY <1>1, <3>1, <3>2, ValidRange
    <3>. QED
      BY <1>1, <1>4, <2>2, <3>2, <3>3 DEF Get!Serve
  <2>. QED
    BY <2>1, <2>2
<1>5. CASE Get!Copy
  BY <1>1, <1>5 DEF Get!Copy
<1>6. CASE Get!CopyEnds
  BY <1>1, <1>6 DEF Get!CopyEnds
<1>7. CASE UNCHANGED Get!vars
  BY <1>7 DEF Get!vars
<1>. QED
  BY <1>2, <1>3, <1>4, <1>5, <1>6, <1>7 DEF Get!Next

(* No range header, whatever it names and whatever its numbers overflow    *)
(* to, makes the program announce or read a byte outside the object.       *)
THEOREM RangeIsWithin == Get!Spec => [](Get!DownloadTypeOK /\ Get!WithinObject)
<1>1. GInv => Get!DownloadTypeOK /\ Get!WithinObject
  BY DEF GInv
<1>2. Get!Init => GInv
  BY DownloadInit, DownloadAssumption
<1>3. GInv /\ [Get!Next]_Get!vars => GInv'
  BY DownloadNext, DownloadAssumption
<1>. QED
  BY <1>1, <1>2, <1>3, PTL DEF Get!Spec

-----------------------------------------------------------------------------
(* Download: the bytes a range names.                                      *)

(* A range that is served is served to the byte: its bytes are those from  *)
(* its start, as many as its length.                                       *)
LEMMA RangeIsNamed ==
  ASSUME Get!Widths, NEW total \in 0..MaxInt, NEW ra \in Get!Ranges,
         ~Get!Invalid(ra, total), Get!Start(ra, total) \in 0..total
  PROVE  Get!Start(ra, total)..(Get!Start(ra, total) + Get!Length(ra, total) - 1)
           = Get!BytesNamed(ra, total)
<1>1. /\ ra.start # <<>> => ra.start[1] \in Int /\ ra.start[1] >= 0
      /\ ra.end # <<>> => ra.end[1] \in Int /\ ra.end[1] >= -MaxInt - 1
      /\ MaxInt \in Nat /\ total \in 0..MaxInt
  BY DEF Get!Ranges, Get!Bounds, Get!Widths
<1>2. CASE ra.start # <<>> /\ ra.end # <<>>
  BY <1>1, <1>2 DEF Get!Length, Get!Until, Get!Start, Get!Invalid, Get!BytesNamed
<1>3. CASE ra.start # <<>> /\ ra.end = <<>>
  BY <1>1, <1>3 DEF Get!Length, Get!Wrap, Get!Start, Get!Invalid, Get!BytesNamed
<1>4. CASE ra.start = <<>>
  <2>1. ra.end # <<>>
    BY <1>4 DEF Get!Invalid
  <2>2. Get!Start(ra, total) = IF ra.end[1] > total THEN 0 ELSE total - ra.end[1]
    BY <1>1, <1>4, <2>1 DEF Get!Start, Get!Suffix, Get!Wrap
  <2>3. Get!Length(ra, total) = total - Get!Start(ra, total)
    BY <1>1, <1>4 DEF Get!Length, Get!Wrap
  <2>. QED
    BY <1>1, <1>4, <2>1, <2>2, <2>3 DEF Get!BytesNamed
<1>. QED
  BY <1>2, <1>3, <1>4

(* A range that makes the program refuse the request names nothing.        *)
LEMMA RefusedIsEmpty ==
  ASSUME Get!Widths, NEW total \in 0..MaxInt, NEW ra \in Get!Ranges,
         Get!Invalid(ra, total) \/ Get!Start(ra, total) \notin 0..total
  PROVE  Get!BytesNamed(ra, total) = {}
<1>1. /\ ra.start # <<>> => ra.start[1] \in Int /\ ra.start[1] >= 0
      /\ ra.end # <<>> => ra.end[1] \in Int /\ ra.end[1] >= -MaxInt - 1
      /\ MaxInt \in Nat /\ total \in Nat
  BY DEF Get!Ranges, Get!Bounds, Get!Widths
<1>2. CASE Get!Invalid(ra, total)
  BY <1>1, <1>2 DEF Get!Invalid, Get!BytesNamed
<1>3. CASE ~Get!Invalid(ra, total) /\ ra.start # <<>>
  BY <1>1, <1>3 DEF Get!Invalid, Get!Start
<1>4. CASE ~Get!Invalid(ra, total) /\ ra.start = <<>>
  <2>1. ra.end # <<>>
    BY <1>4 DEF Get!Invalid
  <2>2. ra.end[1] < 0
    BY <1>1, <1>4, <2>1 DEF Get!Start, Get!Suffix, Get!Wrap
  <2>. QED
    BY <1>1, <1>4, <2>1, <2>2 DEF Get!BytesNamed
<1>. QED
  BY <1>2, <1>3, <1>4

(* What is being sent is what the first range names, never more than was   *)
(* announced, and all of it once the copy is over; what was refused had a  *)
(* range that names nothing.                                               *)
Exact ==
  /\ status = 206 => /\ header # <<>>
                     /\ offset..(offset + length - 1) = Get!BytesNamed(header[1], size)
  /\ status \in {200, 206} => sent <= length
  /\ phase = "ended" /\ ~failed /\ status # 500 => status \in {200, 206} /\ sent = length
  /\ phase = "ended" /\ ~failed /\ status = 500 =>
       \E k \in 1..Len(header) : Get!BytesNamed(header[k], size) = {}
  /\ failed => phase = "ended"

LEMMA ExactNext ==
  ASSUME Get!Widths, GInv, Exact, [Get!Next]_Get!vars
  PROVE  Exact'
<1>1. /\ size \in 0..MaxInt /\ MaxInt \in Nat /\ header \in Get!Headers /\ MaxRanges \in Nat
      /\ offset \in 0..size /\ length \in Int /\ sent \in 0..size
  BY DEF GInv, Get!DownloadTypeOK, Get!Sizes, Get!Widths
<1>2. CASE Get!Fails
  BY <1>2 DEF Get!Fails, Exact, GInv
<1>3. CASE Get!Refuse
  <2>1. PICK k \in 1..Len(header) :
          Get!Invalid(header[k], size) \/ Get!Start(header[k], size) \notin 0..size
    <3>1. CASE ~Get!AllValid
      BY <1>3, <3>1 DEF Get!AllValid
    <3>2. CASE Get!AllValid
      BY <1>1, <1>3, <3>2, FirstRange DEF Get!Refuse, Get!Seeks
    <3>. QED
      BY <3>1, <3>2
  <2>2. header[k] \in Get!Ranges
    <3>1. PICK n \in 0..MaxRanges : header \in [1..n -> Get!Ranges]
      BY <1>1 DEF Get!Headers
    <3>. QED
      BY <2>1, <3>1
  <2>3. Get!BytesNamed(header[k], size) = {}
    BY <1>1, <2>1, <2>2, RefusedIsEmpty
  <2>. QED
    BY <1>3, <2>1, <2>3 DEF Get!Refuse, Exact
<1>4. CASE Get!Serve
  <2>0. /\ phase' = "copy" /\ sent = 0 /\ sent' = 0 /\ ~failed' /\ UNCHANGED <<size, header>>
    BY <1>4 DEF Get!Serve, GInv, Exact
  <2>1. CASE header = <<>>
    BY <1>1, <1>4, <2>0, <2>1 DEF Get!Serve, Exact
  <2>2. CASE header # <<>>
    <3>1. 1 \in 1..Len(header) /\ header[1] \in Get!Ranges
      BY <1>1, <2>2, FirstRange
    <3>2. ~Get!Invalid(header[1], size) /\ Get!Start(header[1], size) \in 0..size
      BY <1>4, <2>2, <3>1 DEF Get!Serve, Get!AllValid, Get!Seeks
    <3>3. Get!Length(header[1], size) \in 0..(size - Get!Start(header[1], size))
      BY <1>1, <3>1, <3>2, ValidRange
    <3>4. status' = 206 /\ offset' = Get!Start(header[1], size)
          /\ length' = Get!Length(header[1], size)
      BY <1>4, <2>2 DEF Get!Serve
    <3>5. offset'..(offset' + length' - 1) = Get!BytesNamed(header[1], size)
      BY <1>1, <3>1, <3>2, <3>4, RangeIsNamed
    <3>6. sent' <= length'
      BY <1>1, <2>0, <3>2, <3>3, <3>4
    <3>. QED
      BY <2>0, <2>2, <3>4, <3>5, <3>6 DEF Exact
  <2>. QED
    BY <2>1, <2>2
<1>5. CASE Get!Copy
  BY <1>1, <1>5 DEF Get!Copy, Exact
<1>6. CASE Get!CopyEnds
  <2>1. status \in {200, 206} /\ length >= 0 /\ offset + length <= size
    BY <1>6 DEF Get!CopyEnds, GInv, Get!WithinObject
  <2>2. sent = length
    BY <1>1, <1>6, <2>1 DEF Get!CopyEnds, Exact
  <2>. QED
    BY <1>6, <2>1, <2>2 DEF Get!CopyEnds, Exact
<1>7. CASE UNCHANGED Get!vars
  BY <1>7 DEF Get!vars, Exact
<1>. QED
  BY <1>2, <1>3, <1>4, <1>5, <1>6, <1>7 DEF Get!Next

(* What is sent of a range is what HTTP says it names, to the byte, and a  *)
(* request is refused only for a range that names nothing: for every width *)
(* of integers, every size and every header.                               *)
THEOREM ServedExactly == Get!Spec => []ServedAsNamed
<1>1. GInv /\ Exact => ServedAsNamed
  BY DEF GInv, Exact, Get!DownloadTypeOK, Get!ServedAsNamed, ServedAsNamed
<1>2. Get!Init => GInv /\ Exact
  <2>1. Get!Init => GInv
    BY DownloadInit, DownloadAssumption
  <2>2. Get!Init => Exact
    BY DEF Get!Init, Exact
  <2>. QED
    BY <2>1, <2>2
<1>3. (GInv /\ Exact) /\ [Get!Next]_Get!vars => (GInv /\ Exact)'
  BY DownloadNext, ExactNext, DownloadAssumption
<1>. QED
  BY <1>1, <1>2, <1>3, PTL DEF Get!Spec

-----------------------------------------------------------------------------
(* UploadForm.                                                             *)

(* The parts read so far were put, in order, as long as none failed; only  *)
(* the last part of a broken form is not whole; and the answer is success  *)
(* only behind the last part.                                              *)
FInv ==
  /\ form \in Seq(Form!Parts) /\ broken \in BOOLEAN /\ partsRead \in 0..Len(form)
  /\ \A k \in 1..Len(form) : ~form[k].whole => broken
  /\ reply # "error" => stored = [k \in 1..partsRead |-> k]
  /\ reply = "ok" => partsRead = Len(form) /\ ~broken

LEMMA FormInit ==
  ASSUME MaxParts \in Nat, Form!Init
  PROVE  FInv
<1>1. PICK n \in 0..MaxParts : form \in [1..n -> Form!Parts]
  BY DEF Form!Init
<1>2. form \in Seq(Form!Parts) /\ Len(form) \in Nat
  BY <1>1
<1>. QED
  BY <1>2 DEF Form!Init, FInv

LEMMA FormNext ==
  ASSUME FInv, [Form!Next]_Form!vars
  PROVE  FInv'
<1>1. Len(form) \in Nat /\ partsRead \in Nat
  BY LenProperties DEF FInv
<1>2. CASE Form!Done
  BY <1>2 DEF Form!Done, Form!FormEnds, FInv
<1>3. CASE Form!NoPart
  BY <1>3 DEF Form!NoPart, FInv
<1>4. CASE Form!Put
  <2>1. stored = [k \in 1..partsRead |-> k] /\ stored' = Append(stored, partsRead + 1)
        /\ partsRead' = partsRead + 1 /\ partsRead' \in 0..Len(form)
    BY <1>1, <1>4 DEF Form!Put, FInv
  <2>2. stored' = [k \in 1..partsRead' |-> k]
    <3>1. stored \in Seq(Nat) /\ Len(stored) = partsRead
      BY <1>1, <2>1
    <3>. QED
      BY <1>1, <2>1, <3>1
  <2>. QED
    BY <1>4, <2>1, <2>2 DEF Form!Put, FInv
<1>5. CASE Form!PutFails
  BY <1>1, <1>5 DEF Form!PutFails, FInv
<1>6. CASE UNCHANGED Form!vars
  BY <1>6 DEF Form!vars, FInv
<1>. QED
  BY <1>2, <1>3, <1>4, <1>5, <1>6 DEF Form!Next

(* An upload is answered by success only if the whole form came and every  *)
(* part of it was put in order, however many parts it has and wherever it  *)
(* breaks off.                                                             *)
THEOREM SuccessIsOfWholeForm == Form!Spec => []SuccessIsWhole
<1>1. FInv => SuccessIsWhole
  BY DEF FInv, Form!SuccessIsWhole, SuccessIsWhole
<1>2. Form!Init => FInv
  BY FormInit, FormAssumption
<1>3. FInv /\ [Form!Next]_Form!vars => FInv'
  BY FormNext
<1>. QED
  BY <1>1, <1>2, <1>3, PTL DEF Form!Spec

-----------------------------------------------------------------------------
(* The division of drives is computed by loops, so its proof is by         *)
(* induction: over the numbers a loop counts, in the form of a set of      *)
(* those for which its invariant holds.                                    *)

(* Nat is well-founded: what holds of zero and of the next number holds    *)
(* of all.                                                                 *)
LEMMA Induction ==
  ASSUME NEW T, T \subseteq Nat, 0 \in T, \A n \in T : n + 1 \in T
  PROVE  T = Nat
<1>1. SUFFICES ASSUME Nat \ T # {} PROVE FALSE
  OBVIOUS
<1>2. PICK x \in Nat \ T : \A y \in Nat \ T : ~(<<y, x>> \in OpToRel(<, Nat))
  BY <1>1, NatLessThanWellFounded, WFMin, Nat \ T \subseteq Nat, Zenon
<1>3. \A y \in Nat : y < x => y \in T
  BY <1>2, Zenon DEF OpToRel
<1>4. x # 0 /\ x \in Nat
  BY <1>2
<1>5. x - 1 \in T /\ (x - 1) + 1 = x
  BY <1>3, <1>4
<1>. QED
  BY <1>5, <1>2

(* The same of the numbers from M to N.                                    *)
LEMMA InductionUpTo ==
  ASSUME NEW M \in Nat, NEW N \in Nat, NEW T,
         M \in T, \A n \in M..(N - 1) : n \in T => n + 1 \in T
  PROVE  \A n \in M..N : n \in T
<1>. DEFINE Reached == {n \in Nat : M + n <= N => M + n \in T}
<1>1. 0 \in Reached
  OBVIOUS
<1>2. ASSUME NEW n \in Reached PROVE n + 1 \in Reached
  <2>1. SUFFICES ASSUME M + (n + 1) <= N PROVE M + (n + 1) \in T
    OBVIOUS
  <2>2. M + n \in T /\ M + n \in M..(N - 1)
    BY <2>1
  <2>. QED
    BY <2>2
<1>3. Reached = Nat
  <2>1. Reached \subseteq Nat
    OBVIOUS
  <2>. HIDE DEF Reached
  <2>. QED
    BY <1>1, <1>2, <2>1, Induction
<1>4. ASSUME NEW n \in M..N PROVE n \in T
  <2>1. PICK k \in Nat : n = M + k
    <3>1. n - M \in Nat /\ n = M + (n - M)
      OBVIOUS
    <3>. QED
      BY <3>1
  <2>2. k \in Reached
    BY <1>3
  <2>. QED
    BY <2>1, <2>2
<1>. QED
  BY <1>4

(* A function on M..N may be defined by what it is at M and a step.        *)
IsRecursion(f, S, b, M, N, step) ==
  /\ f \in [M..N -> S]
  /\ f[M] = b
  /\ \A i \in M..(N - 1) : f[i + 1] = step[i][f[i]]

LEMMA Recursion ==
  ASSUME NEW S, NEW b \in S, NEW M \in Nat, NEW N \in Nat, M <= N,
         NEW step \in [M..(N - 1) -> [S -> S]]
  PROVE  \E f : IsRecursion(f, S, b, M, N, step)
<1>. DEFINE IsUpTo(f, n) == IsRecursion(f, S, b, M, n, step)
            T == {n \in Nat : \E f : IsUpTo(f, n)}
<1>1. M \in T
  <2>1. IsUpTo([i \in M..M |-> b], M)
    BY DEF IsRecursion
  <2>. HIDE DEF IsUpTo
  <2>. QED
    BY <2>1
<1>2. \A n \in M..(N - 1) : n \in T => n + 1 \in T
  <2>. SUFFICES ASSUME NEW n \in M..(N - 1), n \in T PROVE n + 1 \in T
    OBVIOUS
  <2>1. PICK g : IsUpTo(g, n)
    <3>. HIDE DEF IsUpTo
    <3>. QED
      OBVIOUS
  <2>. DEFINE f == [i \in M..(n + 1) |-> IF i = n + 1 THEN step[n][g[n]] ELSE g[i]]
  <2>2. g[n] \in S /\ step[n][g[n]] \in S
    BY <2>1 DEF IsRecursion
  <2>3. f \in [M..(n + 1) -> S] /\ f[M] = b
    BY <2>1, <2>2 DEF IsRecursion
  <2>4. ASSUME NEW i \in M..n PROVE f[i + 1] = step[i][f[i]]
    <3>1. CASE i = n
      BY <3>1
    <3>2. CASE i # n
      <4>1. f[i + 1] = g[i + 1] /\ f[i] = g[i] /\ i \in M..(n - 1)
        BY <3>2
      <4>. QED
        BY <4>1, <2>1 DEF IsRecursion
    <3>. QED
      BY <3>1, <3>2
  <2>5. IsUpTo(f, n + 1)
    <3>. HIDE DEF f
    <3>1. (n + 1) - 1 = n
      OBVIOUS
    <3>. QED
      BY <2>3, <2>4, <3>1 DEF IsRecursion
  <2>. HIDE DEF IsUpTo, f
  <2>. QED
    BY <2>5
<1>3. \A n \in M..N : n \in T
  <2>. HIDE DEF T
  <2>. QED
    BY <1>1, <1>2, InductionUpTo, Zenon
<1>4. N \in M..N
  OBVIOUS
<1>5. N \in T
  BY <1>3, <1>4
<1>. QED
  BY <1>5

(* A set of numbers has a least one.                                       *)
LEMMA Least ==
  ASSUME NEW T, T \subseteq Nat, T # {}
  PROVE  \E x \in T : \A y \in T : x <= y
<1>1. PICK x \in T : \A y \in T : ~(<<y, x>> \in OpToRel(<, Nat))
  BY NatLessThanWellFounded, WFMin, Zenon
<1>2. \A y \in T : ~(y < x)
  BY <1>1, Zenon DEF OpToRel
<1>. QED
  BY <1>2

-----------------------------------------------------------------------------
LEMMA DivMod ==
  ASSUME NEW x \in Nat, NEW y \in Nat \ {0}
  PROVE  /\ x \div y \in Nat /\ x % y \in Nat /\ x % y < y
         /\ x = y * (x \div y) + (x % y)
OBVIOUS

(* A number divides another when that is a multiple of it.                 *)
LEMMA DividesIff ==
  ASSUME NEW d \in Nat \ {0}, NEW n \in Nat
  PROVE  Sets!Divides(d, n) <=> \E q \in Nat : n = d * q
<1>1. ASSUME Sets!Divides(d, n) PROVE \E q \in Nat : n = d * q
  BY <1>1, DivMod DEF Sets!Divides
<1>2. ASSUME NEW q \in Nat, n = d * q PROVE Sets!Divides(d, n)
  BY <1>2 DEF Sets!Divides
<1>. QED
  BY <1>1, <1>2

(* What divides y divides x exactly when it divides the rest of x by y.    *)
LEMMA DividesRest ==
  ASSUME NEW x \in Nat, NEW y \in Nat \ {0}, NEW d \in Nat \ {0}, Sets!Divides(d, y)
  PROVE  Sets!Divides(d, x) <=> Sets!Divides(d, x % y)
<1>1. PICK q \in Nat : y = d * q
  BY DividesIff
<1>. DEFINE k == x \div y
            r == x % y
<1>2. k \in Nat /\ r \in Nat /\ x = y * k + r
  BY DivMod
<1>. HIDE DEF k, r
<1>3. y * k = d * (q * k) /\ q * k \in Nat
  BY <1>1, <1>2
<1>4. ASSUME NEW p \in Nat, r = d * p PROVE x = d * (q * k + p)
  BY <1>2, <1>3, <1>4
<1>5. ASSUME NEW p \in Nat, x = d * p PROVE r = d * (p - q * k) /\ p - q * k \in Nat
  <2>1. d * (q * k) + r = d * p
    BY <1>2, <1>3, <1>5
  <2>. DEFINE m == q * k
  <2>2. m \in Nat
    BY <1>3
  <2>. HIDE DEF m
  <2>3. r = d * (p - m)
    BY <2>1, <2>2, <1>2 DEF m
  <2>4. p - m >= 0
    BY <2>2, <2>3, <1>2
  <2>. QED
    BY <2>2, <2>3, <2>4 DEF m
<1>6. Sets!Divides(d, r) => Sets!Divides(d, x)
  <2>1. ASSUME NEW p \in Nat, r = d * p PROVE Sets!Divides(d, x)
    BY <1>4, <2>1, <1>3, q * k + p \in Nat, DividesIff
  <2>. QED
    BY <2>1, <1>2, DividesIff
<1>7. Sets!Divides(d, x) => Sets!Divides(d, r)
  <2>1. ASSUME NEW p \in Nat, x = d * p PROVE Sets!Divides(d, r)
    BY <1>5, <2>1, <1>2, DividesIff
  <2>. QED
    BY <2>1, DividesIff
<1>. QED
  BY <1>6, <1>7 DEF r

(* Numbers with the same divisors are equal.                               *)
Divisors(x) == {d \in Nat \ {0} : Sets!Divides(d, x)}

LEMMA DividesLess ==
  ASSUME NEW d \in Nat \ {0}, NEW n \in Nat \ {0}, Sets!Divides(d, n)
  PROVE  d <= n
<1>1. PICK q \in Nat : n = d * q
  BY DividesIff
<1>2. q >= 1
  BY <1>1
<1>. QED
  BY <1>1, <1>2

LEMMA SameDivisors ==
  ASSUME NEW x \in Nat, NEW y \in Nat, Divisors(x) = Divisors(y)
  PROVE  x = y
<1>1. ASSUME NEW n \in Nat PROVE Sets!Divides(n + 1, 0)
  BY DEF Sets!Divides
<1>2. ASSUME NEW n \in Nat \ {0} PROVE n \in Divisors(n)
  BY n = n * 1, DividesIff DEF Divisors
<1>3. CASE x = 0
  <2>1. y + 1 \in Divisors(x)
    BY <1>1, <1>3 DEF Divisors
  <2>2. CASE y # 0
    BY <2>1, <2>2, DividesLess DEF Divisors
  <2>. QED
    BY <2>2, <1>3
<1>4. CASE y = 0
  <2>1. x + 1 \in Divisors(y)
    BY <1>1, <1>4 DEF Divisors
  <2>2. CASE x # 0
    BY <2>1, <2>2, DividesLess DEF Divisors
  <2>. QED
    BY <2>2, <1>4
<1>5. CASE x # 0 /\ y # 0
  <2>1. x \in Divisors(y) /\ y \in Divisors(x)
    BY <1>2, <1>5
  <2>. QED
    BY <2>1, <1>5, DividesLess DEF Divisors
<1>. QED
  BY <1>3, <1>4, <1>5

(* Euclid's equation has a solution: the number whose divisors are those   *)
(* of both.                                                                *)
LEMMA GcdEquation ==
  Sets!gcd = [y \in Nat |-> [x \in Nat |-> IF y = 0 THEN x ELSE Sets!gcd[x % y][y]]]
<1>. DEFINE Common(x, y) == Divisors(x) \cap Divisors(y)
            Gcd(x, y) == CHOOSE m \in Nat : Divisors(m) = Common(x, y)
            G == [y \in Nat |-> [x \in Nat |-> Gcd(x, y)]]
<1>1. ASSUME NEW x \in Nat, NEW y \in Nat \ {0}
      PROVE  Common(x, y) = Common(y, x % y)
  BY DivMod, DividesRest DEF Divisors
<1>2. ASSUME NEW x \in Nat PROVE Gcd(x, 0) = x
  <2>1. Common(x, 0) = Divisors(x)
    BY DEF Divisors, Sets!Divides
  <2>. HIDE DEF Common
  <2>2. Divisors(Gcd(x, 0)) = Common(x, 0) /\ Gcd(x, 0) \in Nat
    BY <2>1
  <2>. HIDE DEF Gcd
  <2>. QED
    BY <2>1, <2>2, SameDivisors
<1>3. ASSUME NEW x \in Nat, NEW y \in Nat
      PROVE  Gcd(x, y) = IF y = 0 THEN x ELSE G[x % y][y]
  <2>1. CASE y = 0
    <3>. HIDE DEF Gcd
    <3>. QED
      BY <2>1, <1>2
  <2>2. CASE y # 0
    <3>1. Gcd(x, y) = Gcd(y, x % y)
      <4>. HIDE DEF Common
      <4>. QED
        BY <2>2, <1>1
    <3>2. x % y \in Nat
      BY <2>2, DivMod
    <3>. HIDE DEF Gcd
    <3>. QED
      BY <2>2, <3>1, <3>2
  <2>. QED
    BY <2>1, <2>2
<1>4. G = [y \in Nat |-> [x \in Nat |-> IF y = 0 THEN x ELSE G[x % y][y]]]
  <2>1. \A x \in Nat, y \in Nat : Gcd(x, y) = IF y = 0 THEN x ELSE G[x % y][y]
    BY <1>3
  <2>. HIDE DEF Gcd
  <2>. QED
    BY <2>1, Zenon
<1>. HIDE DEF G
<1>. QED
  BY <1>4, Zenon DEF Sets!gcd

(* What divides the result are the common divisors.                        *)
LEMMA GcdDivisors ==
  \A y \in Nat : \A x \in Nat \ {0} :
     /\ Sets!gcd[y][x] \in Nat \ {0}
     /\ Divisors(Sets!gcd[y][x]) = Divisors(x) \cap Divisors(y)
<1>. DEFINE Right(x, y) == /\ Sets!gcd[y][x] \in Nat \ {0}
                           /\ Divisors(Sets!gcd[y][x]) = Divisors(x) \cap Divisors(y)
            T == {n \in Nat : \A y \in Nat : y <= n => \A x \in Nat \ {0} : Right(x, y)}
<1>0. ASSUME NEW x \in Nat, NEW y \in Nat
      PROVE  Sets!gcd[y][x] = IF y = 0 THEN x ELSE Sets!gcd[x % y][y]
  BY GcdEquation
<1>1. ASSUME NEW x \in Nat \ {0} PROVE Right(x, 0)
  <2>1. Sets!gcd[0][x] = x
    BY <1>0
  <2>2. Divisors(x) \subseteq Divisors(0)
    BY DEF Divisors, Sets!Divides
  <2>. QED
    BY <2>1, <2>2
<1>2. ASSUME NEW x \in Nat \ {0}, NEW y \in Nat \ {0}, Right(y, x % y) PROVE Right(x, y)
  <2>1. Sets!gcd[y][x] = Sets!gcd[x % y][y]
    BY <1>0
  <2>2. Divisors(x) \cap Divisors(y) = Divisors(y) \cap Divisors(x % y)
    BY DivMod, DividesRest DEF Divisors
  <2>. QED
    BY <2>1, <2>2, <1>2
<1>. HIDE DEF Right
<1>3. 0 \in T
  BY <1>1
<1>4. ASSUME NEW n \in T PROVE n + 1 \in T
  <2>1. ASSUME NEW y \in Nat, y <= n + 1, NEW x \in Nat \ {0} PROVE Right(x, y)
    <3>1. CASE y = 0
      BY <3>1, <1>1
    <3>2. CASE y # 0
      <4>1. x % y \in Nat /\ x % y <= n
        BY <3>2, <2>1, DivMod
      <4>. QED
        BY <4>1, <3>2, <1>2
    <3>. QED
      BY <3>1, <3>2
  <2>. QED
    BY <2>1
<1>5. T = Nat
  <2>1. T \subseteq Nat
    OBVIOUS
  <2>. HIDE DEF T
  <2>. QED
    BY <1>3, <1>4, <2>1, Induction
<1>6. ASSUME NEW y \in Nat, NEW x \in Nat \ {0} PROVE Right(x, y)
  <2>1. y \in T
    BY <1>5
  <2>. QED
    BY <2>1
<1>. QED
  BY <1>6 DEF Right


(* A product of numbers none of which is 0.                                *)
LEMMA ProductType ==
  ASSUME NEW arg \in Seq(Nat \ {0})
  PROVE  Sets!Product(arg) \in Nat \ {0}
<1>. DEFINE N == Len(arg)
            S == Nat \ {0}
            IsProduct(f) == f = [n \in 0..N |-> IF n = 0 THEN 1 ELSE f[n - 1] * arg[n]]
            g == CHOOSE f : IsProduct(f)
<1>1. N \in Nat /\ \A i \in 1..N : arg[i] \in S
  BY LenProperties
<1>2. Sets!Product(arg) = g[N]
  BY DEF Sets!Product
<1>. HIDE DEF N
<1>3. \E f : IsProduct(f)
  <2>. DEFINE step == [i \in 0..(N - 1) |-> [v \in S |-> v * arg[i + 1]]]
  <2>1. \A v \in S, w \in S : v * w \in S
    OBVIOUS
  <2>2. \A i \in 0..(N - 1) : arg[i + 1] \in S
    BY <1>1
  <2>3. step \in [0..(N - 1) -> [S -> S]] /\ 1 \in S /\ 0 <= N
    BY <1>1, <2>1, <2>2
  <2>. HIDE DEF step
  <2>4. PICK f : IsRecursion(f, S, 1, 0, N, step)
    <3>. HIDE DEF S
    <3>. QED
      BY <2>3, <1>1, Recursion, 0 \in Nat, Zenon
  <2>5. ASSUME NEW n \in 1..N PROVE f[n] = f[n - 1] * arg[n]
    <3>1. n - 1 \in 0..(N - 1) /\ (n - 1) + 1 = n /\ f[n - 1] \in S
      BY <1>1, <2>4 DEF IsRecursion
    <3>2. step[n - 1][f[n - 1]] = f[n - 1] * arg[n]
      BY <3>1 DEF step
    <3>3. f[(n - 1) + 1] = step[n - 1][f[n - 1]]
      BY <3>1, <2>4 DEF IsRecursion
    <3>. QED
      BY <3>1, <3>2, <3>3
  <2>6. IsProduct(f)
    BY <2>4, <2>5 DEF IsRecursion
  <2>. HIDE DEF IsProduct
  <2>. QED
    BY <2>6
<1>4. IsProduct(g)
  <2>. HIDE DEF IsProduct
  <2>. QED
    BY <1>3
<1>. HIDE DEF g
<1>5. g[0] = 1 /\ \A n \in 1..N : g[n] = g[n - 1] * arg[n]
  BY <1>1, <1>4
<1>. DEFINE T == {n \in Nat : g[n] \in S}
<1>6. 0 \in T
  BY <1>5
<1>7. \A n \in 0..(N - 1) : n \in T => n + 1 \in T
  <2>. SUFFICES ASSUME NEW n \in 0..(N - 1), n \in T PROVE n + 1 \in T
    OBVIOUS
  <2>1. n + 1 \in 1..N /\ (n + 1) - 1 = n
    BY <1>1
  <2>2. g[n + 1] = g[n] * arg[n + 1] /\ arg[n + 1] \in S /\ g[n] \in S
    BY <1>1, <1>5, <2>1
  <2>3. g[n + 1] \in S
    BY <2>2
  <2>. QED
    BY <2>1, <2>3
<1>8. \A n \in 0..N : n \in T
  <2>. HIDE DEF T
  <2>. QED
    BY <1>1, <1>6, <1>7, InductionUpTo, 0 \in Nat, Zenon
<1>. QED
  BY <1>1, <1>2, <1>8

(* What divides the divisible size are the common divisors of all sizes.   *)
LEMMA DivisibleSize ==
  ASSUME NEW sizes \in Seq(Nat \ {0}), sizes # <<>>
  PROVE  /\ Sets!getDivisibleSize(sizes) \in Nat \ {0}
         /\ \A d \in Nat \ {0} :
              Sets!Divides(d, Sets!getDivisibleSize(sizes))
                <=> \A k \in 1..Len(sizes) : Sets!Divides(d, sizes[k])
<1>. DEFINE N == Len(sizes)
            S == Nat \ {0}
            Then(v, i) == Sets!gcd[sizes[i]][v]
            IsResult(f) ==
              f = [n \in 1..N |-> IF n = 1 THEN sizes[1] ELSE Then(f[n - 1], n)]
            g == CHOOSE f : IsResult(f)
<1>1. N \in Nat \ {0} /\ \A i \in 1..N : sizes[i] \in S
  BY LenProperties, EmptySeq
<1>2. Sets!getDivisibleSize(sizes) = g[N]
  BY DEF Sets!getDivisibleSize
<1>. HIDE DEF N
<1>3. \A i \in 1..N : \A v \in S :
         /\ Then(v, i) \in S
         /\ Divisors(Then(v, i)) = Divisors(v) \cap Divisors(sizes[i])
  BY <1>1, GcdDivisors
<1>. HIDE DEF Then
<1>4. \E f : IsResult(f)
  <2>. DEFINE step == [i \in 1..(N - 1) |-> [v \in S |-> Then(v, i + 1)]]
  <2>1. \A i \in 1..(N - 1) : \A v \in S : Then(v, i + 1) \in S
    <3>1. \A i \in 1..(N - 1) : i + 1 \in 1..N
      BY <1>1
    <3>. QED
      BY <3>1, <1>3
  <2>2. step \in [1..(N - 1) -> [S -> S]] /\ sizes[1] \in S /\ 1 <= N
    BY <1>1, <2>1
  <2>. HIDE DEF step
  <2>3. PICK f : IsRecursion(f, S, sizes[1], 1, N, step)
    <3>1. 1 \in Nat /\ N \in Nat
      BY <1>1
    <3>. HIDE DEF S
    <3>. QED
      BY <3>1, <2>2, Recursion, Zenon
  <2>4. ASSUME NEW n \in 1..N, n # 1 PROVE f[n] = Then(f[n - 1], n)
    <3>1. n - 1 \in 1..(N - 1) /\ (n - 1) + 1 = n /\ f[n - 1] \in S
      BY <1>1, <2>3, <2>4 DEF IsRecursion
    <3>2. step[n - 1][f[n - 1]] = Then(f[n - 1], n)
      BY <3>1 DEF step
    <3>3. f[(n - 1) + 1] = step[n - 1][f[n - 1]]
      BY <3>1, <2>3 DEF IsRecursion
    <3>. QED
      BY <3>1, <3>2, <3>3
  <2>5. IsResult(f)
    BY <2>3, <2>4 DEF IsRecursion
  <2>. HIDE DEF IsResult
  <2>. QED
    BY <2>5
<1>5. IsResult(g)
  <2>. HIDE DEF IsResult
  <2>. QED
    BY <1>4
<1>. HIDE DEF g
<1>6. g[1] = sizes[1] /\ \A n \in 1..N : n # 1 => g[n] = Then(g[n - 1], n)
  BY <1>1, <1>5
<1>. DEFINE Right(n) ==
       /\ g[n] \in S
       /\ \A d \in S : Sets!Divides(d, g[n]) <=> \A k \in 1..n : Sets!Divides(d, sizes[k])
     T == {n \in Nat : Right(n)}
<1>7. 1 \in T
  BY <1>1, <1>6
<1>8. \A n \in 1..(N - 1) : n \in T => n + 1 \in T
  <2>. SUFFICES ASSUME NEW n \in 1..(N - 1), n \in T PROVE n + 1 \in T
    OBVIOUS
  <2>1. n + 1 \in 1..N /\ n + 1 # 1 /\ (n + 1) - 1 = n
    BY <1>1
  <2>2. g[n + 1] = Then(g[n], n + 1)
    BY <1>6, <2>1
  <2>3. g[n + 1] \in S /\ Divisors(g[n + 1]) = Divisors(g[n]) \cap Divisors(sizes[n + 1])
    BY <2>1, <2>2, <1>3
  <2>4. ASSUME NEW d \in S
        PROVE  Sets!Divides(d, g[n + 1])
                 <=> Sets!Divides(d, g[n]) /\ Sets!Divides(d, sizes[n + 1])
    <3>1. d \in Divisors(g[n + 1]) <=> d \in Divisors(g[n]) /\ d \in Divisors(sizes[n + 1])
      BY <2>3
    <3>. QED
      BY <3>1, Zenon DEF Divisors
  <2>5. ASSUME NEW d \in S
        PROVE  Sets!Divides(d, g[n + 1]) <=> \A k \in 1..(n + 1) : Sets!Divides(d, sizes[k])
    <3>1. 1..(n + 1) = 1..n \cup {n + 1}
      OBVIOUS
    <3>2. Sets!Divides(d, g[n]) <=> \A k \in 1..n : Sets!Divides(d, sizes[k])
      OBVIOUS
    <3>. QED
      BY <2>4, <3>1, <3>2, Zenon
  <2>6. Right(n + 1)
    BY <2>3, <2>5
  <2>. HIDE DEF Right
  <2>. QED
    BY <2>6
<1>9. \A n \in 1..N : n \in T
  <2>1. 1 \in Nat /\ N \in Nat
    BY <1>1
  <2>. HIDE DEF T
  <2>. QED
    BY <2>1, <1>7, <1>8, InductionUpTo, Zenon
<1>10. Right(N)
  <2>. HIDE DEF Right
  <2>. QED
    BY <1>1, <1>9
<1>. QED
  BY <1>2, <1>10 DEF N

(* Without a rest, the quotient times the divisor is the number.           *)
LEMMA ExactQuotient ==
  ASSUME NEW x \in Nat \ {0}, NEW d \in Nat \ {0}, Sets!Divides(d, x)
  PROVE  x \div d \in Nat \ {0} /\ (x \div d) * d = x
<1>. DEFINE q == x \div d
<1>1. q \in Nat /\ x = d * q
  BY DivMod DEF Sets!Divides
<1>. HIDE DEF q
<1>2. q # 0 /\ q * d = x
  BY <1>1
<1>. QED
  BY <1>1, <1>2 DEF q

(* Of two divisors of a number the greater has the smaller quotient.       *)
LEMMA QuotientsDescend ==
  ASSUME NEW x \in Nat \ {0}, NEW m \in Nat \ {0}, NEW n \in Nat \ {0}, m <= n,
         Sets!Divides(m, x), Sets!Divides(n, x)
  PROVE  x \div n <= x \div m
<1>. DEFINE p == x \div m
            q == x \div n
<1>1. p \in Nat /\ q \in Nat /\ x = m * p /\ x = n * q
  BY DivMod DEF Sets!Divides
<1>. HIDE DEF p, q
<1>2. CASE p < q
  <2>1. m * q <= n * q
    BY <1>1
  <2>2. m * p < m * q
    BY <1>1, <1>2
  <2>. QED
    BY <1>1, <2>1, <2>2
<1>3. CASE ~(p < q)
  BY <1>1, <1>3 DEF p, q
<1>. QED
  BY <1>2, <1>3

(* Of the counts that divide a number the largest is taken.                *)
LEMMA LargestCount ==
  ASSUME NEW x \in Nat \ {0}, NEW counts, counts \subseteq Sets!SetSizes, counts # {},
         \A c \in counts : Sets!Divides(c, x)
  PROVE  /\ Sets!commonSetDriveCount(x, counts) \in counts
         /\ \A c \in counts : c <= Sets!commonSetDriveCount(x, counts)
<1>. DEFINE least == CHOOSE c \in counts : \A d \in counts : c <= d
            Best == [ratio : Nat, size : Nat]
            First == [ratio |-> x \div least, size |-> 0]
            Then(b, n) == IF /\ n \in counts
                             /\ Sets!Divides(n, x)
                             /\ x \div n <= b.ratio
                          THEN [ratio |-> x \div n, size |-> n] ELSE b
            IsBest(f) == f = [n \in 3..16 |-> IF n = 3 THEN First ELSE Then(f[n - 1], n)]
            g == CHOOSE f : IsBest(f)
<1>1. /\ \A c \in counts : c \in 4..16 /\ c \in Nat \ {0}
      /\ least \in counts /\ \A d \in counts : least <= d
  <2>1. counts \subseteq Nat
    BY DEF Sets!SetSizes
  <2>2. \E c \in counts : \A d \in counts : c <= d
    BY <2>1, Least, Zenon
  <2>3. least \in counts /\ \A d \in counts : least <= d
    BY <2>2
  <2>. HIDE DEF least
  <2>. QED
    BY <2>3 DEF Sets!SetSizes
<1>2. ~ \E c \in counts : x < c
  BY <1>1, DividesLess
<1>3. Sets!commonSetDriveCount(x, counts) = g[16].size
  BY <1>2 DEF Sets!commonSetDriveCount
<1>. HIDE DEF least
<1>4. First \in Best /\ \A b \in Best, n \in 4..16 : Then(b, n) \in Best
  <2>1. \A n \in 4..16 : x \div n \in Nat
    BY DivMod
  <2>. QED
    BY <2>1, <1>1
<1>. HIDE DEF Best, First, Then
<1>5. \E f : IsBest(f)
  <2>. DEFINE step == [i \in 3..(16 - 1) |-> [b \in Best |-> Then(b, i + 1)]]
  <2>1. step \in [3..(16 - 1) -> [Best -> Best]]
    BY <1>4
  <2>. HIDE DEF step
  <2>2. PICK f : IsRecursion(f, Best, First, 3, 16, step)
    <3>1. 3 \in Nat /\ 16 \in Nat /\ 3 <= 16
      OBVIOUS
    <3>. QED
      BY <1>4, <2>1, <3>1, Recursion, Zenon
  <2>3. ASSUME NEW n \in 3..16, n # 3 PROVE f[n] = Then(f[n - 1], n)
    <3>1. n - 1 \in 3..(16 - 1) /\ (n - 1) + 1 = n /\ f[n - 1] \in Best
      BY <2>2, <2>3 DEF IsRecursion
    <3>2. step[n - 1][f[n - 1]] = Then(f[n - 1], n)
      BY <3>1 DEF step
    <3>3. f[(n - 1) + 1] = step[n - 1][f[n - 1]]
      BY <3>1, <2>2 DEF IsRecursion
    <3>. QED
      BY <3>1, <3>2, <3>3
  <2>4. IsBest(f)
    BY <2>2, <2>3 DEF IsRecursion
  <2>. HIDE DEF IsBest
  <2>. QED
    BY <2>4
<1>6. IsBest(g)
  <2>. HIDE DEF IsBest
  <2>. QED
    BY <1>5
<1>. HIDE DEF g
<1>7. g[3] = First /\ \A n \in 3..16 : n # 3 => g[n] = Then(g[n - 1], n)
  BY <1>6
(* The ratio is of a count reached, or of the least; the size is the       *)
(* largest count reached.                                                  *)
<1>. DEFINE OfCount(b, n) == \E m \in counts : (m <= n \/ m = least) /\ b.ratio = x \div m
            None(b, n) == b.size = 0 /\ \A c \in counts : n < c
            Largest(b, n) ==
              b.size \in counts /\ b.size <= n /\ \A c \in counts : c <= n => c <= b.size
            T == {n \in Nat : OfCount(g[n], n) /\ (None(g[n], n) \/ Largest(g[n], n))}
<1>8. 3 \in T
  BY <1>1, <1>7 DEF First
<1>9. \A n \in 3..(16 - 1) : n \in T => n + 1 \in T
  <2>. SUFFICES ASSUME NEW n \in 3..(16 - 1), n \in T PROVE n + 1 \in T
    OBVIOUS
  <2>1. n + 1 \in 3..16 /\ n + 1 # 3 /\ (n + 1) - 1 = n /\ n + 1 \in Nat
    OBVIOUS
  <2>2. g[n + 1] = Then(g[n], n + 1)
    BY <1>7, <2>1
  <2>3. OfCount(g[n], n) /\ (None(g[n], n) \/ Largest(g[n], n))
    OBVIOUS
  <2>4. CASE n + 1 \in counts
    <3>1. PICK m \in counts : (m <= n \/ m = least) /\ g[n].ratio = x \div m
      BY <2>3
    <3>2. m <= n + 1
      BY <1>1, <2>4, <3>1
    <3>3. x \div (n + 1) <= g[n].ratio
      BY <1>1, <2>4, <3>1, <3>2, QuotientsDescend
    <3>4. g[n + 1] = [ratio |-> x \div (n + 1), size |-> n + 1]
      BY <2>2, <2>4, <3>3 DEF Then
    <3>5. OfCount(g[n + 1], n + 1)
      BY <2>4, <3>4
    <3>6. Largest(g[n + 1], n + 1)
      BY <1>1, <2>4, <3>4
    <3>. HIDE DEF OfCount, None, Largest
    <3>. QED
      BY <2>1, <3>5, <3>6
  <2>5. CASE n + 1 \notin counts
    <3>1. g[n + 1] = g[n]
      BY <2>2, <2>5 DEF Then
    <3>2. \A c \in counts : (c <= n + 1 => c <= n) /\ (n < c => n + 1 < c)
      BY <1>1, <2>5
    <3>3. OfCount(g[n + 1], n + 1)
      BY <2>3, <3>1, <1>1
    <3>4. None(g[n], n) => None(g[n + 1], n + 1)
      BY <3>1, <3>2
    <3>5. Largest(g[n], n) => Largest(g[n + 1], n + 1)
      BY <3>1, <3>2, <1>1
    <3>. HIDE DEF OfCount, None, Largest
    <3>. QED
      BY <2>1, <2>3, <3>3, <3>4, <3>5
  <2>. QED
    BY <2>4, <2>5
<1>10. 16 \in T
  <2>1. 3 \in Nat /\ 16 \in Nat /\ 16 \in 3..16
    OBVIOUS
  <2>. HIDE DEF T
  <2>2. \A n \in 3..16 : n \in T
    BY <2>1, <1>8, <1>9, InductionUpTo, Zenon
  <2>. QED
    BY <2>1, <2>2
<1>11. Largest(g[16], 16)
  BY <1>1, <1>10
<1>. QED
  BY <1>1, <1>3, <1>11

-----------------------------------------------------------------------------
(* The arguments are what they were, none empty.                           *)
ArgsTyped == args \in Seq(Seq(Nat \ {0}) \ {<<>>}) \ {<<>>}

LEMMA TotalsType ==
  ASSUME ArgsTyped
  PROVE  /\ Sets!getTotalSizes \in Seq(Nat \ {0}) \ {<<>>}
         /\ DOMAIN Sets!getTotalSizes = 1..Len(args) /\ Len(Sets!getTotalSizes) = Len(args)
         /\ Len(args) \in Nat \ {0}
<1>. DEFINE N == Len(args)
            totals == Sets!getTotalSizes
<1>1. N \in Nat \ {0} /\ DOMAIN args = 1..N /\ \A k \in 1..N : args[k] \in Seq(Nat \ {0})
  BY EmptySeq, LenProperties DEF ArgsTyped
<1>2. totals = [k \in 1..N |-> Sets!Product(args[k])]
  BY <1>1 DEF Sets!getTotalSizes
<1>. HIDE DEF N, totals
<1>3. totals \in [1..N -> Nat \ {0}]
  BY <1>1, <1>2, ProductType
<1>4. totals \in Seq(Nat \ {0}) /\ Len(totals) = N
  BY <1>1, <1>3, SeqDef
<1>. QED
  BY <1>1, <1>3, <1>4 DEF totals, N

LEMMA SetsInit == ASSUME Sets!Counts, Sets!Init PROVE ArgsTyped /\ Sets!SetsFit
<1>1. ASSUME NEW n \in Nat \ {0}, NEW S, NEW q \in [1..n -> S] PROVE q \in Seq(S) /\ q # <<>>
  BY <1>1, EmptySeq
<1>2. ASSUME NEW M \in Nat, NEW n \in 1..M PROVE n \in Nat \ {0}
  OBVIOUS
<1>3. ASSUME NEW arg \in Sets!Args PROVE arg \in Seq(Nat \ {0}) \ {<<>>}
  <2>1. PICK n \in 1..MaxPatterns : arg \in [1..n -> Lengths]
    BY DEF Sets!Args
  <2>2. n \in Nat \ {0} /\ arg \in [1..n -> Nat \ {0}]
    BY <2>1, <1>2 DEF Sets!Counts
  <2>. QED
    BY <2>2, <1>1
<1>4. ArgsTyped
  <2>1. PICK n \in 1..MaxArgs : args \in [1..n -> Sets!Args]
    BY DEF Sets!Init
  <2>2. n \in Nat \ {0} /\ args \in [1..n -> Seq(Nat \ {0}) \ {<<>>}]
    BY <2>1, <1>2, <1>3 DEF Sets!Counts
  <2>. QED
    BY <2>2, <1>1 DEF ArgsTyped
<1>5. Sets!SetsFit
  BY DEF Sets!Init, Sets!SetsFit
<1>. QED
  BY <1>4, <1>5

LEMMA SetsNext ==
  ASSUME ArgsTyped, Sets!SetsFit, [Sets!Next]_<<args, sets>>
  PROVE  ArgsTyped' /\ Sets!SetsFit'
<1>. USE DEF Sets!Next
<1>1. CASE UNCHANGED <<args, sets>>
  BY <1>1 DEF ArgsTyped, Sets!SetsFit, Sets!getTotalSizes, Sets!PossibleParityValues, Sets!Symmetric
<1>2. CASE Sets!getSetIndexes
  <2>. DEFINE totals == Sets!getTotalSizes
              common == Sets!getDivisibleSize(totals)
              counts == {s \in Sets!SetSizes : Sets!Divides(s, common) /\ Sets!Symmetric(s)}
              setSize == Sets!commonSetDriveCount(common, counts)
              N == Len(args)
  <2>1. /\ args' = args /\ totals' = totals
        /\ \A s : Sets!Symmetric(s)' <=> Sets!Symmetric(s)
    BY <1>2 DEF Sets!getSetIndexes, Sets!getTotalSizes, Sets!Symmetric
  <2>2. ArgsTyped'
    BY <2>1 DEF ArgsTyped
  <2>3. /\ totals \in Seq(Nat \ {0}) /\ totals # <<>> /\ DOMAIN totals = 1..N /\ Len(totals) = N
        /\ N \in Nat \ {0} /\ \A k \in 1..N : totals[k] \in Nat \ {0}
    BY TotalsType, LenProperties
  <2>4. /\ common \in Nat \ {0}
        /\ \A d \in Nat \ {0} :
             Sets!Divides(d, common) <=> \A k \in 1..N : Sets!Divides(d, totals[k])
    BY <2>3, DivisibleSize
  <2>5. CASE sets' = Sets!Error
    BY <2>5, <2>2 DEF Sets!SetsFit
  <2>6. CASE sets' # Sets!Error
    <3>1. /\ counts # {}
          /\ setSize \in Sets!SetSizes
          /\ sets' = [k \in 1..N |-> [j \in 1..(totals[k] \div setSize) |-> setSize]]
      BY <1>2, <2>3, <2>6 DEF Sets!getSetIndexes
    <3>2. counts \subseteq Sets!SetSizes /\ \A c \in counts : Sets!Divides(c, common)
      OBVIOUS
    <3>3. setSize \in counts /\ \A c \in counts : c <= setSize
      <4>. HIDE DEF counts, common
      <4>. QED
        BY <2>4, <3>1, <3>2, LargestCount
    <3>4. setSize \in Nat \ {0} /\ Sets!Divides(setSize, common)
      BY <3>1, <3>3 DEF Sets!SetSizes
    <3>. HIDE DEF setSize
    <3>5. ASSUME NEW k \in 1..N
          PROVE  /\ totals[k] \div setSize \in Nat \ {0}
                 /\ (totals[k] \div setSize) * setSize = totals[k]
      BY <2>3, <2>4, <3>4, ExactQuotient
    <3>6. ASSUME NEW k \in 1..N
          PROVE  /\ sets'[k] = [j \in 1..(totals[k] \div setSize) |-> setSize]
                 /\ Len(sets'[k]) = totals[k] \div setSize
                 /\ \A j \in DOMAIN sets'[k] : sets'[k][j] = setSize
      BY <3>1, <3>5
    <3>7. sets'[1][1] = setSize
      <4>1. 1 \in 1..N
        BY <2>3
      <4>2. 1 \in 1..(totals[1] \div setSize)
        BY <4>1, <3>5
      <4>. QED
        BY <4>1, <4>2, <3>6
    <3>8. ASSUME NEW s \in Sets!SetSizes, s > setSize, Sets!Symmetric(s)
          PROVE  \E k \in 1..N : ~Sets!Divides(s, totals[k])
      <4>1. s \in Nat \ {0}
        BY DEF Sets!SetSizes
      <4>2. s \notin counts
        BY <3>3, <3>4, <3>8, <4>1
      <4>3. ~Sets!Divides(s, common)
        BY <4>2, <3>8
      <4>. QED
        BY <2>4, <4>1, <4>3
    <3>9. \A p \in 2..16 : 2 * p <= setSize => setSize - p >= p
      BY <3>4
    <3>10. DOMAIN sets' = 1..N
      BY <3>1
    <3>. HIDE DEF totals, counts, common
    <3>. QED
      BY <2>1, <2>2, <2>3, <3>1, <3>5, <3>6, <3>7, <3>8, <3>9, <3>10
         DEF Sets!SetsFit, Sets!PossibleParityValues, totals
  <2>. QED
    BY <2>5, <2>6
<1>. QED
  BY <1>1, <1>2

(* However many arguments of whatever lengths: the sets fill all drives    *)
(* with one size the store supports, and no larger size would do.          *)
THEOREM SetsAlwaysFit == Sets!Spec => []SetsFit
<1>1. Sets!Init => ArgsTyped /\ Sets!SetsFit
  BY SetsInit, SetsAssumption
<1>2. ArgsTyped /\ Sets!SetsFit /\ [Sets!Next]_<<args, sets>> => (ArgsTyped /\ Sets!SetsFit)'
  BY SetsNext
<1>3. Sets!SetsFit => SetsFit
  BY DEF SetsFit
<1>. QED
  BY <1>1, <1>2, <1>3, PTL DEF Sets!Spec
=============================================================================
