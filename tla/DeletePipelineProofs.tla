------------------------- MODULE DeletePipelineProofs -------------------------
(***************************************************************************)
(* Every safety property of DeletePipeline, for buckets and requests of    *)
(* any size.                                                               *)
(*                                                                         *)
(* The argument: a target is only ever on its way from the listing to the  *)
(* bucket (offered, accepted, removed) and is asked for when it sets out   *)
(* (OnlyAsked, which needs to know what is being listed and which version  *)
(* was kept: ListsCurrent, VersionKept).  In the other direction, what was *)
(* asked of the file being deleted is removed, still on its way, or        *)
(* answered by an error that the handler has yet to receive (Accounted);   *)
(* the handler leaves the file only with the way empty (OverIsOver), so    *)
(* the files behind it are complete (FilesBehind).                         *)
(***************************************************************************)
EXTENDS DeletePipeline, SequenceTheorems, FiniteSetTheorems, TLAPS

(* What the listing of file n offers of the items S. *)
Offers(n, S) ==
  {Target(n, i.key, ListedVersion(i)) : i \in {j \in S : Passes(request.files[n], j)}}

Valid == ~ (request.allVersions /\ request.nonCurrent)

OverIsOver ==
  /\ remover = "over" => lister = "closed" /\ content = {} /\ accepted = {}
  /\ handler = "next" => remover \in {"none", "over"}
  /\ lister \in {"none", "closed"} => toList = {}

InRange == handler = "removing" \/ lister \in {"listing", "handing"} => file <= Len(request.files)

ListsCurrent ==
  lister \in {"listing", "handing"} =>
    /\ ~ BySingle(Current) /\ Valid /\ toList \subseteq Listed(Current)

VersionKept ==
  /\ handler = "next" => version = VersionAt(file - 1)
  /\ handler = "removing" => version = VersionAt(file)

OnlyAsked ==
  \A t \in content \cup accepted \cup removed : t.file <= file /\ t \in Asked(t.file)

Failed == {r.target : r \in {s \in results : s.error}}

Way == removed \cup accepted \cup content \cup Offers(file, toList) \cup Failed

Accounted ==
  (connected /\ handler = "removing") => file \in brokenOff \/ Asked(file) \subseteq Way

FilesBehind ==
  /\ connected => \A n \in 1..(file - 1) : Complete(n)
  /\ handler = "ok" => file = Len(request.files) + 1

IInv ==
  /\ TypeOK /\ OverIsOver /\ NothingLeftBehind /\ InRange /\ ListsCurrent
  /\ VersionKept /\ OnlyAsked /\ Accounted /\ FilesBehind

-----------------------------------------------------------------------------
(* Requests, and what they come to.                                        *)

(* The files of a request are a sequence of files. *)
LEMMA RequestShape ==
  ASSUME request \in Requests
  PROVE  /\ request.files \in Seq(Files) /\ Len(request.files) \in Nat
         /\ request.allVersions \in BOOLEAN /\ request.nonCurrent \in BOOLEAN
         /\ \A n \in 1..Len(request.files) :
              /\ request.files[n] \in Files
              /\ request.files[n].path \in Paths /\ request.files[n].version \in Asking
              /\ request.files[n].recursive \in BOOLEAN
<1>1. /\ request.files \in {<<f>> : f \in Files} \cup UNION {[1..n -> Files] : n \in 0..MaxFiles}
      /\ request.allVersions \in BOOLEAN /\ request.nonCurrent \in BOOLEAN
  BY DEF Requests
<1>2. request.files \in Seq(Files)
  <2>1. CASE request.files \in {<<f>> : f \in Files}
    <3>1. PICK f \in Files : request.files = <<f>>
      BY <2>1
    <3>2. <<f>> \in Seq(Files)
      OBVIOUS
    <3> QED
      BY <3>1, <3>2
  <2>2. CASE \E n \in 0..MaxFiles : request.files \in [1..n -> Files]
    BY <2>2, DeleteAssumption, IsASeq
  <2> QED
    BY <1>1, <2>1, <2>2
<1>3. Len(request.files) \in Nat /\ \A n \in 1..Len(request.files) : request.files[n] \in Files
  BY <1>2, LenProperties, ElementOfSeq
<1> QED
  BY <1>1, <1>2, <1>3 DEF Files

(* The request does not change, nor what is defined from it alone. *)
LEMMA Fixed ==
  ASSUME request' = request
  PROVE  /\ \A n : Asked(n)' = Asked(n) /\ VersionAt(n)' = VersionAt(n)
         /\ \A n, S : Offers(n, S)' = Offers(n, S)
         /\ \A f : Listed(f)' = Listed(f) /\ BySingle(f)' = BySingle(f)
         /\ \A f, i : Passes(f, i)' = Passes(f, i)
         /\ Valid' = Valid /\ Targets' = Targets
BY DEF Asked, VersionAt, Offers, Listed, BySingle, Passes, ListedVersion, Valid, Targets

(* The last version named is the file's own, or the one kept before it. *)
LEMMA KeptVersion ==
  ASSUME request \in Requests, NEW n \in 1..Len(request.files)
  PROVE  /\ VersionAt(0) = NoVersion
         /\ VersionAt(n) = IF request.files[n].version # NoVersion
                           THEN request.files[n].version ELSE VersionAt(n - 1)
<1> DEFINE Named(k) == {m \in 1..k : request.files[m].version # NoVersion}
           Last(k) == CHOOSE m \in Named(k) : \A l \in Named(k) : l <= m
<1>1. n \in Nat \ {0}
  BY RequestShape
<1>2. \A k : VersionAt(k) = IF Named(k) = {} THEN NoVersion ELSE request.files[Last(k)].version
  BY DEF VersionAt
<1>3. VersionAt(0) = NoVersion
  <2>1. Named(0) = {}
    OBVIOUS
  <2> QED
    BY <1>2, <2>1
<1>4. CASE request.files[n].version # NoVersion
  <2>1. n \in Named(n) /\ \A l \in Named(n) : l <= n
    BY <1>1, <1>4
  <2>2. Last(n) = n
    <3>1. Last(n) \in Named(n) /\ \A l \in Named(n) : l <= Last(n)
      BY <2>1
    <3>2. n <= Last(n) /\ Last(n) <= n /\ Last(n) \in Nat
      BY <1>1, <2>1, <3>1
    <3> QED
      BY <1>1, <3>2
  <2>3. Named(n) # {}
    BY <2>1
  <2> HIDE DEF Named, Last
  <2> QED
    BY <1>2, <1>3, <1>4, <2>2, <2>3
<1>5. CASE request.files[n].version = NoVersion
  <2>1. Named(n) = Named(n - 1)
    BY <1>1, <1>5
  <2>2. VersionAt(n) = VersionAt(n - 1)
    <3>1. Last(n) = Last(n - 1)
      BY <2>1
    <3> HIDE DEF Named, Last
    <3> QED
      BY <1>2, <2>1, <3>1
  <2> QED
    BY <1>3, <1>5, <2>2
<1> QED
  BY <1>4, <1>5

(* A listing that does not break off offers what is asked of its file, and *)
(* a file that is not listed asks for one object.                          *)
LEMMA AskedIsOffered ==
  ASSUME request \in Requests, NEW n \in 1..Len(request.files), Valid
  PROVE  Asked(n) = IF BySingle(request.files[n])
                    THEN {Target(n, request.files[n].path, VersionAt(n))}
                    ELSE Offers(n, Listed(request.files[n]))
<1> DEFINE f == request.files[n]
<1>1. /\ request.allVersions \in BOOLEAN /\ request.nonCurrent \in BOOLEAN
      /\ f.recursive \in BOOLEAN
  BY RequestShape
<1>2. CASE request.nonCurrent
  BY <1>1, <1>2 DEF Asked, Offers, Listed, BySingle, Passes, ListedVersion, Valid
<1>3. CASE ~ request.nonCurrent /\ request.allVersions
  BY <1>1, <1>3 DEF Asked, Offers, Listed, BySingle, Passes, ListedVersion
<1>4. CASE ~ request.nonCurrent /\ ~ request.allVersions /\ f.recursive
  BY <1>1, <1>4 DEF Asked, Offers, Listed, BySingle, Passes, ListedVersion
<1>5. CASE ~ request.nonCurrent /\ ~ request.allVersions /\ ~ f.recursive
  BY <1>1, <1>5 DEF Asked, BySingle
<1> QED
  BY <1>1, <1>2, <1>3, <1>4, <1>5

-----------------------------------------------------------------------------
(* The invariant.                                                          *)

LEMMA Initially == Init => IInv
<1> SUFFICES ASSUME Init PROVE IInv
  OBVIOUS
<1>1. /\ Len(request.files) \in Nat /\ request \in Requests
      /\ 1 \in 1..(Len(request.files) + 1)
  BY RequestShape DEF Init
<1>2. TypeOK
  BY <1>1, DeleteAssumption DEF Init, TypeOK, Versions
<1>3. OverIsOver /\ NothingLeftBehind /\ InRange /\ ListsCurrent /\ OnlyAsked /\ Accounted
  BY DEF Init, OverIsOver, NothingLeftBehind, InRange, ListsCurrent, OnlyAsked, Accounted
<1>4. VersionKept
  <2>1. VersionAt(0) = NoVersion
    BY DEF VersionAt
  <2> QED
    BY <2>1 DEF Init, VersionKept
<1>5. FilesBehind
  BY DEF Init, FilesBehind
<1> QED
  BY <1>2, <1>3, <1>4, <1>5 DEF IInv

(* What a step keeps that stays with the file, gives nothing up that is on *)
(* its way, and adds to it only what is asked for.                         *)
LEMMA SameFile ==
  ASSUME IInv, UNCHANGED <<request, file, version>>,
         \/ handler' = handler
         \/ handler' = "error"
         \/ handler' = "ok" /\ file = Len(request.files) + 1,
         connected' => connected, removed \subseteq removed', brokenOff \subseteq brokenOff',
         \A t \in content' \cup accepted' \cup removed' :
           \/ t \in content \cup accepted \cup removed
           \/ t.file = file /\ t \in Asked(file),
         \/ Way \subseteq Way'
         \/ file \in brokenOff'
         \/ ~ (connected' /\ handler' = "removing")
  PROVE  VersionKept' /\ OnlyAsked' /\ Accounted' /\ FilesBehind'
<1>a. /\ \A n : Asked(n)' = Asked(n) /\ VersionAt(n)' = VersionAt(n)
      /\ file \in Int
  BY Fixed, RequestShape DEF IInv, TypeOK
<1>1. VersionKept'
  BY <1>a DEF IInv, VersionKept
<1>2. OnlyAsked'
  BY <1>a DEF IInv, OnlyAsked
<1>3. Accounted'
  BY <1>a DEF IInv, Accounted
<1>4. FilesBehind'
  <2>1. \A n : Complete(n) => Complete(n)'
    BY <1>a DEF Complete
  <2> QED
    BY <2>1 DEF IInv, FilesBehind
<1> QED
  BY <1>1, <1>2, <1>3, <1>4

(* Where the targets are and what is listed, apart from the way they take. *)
Control == TypeOK /\ OverIsOver /\ NothingLeftBehind /\ InRange /\ ListsCurrent

(* The handler answers, and the goroutines are left to end by themselves.  *)
LEMMA AnswerStep == ASSUME IInv, Refuse \/ AllDone PROVE IInv'
<1>1. /\ handler = "next" /\ UNCHANGED <<request, connected, file, version, lists, removal>>
      /\ \/ handler' = "error"
         \/ handler' = "ok" /\ file = Len(request.files) + 1
  BY RequestShape DEF IInv, TypeOK, Refuse, AllDone, Answer
<1>2. Control'
  BY <1>1, Fixed DEF IInv, TypeOK, OverIsOver, NothingLeftBehind, InRange, ListsCurrent, Control,
                     Current, lists, removal
<1>3. Way' = Way
  BY <1>1, Fixed DEF Way, Failed, lists, removal
<1>4. VersionKept' /\ OnlyAsked' /\ Accounted' /\ FilesBehind'
  BY <1>1, <1>3, SameFile DEF lists, removal
<1> QED
  BY <1>2, <1>4 DEF IInv, Control

(* The handler receives a result: an error is its answer, and any other is *)
(* on nobody's way.                                                        *)
LEMMA ReceiveStep == ASSUME IInv, NEW r \in results, Receive(r) PROVE IInv'
<1>1. /\ handler = "removing" /\ results' = results \ {r} /\ r.error \in BOOLEAN
      /\ handler' = IF r.error THEN "error" ELSE handler
      /\ UNCHANGED <<request, connected, file, version, lists, remover, accepted, removed>>
  BY DEF Receive, IInv, TypeOK
<1>2. Control'
  BY <1>1, Fixed DEF IInv, TypeOK, OverIsOver, NothingLeftBehind, InRange, ListsCurrent, Control,
                     Current, lists
<1>3. Way \subseteq Way' \/ handler' = "error"
  BY <1>1, Fixed DEF Way, Failed, lists
<1>4. VersionKept' /\ OnlyAsked' /\ Accounted' /\ FilesBehind'
  BY <1>1, <1>3, SameFile DEF lists
<1> QED
  BY <1>2, <1>4 DEF IInv, Control

(* The lister takes an item up: its target is asked for.                   *)
LEMMA ListStep == ASSUME IInv, NEW i \in Items, List(i) PROVE IInv'
<1> DEFINE t == Target(file, i.key, ListedVersion(i))
<1>1. /\ lister = "listing" /\ i \in toList /\ content = {} /\ toList' = toList \ {i}
      /\ UNCHANGED <<request, connected, control, brokenOff, removal>>
  BY DEF List, IInv, TypeOK
<1>2. \/ Passes(Current, i) /\ lister' = "handing" /\ content' = {t}
      \/ ~ Passes(Current, i) /\ UNCHANGED <<lister, content>>
  BY DEF List
<1>3. /\ file \in 1..Len(request.files) /\ Valid /\ ~ BySingle(Current)
      /\ toList \subseteq Listed(Current) /\ handler # "next"
  BY <1>1, RequestShape DEF IInv, TypeOK, InRange, ListsCurrent, NothingLeftBehind
<1>4. Passes(Current, i) => t \in Asked(file)
  BY <1>1, <1>3, AskedIsOffered DEF IInv, TypeOK, Offers, Current
<1>5. t \in Targets
  BY <1>3, RequestShape, DeleteAssumption DEF IInv, TypeOK, Targets, Target, ListedVersion, Versions
<1>6. Control'
  BY <1>1, <1>2, <1>3, <1>5, Fixed DEF IInv, TypeOK, OverIsOver, NothingLeftBehind, InRange,
                     ListsCurrent, Control, Current, control, removal
<1>7. Way \subseteq Way'
  <2>1. Offers(file, toList) \subseteq Offers(file, toList') \cup content'
    BY <1>1, <1>2 DEF Offers, Current
  <2> QED
    BY <1>1, <2>1, Fixed DEF Way, Failed, control, removal
<1>8. VersionKept' /\ OnlyAsked' /\ Accounted' /\ FilesBehind'
  <2>1. t.file = file
    BY DEF Target
  <2> HIDE DEF t
  <2> QED
    BY <1>1, <1>2, <1>4, <1>7, <2>1, SameFile DEF control, removal
<1> QED
  BY <1>6, <1>8 DEF IInv, Control

(* The listing ends, breaks off, or is given up because the handler has    *)
(* returned or the client is gone.                                         *)
LEMMA ListerEndStep == ASSUME IInv, ListingBreaksOff \/ ListingOver \/ GiveUp PROVE IInv'
<1>1. /\ lister \in {"listing", "handing"} /\ lister' = "closed" /\ toList' = {} /\ content' = {}
      /\ brokenOff' \in {brokenOff, brokenOff \cup {file}}
      /\ UNCHANGED <<request, connected, control, removal>>
  BY DEF ListingBreaksOff, ListingOver, GiveUp, IInv, TypeOK
<1>2. file \in 1..Len(request.files)
  BY <1>1, RequestShape DEF IInv, TypeOK, InRange
<1>3. Control'
  BY <1>1, <1>2, Fixed DEF IInv, TypeOK, OverIsOver, NothingLeftBehind, InRange,
                     ListsCurrent, Control, Current, control, removal
<1>4. \/ Way \subseteq Way'
      \/ file \in brokenOff'
      \/ ~ (connected' /\ handler' = "removing")
  <2>1. CASE ListingBreaksOff
    BY <2>1 DEF ListingBreaksOff
  <2>2. CASE ListingOver
    BY <1>1, <2>2, Fixed DEF ListingOver, IInv, TypeOK, Way, Failed, control, removal
  <2>3. CASE GiveUp
    BY <1>1, <2>3 DEF GiveUp, ListerCancelled, control
  <2> QED
    BY <2>1, <2>2, <2>3
<1>5. VersionKept' /\ OnlyAsked' /\ Accounted' /\ FilesBehind'
  BY <1>1, <1>4, SameFile DEF control, removal
<1> QED
  BY <1>3, <1>5 DEF IInv, Control

(* The remover takes the target offered, removes it, fails to, ends or     *)
(* stops: the target stays on its way or becomes an error.                 *)
LEMMA HandOverStep == ASSUME IInv, HandOver PROVE IInv'
<1>1. /\ remover = "taking" /\ content # {} /\ accepted' = accepted \cup content /\ content' = {}
      /\ lister' = IF lister = "handing" THEN "listing" ELSE lister
      /\ UNCHANGED <<request, connected, control, toList, brokenOff, remover, results, removed>>
  BY DEF HandOver
<1>2. handler # "next"
  BY <1>1 DEF IInv, NothingLeftBehind
<1>3. Control'
  BY <1>1, <1>2, Fixed DEF IInv, TypeOK, OverIsOver, NothingLeftBehind, InRange,
                     ListsCurrent, Control, Current, control
<1>4. Way \subseteq Way'
  BY <1>1, Fixed DEF Way, Failed, control
<1>5. VersionKept' /\ OnlyAsked' /\ Accounted' /\ FilesBehind'
  BY <1>1, <1>4, SameFile DEF control
<1> QED
  BY <1>3, <1>5 DEF IInv, Control

LEMMA RemovalStep ==
  ASSUME IInv, NEW t \in accepted, Remove(t) \/ RemoveFails(t)
  PROVE  IInv'
<1>1. /\ accepted' = accepted \ {t}
      /\ UNCHANGED <<request, connected, control, lists, remover>>
      /\ \/ removed' = removed \cup {t} /\ results' = results \cup {[target |-> t, error |-> FALSE]}
         \/ removed' = removed /\ results' = results \cup {[target |-> t, error |-> TRUE]}
  BY DEF Remove, RemoveFails
<1>2. handler # "next"
  BY DEF IInv, NothingLeftBehind
<1>3. Control'
  <2>1. \A r \in results' : r.error \in BOOLEAN
    <3>1. \A r \in results' : r \in results \/ r.error = TRUE \/ r.error = FALSE
      BY <1>1
    <3> QED
      BY <3>1 DEF IInv, TypeOK
  <2>2. accepted' \subseteq accepted /\ removed' \subseteq removed \cup accepted
    BY <1>1
  <2>3. TypeOK'
    BY <1>1, <2>1, <2>2, Fixed DEF IInv, TypeOK, control, lists
  <2> QED
    BY <1>1, <1>2, <2>3, Fixed DEF IInv, OverIsOver, NothingLeftBehind, InRange,
                       ListsCurrent, Control, Current, control, lists
<1>4. Way \subseteq Way'
  <2>1. Failed \subseteq Failed'
    BY <1>1 DEF Failed
  <2>2. t \in removed' \/ t \in Failed'
    <3>1. CASE results' = results \cup {[target |-> t, error |-> TRUE]}
      <4> DEFINE r == [target |-> t, error |-> TRUE]
      <4>1. r \in results' /\ r.error /\ r.target = t
        BY <3>1
      <4> HIDE DEF r
      <4> QED
        BY <4>1 DEF Failed
    <3> QED
      BY <1>1, <3>1
  <2> QED
    BY <1>1, <2>1, <2>2, Fixed DEF Way, control, lists
<1>5. VersionKept' /\ OnlyAsked' /\ Accounted' /\ FilesBehind'
  BY <1>1, <1>4, SameFile DEF control, lists
<1> QED
  BY <1>3, <1>5 DEF IInv, Control

LEMMA RemoverEndStep == ASSUME IInv, RemoverOver \/ RemoverStops \/ Disconnect PROVE IInv'
<1>1. /\ UNCHANGED <<request, control, lists, accepted, removed>>
      /\ connected' \in {connected, FALSE} /\ results \subseteq results'
      /\ \A r \in results' : r \in results \/ (r.error = TRUE /\ remover = "taking")
      /\ \/ remover' = remover
         \/ remover = "taking" /\ remover' = "stopped"
         \/ /\ remover = "taking" /\ remover' = "over"
            /\ lister = "closed" /\ content = {} /\ accepted = {}
  <2>1. CASE RemoverOver
    BY <2>1 DEF RemoverOver
  <2>2. CASE RemoverStops
    <3>1. \A r \in results' : r \in results \/ r.error = TRUE
      BY <2>2 DEF RemoverStops
    <3> QED
      BY <2>2, <3>1 DEF RemoverStops
  <2>3. CASE Disconnect
    BY <2>3 DEF Disconnect, removal
  <2> QED
    BY <2>1, <2>2, <2>3
<1>2. Control'
  <2>1. \A r \in results' : r.error \in BOOLEAN
    BY <1>1 DEF IInv, TypeOK
  <2>2. connected' \in BOOLEAN
    BY <1>1 DEF IInv, TypeOK
  <2>3. TypeOK'
    BY <1>1, <2>1, <2>2, Fixed DEF IInv, TypeOK, control, lists
  <2> QED
    BY <1>1, <2>3, Fixed DEF IInv, TypeOK, OverIsOver, NothingLeftBehind, InRange,
                     ListsCurrent, Control, Current, control, lists
<1>3. Way \subseteq Way'
  BY <1>1, Fixed DEF Way, Failed, control, lists
<1>4. VersionKept' /\ OnlyAsked' /\ Accounted' /\ FilesBehind'
  <2>1. connected' => connected
    BY <1>1
  <2> QED
    BY <1>1, <1>3, <2>1, SameFile DEF control, lists
<1> QED
  BY <1>2, <1>4 DEF IInv, Control

(* A file is done: nothing of it is on its way, so what was asked of it is *)
(* removed, or its listing broke off.                                      *)
LEMMA FileDoneStep == ASSUME IInv, FileDone PROVE IInv'
<1>1. /\ handler = "removing" /\ remover = "over" /\ results = {}
      /\ handler' = "next" /\ file' = file + 1
      /\ UNCHANGED <<request, connected, version, lists, removal>>
      /\ lister = "closed" /\ content = {} /\ accepted = {} /\ toList = {}
  BY DEF FileDone, IInv, OverIsOver
<1>2. file \in 1..Len(request.files) /\ Len(request.files) \in Nat
  BY <1>1, RequestShape DEF IInv, TypeOK, InRange
<1>3. Control'
  BY <1>1, <1>2, Fixed DEF IInv, TypeOK, OverIsOver, NothingLeftBehind, InRange,
                     ListsCurrent, Control, Current, lists, removal
<1>4. VersionKept'
  BY <1>1, <1>2, Fixed DEF IInv, VersionKept
<1>5. OnlyAsked'
  BY <1>1, <1>2, Fixed DEF IInv, OnlyAsked, TypeOK, Targets, lists, removal
<1>6. Accounted'
  BY <1>1 DEF Accounted
<1>7. FilesBehind'
  <2>1. connected => Complete(file)
    BY <1>1 DEF IInv, Accounted, Way, Offers, Failed, Complete
  <2>2. \A n : Complete(n)' = Complete(n)
    BY <1>1, Fixed DEF Complete, lists, removal
  <2>3. \A n \in 1..(file' - 1) : n \in 1..(file - 1) \/ n = file
    BY <1>1, <1>2
  <2> QED
    BY <1>1, <2>1, <2>2, <2>3 DEF IInv, FilesBehind
<1> QED
  BY <1>3, <1>4, <1>5, <1>6, <1>7 DEF IInv, Control

(* The next file: all that is asked of it is offered, or is to be listed.  *)
LEMMA StartStep == ASSUME IInv, Start PROVE IInv'
<1>1. /\ handler = "next" /\ Valid /\ handler' = "removing" /\ remover' = "taking"
      /\ accepted' = {} /\ results' = {}
      /\ UNCHANGED <<request, connected, file, brokenOff, removed>>
      /\ version' = IF Current.version # NoVersion THEN Current.version ELSE version
      /\ \/ /\ BySingle(Current) /\ lister' = "closed" /\ toList' = {}
            /\ content' = {Target(file, Current.path, version')}
         \/ /\ ~ BySingle(Current) /\ lister' = "listing" /\ content' = {}
            /\ toList' = Listed(Current)
  BY DEF Start, Valid
<1>2. /\ file \in 1..Len(request.files) /\ Len(request.files) \in Nat
      /\ Current.path \in Paths /\ Current.version \in Asking
  BY RequestShape DEF IInv, TypeOK, Start, Current
<1>3. version' \in Versions /\ version' = VersionAt(file)
  BY <1>1, <1>2, KeptVersion DEF IInv, TypeOK, VersionKept, Current, Versions
<1>4. Target(file, Current.path, version') \in Targets
  BY <1>2, <1>3 DEF Targets, Target
<1>5. Listed(Current) \subseteq Items
  BY DEF Listed
<1>6. TypeOK'
  BY <1>1, <1>2, <1>3, <1>4, <1>5, Fixed DEF IInv, TypeOK
<1>7. OverIsOver' /\ NothingLeftBehind' /\ InRange' /\ ListsCurrent'
  BY <1>1, <1>2, Fixed DEF OverIsOver, NothingLeftBehind, InRange, ListsCurrent, Current
<1>8. VersionKept'
  BY <1>1, <1>3, Fixed DEF VersionKept
<1>9. Asked(file) = IF BySingle(Current) THEN content' ELSE Offers(file, toList')
  BY <1>1, <1>2, <1>3, AskedIsOffered DEF IInv, TypeOK, Current
<1>10. OnlyAsked'
  <2>1. \A u \in content' : u.file = file /\ u \in Asked(file)
    BY <1>1, <1>9 DEF Target
  <2> QED
    BY <1>1, <1>2, <2>1, Fixed DEF IInv, OnlyAsked
<1>11. Accounted'
  BY <1>1, <1>9, Fixed DEF Accounted, Way
<1>12. FilesBehind'
  BY <1>1, Fixed DEF IInv, FilesBehind, Complete
<1> QED
  BY <1>6, <1>7, <1>8, <1>10, <1>11, <1>12 DEF IInv

LEMMA Inductive == IInv /\ [Next]_vars => IInv'
<1> SUFFICES ASSUME IInv, [Next]_vars PROVE IInv'
  OBVIOUS
<1>1. CASE Refuse \/ AllDone
  BY <1>1, AnswerStep
<1>2. CASE Start
  BY <1>2, StartStep
<1>3. CASE \E r \in results : Receive(r)
  BY <1>3, ReceiveStep
<1>4. CASE FileDone
  BY <1>4, FileDoneStep
<1>5. CASE \E i \in Items : List(i)
  BY <1>5, ListStep
<1>6. CASE ListingBreaksOff \/ ListingOver \/ GiveUp
  BY <1>6, ListerEndStep
<1>7. CASE HandOver
  BY <1>7, HandOverStep
<1>8. CASE \E t \in accepted : Remove(t) \/ RemoveFails(t)
  BY <1>8, RemovalStep
<1>9. CASE RemoverOver \/ RemoverStops \/ Disconnect
  BY <1>9, RemoverEndStep
<1>10. CASE UNCHANGED vars
  <2>1. UNCHANGED <<request, connected, handler, file, version>> /\ UNCHANGED lists
        /\ UNCHANGED removal
    BY <1>10 DEF vars, control
  <2>2. Control'
    BY <2>1, Fixed DEF IInv, TypeOK, OverIsOver, NothingLeftBehind, InRange,
                       ListsCurrent, Control, Current, lists, removal
  <2>3. Way' = Way
    BY <2>1, Fixed DEF Way, Failed, lists, removal
  <2>4. VersionKept' /\ OnlyAsked' /\ Accounted' /\ FilesBehind'
    BY <2>1, <2>3, SameFile DEF lists, removal
  <2> QED
    BY <2>2, <2>4 DEF IInv, Control
<1> QED
  BY <1>1, <1>2, <1>3, <1>4, <1>5, <1>6, <1>7, <1>8, <1>9, <1>10 DEF Next

LEMMA Always == Spec => []IInv
BY Initially, Inductive, PTL DEF Spec

-----------------------------------------------------------------------------
(* Theorems.                                                               *)

(* The variables keep their types, and the channel of a lister that is not *)
(* handing anything over is empty (deleteMultipleObjects' contentCh).      *)
THEOREM TypeCorrect == Spec => []TypeOK
<1>1. IInv => TypeOK
  BY DEF IInv
<1> QED
  BY <1>1, Always, PTL

(* Nothing is removed from the bucket but what the request comes to,       *)
(* whatever breaks off, fails or is cancelled, for any bucket and request. *)
THEOREM RemovesAsAsked == Spec => []RemovedAsAsked
<1>1. IInv => RemovedAsAsked
  BY DEF IInv, OnlyAsked, RemovedAsAsked
<1> QED
  BY <1>1, Always, PTL

(* The goroutines of two files of a request never overlap.                 *)
THEOREM FilesApart == Spec => []NothingLeftBehind
<1>1. IInv => NothingLeftBehind
  BY DEF IInv
<1> QED
  BY <1>1, Always, PTL

(* Nothing of a file reaches the remover before the files ahead of it are  *)
(* complete, so an error leaves the files behind it untouched.             *)
THEOREM InFileOrder == Spec => []FilesInOrder
<1>1. IInv => FilesInOrder
  <2> SUFFICES ASSUME IInv, connected, NEW t \in removed \cup accepted,
                      NEW n \in 1..(t.file - 1)
               PROVE  Complete(n)
    BY DEF FilesInOrder
  <2>1. t.file <= file /\ t.file \in Nat /\ file \in Nat
    BY RequestShape DEF IInv, TypeOK, OnlyAsked, Targets
  <2>2. n \in 1..(file - 1)
    BY <2>1
  <2> QED
    BY <2>2 DEF IInv, FilesBehind
<1> QED
  BY <1>1, Always, PTL

(* A client that is still there and is answered without an error has had   *)
(* everything removed that the listings found.                             *)
THEOREM SuccessComplete == Spec => []SuccessIsComplete
<1>1. IInv => SuccessIsComplete
  BY RequestShape DEF IInv, TypeOK, FilesBehind, SuccessIsComplete
<1> QED
  BY <1>1, Always, PTL

-----------------------------------------------------------------------------
(* Nothing waits for ever, and nothing goes on for ever: what RequestEnds  *)
(* rests on besides fairness.                                              *)

Over == Answered /\ lister \in {"none", "closed"}

(* Where some goroutine can go on: the guards of Handler, Lister, Remover  *)
(* and RemoverStops.                                                       *)
CanGoOn ==
  \/ handler = "next" /\ (file = 1 \/ Valid)
  \/ handler = "removing" /\ (results # {} \/ remover = "over")
  \/ lister = "listing"
  \/ lister = "handing" /\ ListerCancelled
  \/ accepted # {}
  \/ remover = "taking" /\ \/ content # {}
                           \/ lister = "closed" /\ accepted = {}
                           \/ ~ connected \/ Answered

NeverStuck == Over \/ CanGoOn

(* How far the handler is, and how much the file it is at still takes: an  *)
(* item is listed, handed over, removed or not, and reported.              *)
LastStage == 2 * Len(request.files) + 4
Stage ==
  IF handler = "next" THEN 2 * file ELSE IF handler = "removing" THEN 2 * file + 1 ELSE LastStage
Work ==
  4 * Cardinality(toList) + 3 * Cardinality(content) + 2 * Cardinality(accepted)
  + Cardinality(results)
  + (IF lister \in {"listing", "handing"} THEN 1 ELSE 0)
  + (IF remover = "taking" THEN 2 ELSE 0)
  + (IF connected THEN 1 ELSE 0)
Measured == Stage \in 0..LastStage /\ LastStage \in Nat /\ Work \in Nat
NearerToEnd == Stage' > Stage \/ (Stage' = Stage /\ Work' < Work)

(* A file is being removed by goroutines that were started, and a remover  *)
(* that stopped left an error to be received.                              *)
Going ==
  /\ handler = "next" => file = 1 \/ Valid
  /\ handler = "removing" => Valid /\ lister # "none" /\ remover # "none"
  /\ handler = "removing" /\ remover = "stopped" => \E r \in results : r.error

LEMMA GoingInit == Init => Going
BY DEF Init, Going

LEMMA GoingStep == IInv /\ Going /\ [Next]_vars => Going'
<1> SUFFICES ASSUME IInv, Going, [Next]_vars PROVE Going'
  OBVIOUS
<1> USE Fixed
<1>1. CASE Refuse \/ AllDone
  BY <1>1 DEF Refuse, AllDone, Answer, Going, lists, removal
<1>2. CASE Start
  BY <1>2 DEF Start, Going, Valid
<1>3. ASSUME NEW r \in results, Receive(r) PROVE Going'
  <2>1. r.error \/ \A s \in results : s.error => s \in results'
    BY <1>3 DEF Receive
  <2> QED
    BY <1>3, <2>1 DEF Receive, Going, lists
<1>4. CASE FileDone
  BY <1>4 DEF FileDone, Going
<1>5. CASE \E i \in Items : List(i)
  BY <1>5 DEF List, Going, control, removal
<1>6. CASE ListingBreaksOff \/ ListingOver \/ GiveUp
  BY <1>6 DEF ListingBreaksOff, ListingOver, GiveUp, Going, control, removal
<1>7. CASE HandOver
  BY <1>7 DEF HandOver, Going, control
<1>8. CASE \E t \in accepted : Remove(t) \/ RemoveFails(t)
  BY <1>8 DEF Remove, RemoveFails, Going, control, lists
<1>9. CASE RemoverOver
  BY <1>9 DEF RemoverOver, Going, control, lists
<1>10. CASE RemoverStops
  <2> DEFINE e == [target |-> Target(file, NoVersion, NoVersion), error |-> TRUE]
  <2>1. e \in results' /\ e.error
    BY <1>10 DEF RemoverStops
  <2> HIDE DEF e
  <2> QED
    BY <1>10, <2>1 DEF RemoverStops, Going, control, lists
<1>11. CASE Disconnect
  BY <1>11 DEF Disconnect, Going, control, lists, removal
<1>12. CASE UNCHANGED vars
  BY <1>12 DEF vars, Going, control, lists, removal
<1> QED
  BY <1>1, <1>2, <1>3, <1>4, <1>5, <1>6, <1>7, <1>8, <1>9, <1>10, <1>11, <1>12 DEF Next

(* Until the request is answered and its last lister has ended, some       *)
(* goroutine can go on: the handler, the lister and the remover never all  *)
(* wait for each other, wherever the client goes away (the select of the   *)
(* lister's goroutine, user_objects.go:779, and the channel of results).   *)
THEOREM NoOneStuck == Spec => []NeverStuck
<1>1. IInv /\ Going => NeverStuck
  <2> SUFFICES ASSUME IInv, Going, ~ CanGoOn PROVE Over
    BY DEF NeverStuck
  <2>1. handler \in {"removing", "ok", "error"}
    BY DEF IInv, TypeOK, Going, CanGoOn
  <2>2. handler # "removing"
    <3> SUFFICES ASSUME handler = "removing" PROVE FALSE
      OBVIOUS
    <3>1. remover = "taking"
      BY DEF IInv, TypeOK, Going, CanGoOn
    <3>2. lister # "closed" /\ lister # "listing" /\ content = {}
      BY <3>1 DEF CanGoOn
    <3> QED
      BY <3>2 DEF IInv, TypeOK, Going
  <2> QED
    BY <2>1, <2>2 DEF IInv, TypeOK, CanGoOn, Over, Answered, ListerCancelled
<1> QED
  BY <1>1, GoingInit, GoingStep, Initially, Inductive, PTL DEF Spec

(* What is counted is finite where the bucket is. *)
Finite ==
  /\ IsFiniteSet(toList) /\ IsFiniteSet(content) /\ IsFiniteSet(accepted)
  /\ IsFiniteSet(results)

LEMMA FiniteInit == Init => Finite
BY FS_EmptySet DEF Init, Finite

LEMMA FiniteStep == ASSUME IsFiniteSet(Items), IInv, Finite, [Next]_vars PROVE Finite'
<1> USE FS_EmptySet, FS_Singleton, FS_AddElement, FS_RemoveElement
<1>1. IsFiniteSet(toList')
  BY FS_Subset, Inductive DEF IInv, TypeOK
<1>2. IsFiniteSet(content')
  BY Inductive DEF IInv, TypeOK
<1>3. IsFiniteSet(accepted')
  <2>1. CASE HandOver
    BY <2>1, FS_Union DEF HandOver, Finite
  <2>2. accepted' \subseteq accepted \/ HandOver
    BY DEF Next, vars, Refuse, AllDone, Answer, Start, Receive, FileDone, List, ListingBreaksOff,
           ListingOver, GiveUp, Remove, RemoveFails, RemoverOver, RemoverStops, Disconnect, removal
  <2> QED
    BY <2>1, <2>2, FS_Subset DEF Finite
<1>4. IsFiniteSet(results')
  <2>1. results' \subseteq results \/ \E r : results' = results \cup {r}
    BY DEF Next, vars, Refuse, AllDone, Answer, Start, Receive, FileDone, List, ListingBreaksOff,
           ListingOver, GiveUp, HandOver, Remove, RemoveFails, RemoverOver, RemoverStops,
           Disconnect, removal
  <2> QED
    BY <2>1, FS_Subset DEF Finite
<1> QED
  BY <1>1, <1>2, <1>3, <1>4 DEF Finite

LEMMA WorkType ==
  ASSUME Finite
  PROVE  /\ Cardinality(toList) \in Nat /\ Cardinality(content) \in Nat
         /\ Cardinality(accepted) \in Nat /\ Cardinality(results) \in Nat
         /\ Work \in Nat
<1>1. /\ Cardinality(toList) \in Nat /\ Cardinality(content) \in Nat
      /\ Cardinality(accepted) \in Nat /\ Cardinality(results) \in Nat
  BY FS_CardinalityType DEF Finite
<1> QED
  BY <1>1 DEF Work

(* An element added to a finite set makes it larger by one at most. *)
LEMMA OneMore ==
  ASSUME NEW S, NEW x, IsFiniteSet(S)
  PROVE  /\ Cardinality(S) \in Nat /\ Cardinality(S \cup {x}) \in Nat
         /\ Cardinality(S \cup {x}) <= Cardinality(S) + 1
<1>1. Cardinality(S) \in Nat
  BY FS_CardinalityType
<1>2. Cardinality(S \cup {x}) = IF x \in S THEN Cardinality(S) ELSE Cardinality(S) + 1
  BY FS_AddElement
<1> QED
  BY <1>1, <1>2

LEMMA StageType == ASSUME IInv PROVE Stage \in 0..LastStage /\ LastStage \in Nat
BY RequestShape DEF IInv, TypeOK, InRange, Stage, LastStage

(* The steps of the handler that go on to another stage. *)
LEMMA StageStep ==
  ASSUME IInv, Refuse \/ AllDone \/ Start \/ FileDone
  PROVE  NearerToEnd
<1>1. /\ Len(request.files) \in Nat /\ file \in 1..(Len(request.files) + 1)
      /\ handler = "removing" => file <= Len(request.files)
  BY RequestShape DEF IInv, TypeOK, InRange
<1>2. CASE Refuse \/ AllDone
  BY <1>1, <1>2 DEF Refuse, AllDone, Answer, Stage, LastStage, NearerToEnd
<1>3. CASE Start
  BY <1>1, <1>3 DEF Start, Stage, LastStage, NearerToEnd
<1>4. CASE FileDone
  BY <1>1, <1>4 DEF FileDone, Stage, LastStage, NearerToEnd
<1> QED
  BY <1>2, <1>3, <1>4

(* Every other step stays with the stage and leaves less to do. *)
LEMMA WorkStep ==
  ASSUME IInv, Finite, Next, ~ (Refuse \/ AllDone \/ Start \/ FileDone)
  PROVE  NearerToEnd
<1> USE DEF Work
<1>a. /\ Cardinality(toList) \in Nat /\ Cardinality(content) \in Nat
      /\ Cardinality(accepted) \in Nat /\ Cardinality(results) \in Nat
      /\ Cardinality({}) = 0
  BY WorkType, FS_EmptySet
<1>b. ASSUME UNCHANGED control, UNCHANGED request, Work' < Work PROVE NearerToEnd
  BY <1>b DEF NearerToEnd, Stage, LastStage, control
<1>1. ASSUME NEW r \in results, Receive(r) PROVE NearerToEnd
  <2>1. handler = "removing" /\ UNCHANGED <<request, file>>
    BY <1>1 DEF Receive
  <2>2. CASE r.error
    <3>1. file \in 1..Len(request.files) /\ Len(request.files) \in Nat
      BY <2>1, RequestShape DEF IInv, TypeOK, InRange
    <3> QED
      BY <1>1, <2>2, <3>1 DEF Receive, NearerToEnd, Stage, LastStage
  <2>3. CASE ~ r.error
    <3>1. UNCHANGED <<control, request, connected, lists, remover, accepted>>
      BY <1>1, <2>3 DEF Receive, control
    <3>2. Cardinality(results') = Cardinality(results) - 1
      BY <1>1, FS_RemoveElement DEF Receive, Finite
    <3> QED
      BY <1>a, <1>b, <3>1, <3>2 DEF lists
  <2> QED
    BY <2>2, <2>3
<1>2. ASSUME NEW i \in Items, List(i) PROVE NearerToEnd
  <2>1. /\ UNCHANGED <<control, request, connected, remover, accepted, results>>
        /\ lister = "listing" /\ content = {} /\ lister' \in {"listing", "handing"}
    BY <1>2 DEF List, removal, IInv, TypeOK
  <2>2. Cardinality(toList') = Cardinality(toList) - 1
    BY <1>2, FS_RemoveElement DEF List, Finite
  <2>3. Cardinality(content') \in {0, 1}
    BY <1>2, <2>1, FS_Singleton, FS_EmptySet DEF List
  <2> QED
    BY <1>a, <1>b, <2>1, <2>2, <2>3
<1>3. CASE ListingBreaksOff \/ ListingOver \/ GiveUp
  <2>1. /\ UNCHANGED <<control, request, connected, remover, accepted, results>>
        /\ lister \in {"listing", "handing"} /\ lister' = "closed" /\ toList' = {}
        /\ content' = content \/ content' = {}
    BY <1>3 DEF ListingBreaksOff, ListingOver, GiveUp, removal
  <2>2. Cardinality(content') <= Cardinality(content) /\ Cardinality(content') \in Nat
    BY <1>a, <2>1
  <2>3. Cardinality(toList') = 0
    BY <1>a, <2>1
  <2> QED
    BY <1>a, <1>b, <2>1, <2>2, <2>3
<1>4. CASE HandOver
  <2>1. /\ UNCHANGED <<control, request, connected, toList, remover, results>>
        /\ lister \in {"listing", "handing"} <=> lister' \in {"listing", "handing"}
        /\ content' = {}
    BY <1>4 DEF HandOver
  <2>2. PICK t : content = {t}
    BY <1>4 DEF HandOver, IInv, TypeOK
  <2>3. Cardinality(content) = 1
    BY <2>2, FS_Singleton
  <2>4. Cardinality(accepted') <= Cardinality(accepted) + 1 /\ Cardinality(accepted') \in Nat
    BY <1>4, <2>2, OneMore DEF HandOver, Finite
  <2> QED
    BY <1>a, <1>b, <2>1, <2>3, <2>4
<1>5. ASSUME NEW t \in accepted, Remove(t) \/ RemoveFails(t) PROVE NearerToEnd
  <2>1. UNCHANGED <<control, request, connected, lister, toList, content, remover>>
    BY <1>5 DEF Remove, RemoveFails, lists
  <2>2. Cardinality(accepted') = Cardinality(accepted) - 1
    BY <1>5, FS_RemoveElement DEF Remove, RemoveFails, Finite
  <2>3. Cardinality(results') <= Cardinality(results) + 1 /\ Cardinality(results') \in Nat
    BY <1>5, OneMore DEF Remove, RemoveFails, Finite
  <2> QED
    BY <1>a, <1>b, <2>1, <2>2, <2>3
<1>6. CASE RemoverOver
  <2>1. /\ UNCHANGED <<control, request, connected, lister, toList, content, accepted, results>>
        /\ remover = "taking" /\ remover' = "over"
    BY <1>6 DEF RemoverOver, lists
  <2> QED
    BY <1>a, <1>b, <2>1
<1>7. CASE RemoverStops
  <2>1. /\ UNCHANGED <<control, request, connected, lister, toList, content, accepted>>
        /\ remover = "taking" /\ remover' = "stopped"
    BY <1>7 DEF RemoverStops, lists
  <2>2. Cardinality(results') <= Cardinality(results) + 1 /\ Cardinality(results') \in Nat
    BY <1>7, OneMore DEF RemoverStops, Finite
  <2> QED
    BY <1>a, <1>b, <2>1, <2>2
<1>8. CASE Disconnect
  <2>1. /\ UNCHANGED <<control, request, lister, toList, content, remover, accepted, results>>
        /\ connected /\ ~ connected'
    BY <1>8 DEF Disconnect, lists, removal
  <2> QED
    BY <1>a, <1>b, <2>1
<1> QED
  BY <1>1, <1>2, <1>3, <1>4, <1>5, <1>6, <1>7, <1>8 DEF Next

(* Where the bucket is finite, every step of the request, whoever takes it *)
(* and however it ends, brings it nearer to its end: the handler goes on   *)
(* to a later stage, of which there are at most LastStage, or the natural  *)
(* number Work decreases.  So no request goes on for ever, and "every step *)
(* is one nearer to the end", which the fairness assumed relies on.        *)
THEOREM AlwaysNearer ==
  ASSUME IsFiniteSet(Items)
  PROVE  Spec => []Measured /\ [][NearerToEnd /\ LastStage' = LastStage]_vars
<1>1. IInv /\ Finite => Measured
  BY WorkType, StageType DEF Measured
<1>2. IInv /\ Finite /\ [Next]_vars => Finite'
  BY FiniteStep
<1>3. IInv /\ Finite /\ [Next]_vars => [NearerToEnd /\ LastStage' = LastStage]_vars
  <2> SUFFICES ASSUME IInv, Finite, Next PROVE NearerToEnd /\ LastStage' = LastStage
    OBVIOUS
  <2>1. LastStage' = LastStage
    BY DEF LastStage, Next, Refuse, AllDone, Answer, Start, Receive, FileDone, List,
           ListingBreaksOff, ListingOver, GiveUp, HandOver, Remove, RemoveFails, RemoverOver,
           RemoverStops, Disconnect
  <2> QED
    BY <2>1, StageStep, WorkStep
<1> QED
  BY <1>1, <1>2, <1>3, FiniteInit, Initially, Inductive, PTL DEF Spec
===============================================================================
