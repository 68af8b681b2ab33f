------------------------ MODULE TransferManagerProofs ------------------------
(***************************************************************************)
(* Theorems about the object manager, for every number of transfers, every *)
(* configured limit and all batch sizes.                                   *)
(***************************************************************************)
EXTENDS TransferManager, FiniteSetTheorems, WellFoundedInduction, TLAPS

(* What holds between the request of a transfer, its item and its slot.    *)

(* Numbers that are not given out yet have no request; a transfer handed   *)
(* to the browser is never in flight.                                      *)
RequestsOfCreated ==
  \A i \in Ids : /\ call[i] = "none" <=> i > created
                 /\ call[i] = "sent" => kind[i] # "big"

(* A request that was not sent yet is listed, can be looked up, and its    *)
(* item is neither done nor at 100 percent.                                *)
OpenedIsQueued ==
  \A i \in 1..created :
    call[i] = "opened" => i \in (listed \cap traces) \ (done \cup full)

(* Slots are held, by transfers of the right type, from the sending on,    *)
(* until the item is done (or for ever when it is no longer listed).       *)
SlotsHeld ==
  \A i \in 1..created :
    LET t == TypeOf(kind[i]) IN
    /\ \A u \in Types : i \in current[u] => u = t /\ call[i] \in {"sent", "over"}
    /\ call[i] = "sent" => i \in current[t]
    /\ call[i] = "over" /\ i \in listed \ done => i \in current[t]
    /\ i \in done => call[i] = "over"

(* What is due is of its type and was never sent. *)
DueOpened ==
  \A t \in Types : \A i \in due[t] : TypeOf(kind[i]) = t /\ call[i] = "opened"

(* The slots in use and those about to be taken are within the limit. *)
SlotBound == \A t \in Types : Cardinality(current[t] \cup due[t]) <= Limit(t)

IInv == /\ TypeOK /\ RequestsOfCreated /\ OpenedIsQueued
        /\ SlotsHeld /\ DueOpened /\ SlotBound

-----------------------------------------------------------------------------
(* Facts about the data.                                                   *)

(* The effective limit is a number, whatever the session configures. *)
LEMMA LimitNat == \A t \in Types : Limit(t) \in Nat
BY ConfigAssumption DEF Limit, Default, Types

(* Sets of transfers are finite, and a smaller one has fewer elements. *)
LEMMA SetsOfTransfers ==
  ASSUME NEW n \in Nat, NEW S \in SUBSET (1..n), NEW R \in SUBSET S
  PROVE  /\ IsFiniteSet(S) /\ IsFiniteSet(R)
         /\ Cardinality(S) \in 0..n
         /\ Cardinality(R) \in Nat
         /\ Cardinality(R) <= Cardinality(S)
<1>1. IsFiniteSet(1..n) /\ Cardinality(1..n) = n
  BY FS_Interval
<1>2. IsFiniteSet(S) /\ Cardinality(S) <= n
  BY <1>1, FS_Subset
<1>3. IsFiniteSet(R) /\ Cardinality(R) <= Cardinality(S)
  BY <1>2, FS_Subset
<1> QED
  BY <1>2, <1>3, FS_CardinalityType

-----------------------------------------------------------------------------
(* The inductive invariant.                                                *)

LEMMA InitInv == Init => IInv
<1> SUFFICES ASSUME Init PROVE IInv
  OBVIOUS
<1> USE ConfigAssumption DEF Init, Nothing, Types, Ids
<1>1. TypeOK
  BY DEF TypeOK, Kinds
<1>2. RequestsOfCreated /\ OpenedIsQueued /\ SlotsHeld /\ DueOpened
  BY DEF RequestsOfCreated, OpenedIsQueued, SlotsHeld, DueOpened
<1>3. SlotBound
  BY LimitNat, FS_EmptySet DEF SlotBound
<1> QED
  BY <1>1, <1>2, <1>3 DEF IInv

(* Slots in use or due may be given up and dismissed freely. *)
LEMMA ShrinkSlots ==
  ASSUME IInv, \A t \in Types : current'[t] \cup due'[t] \subseteq current[t] \cup due[t]
  PROVE  SlotBound'
<1> SUFFICES ASSUME NEW t \in Types
             PROVE  Cardinality(current'[t] \cup due'[t]) <= Limit(t)
  BY DEF SlotBound, Limit, Default
<1>1. /\ created \in Nat
      /\ current[t] \cup due[t] \in SUBSET (1..created)
  BY ConfigAssumption DEF IInv, TypeOK
<1>2. /\ Cardinality(current'[t] \cup due'[t]) <= Cardinality(current[t] \cup due[t])
      /\ Cardinality(current'[t] \cup due'[t]) \in Nat
      /\ Cardinality(current[t] \cup due[t]) \in Nat
  BY <1>1, SetsOfTransfers
<1> QED
  BY <1>2, LimitNat DEF IInv, SlotBound

(* A request in flight ends.  Either its item is done and its slot free,   *)
(* or the item was not found or not touched.                               *)
LEMMA EndStep ==
  ASSUME IInv, NEW i \in 1..created, Finish(i),
         \/ done' = done \cup {i} /\ FreeSlot(i)
         \/ done' = done /\ current' = current,
         full' \subseteq full \cup {i}, cancelled' \subseteq done',
         traces' \subseteq traces, traces \subseteq traces' \cup {i},
         promise' = promise \/ \E how \in {"resolved", "rejected"} :
                                  promise' = [promise EXCEPT ![i] = how],
         Rest
  PROVE  IInv'
<1> DEFINE T == TypeOf(kind[i])
<1>a. /\ TypeOK /\ MaxItems \in Nat
      /\ i \in Ids /\ i \in 1..created /\ T \in Types
      /\ call[i] = "sent" /\ call' = [call EXCEPT ![i] = "over"]
      /\ UNCHANGED <<created, kind, batch, listed, reloaded, due>>
  <2>1. TypeOK /\ MaxItems \in Nat
    BY ConfigAssumption DEF IInv
  <2>2. i \in Ids /\ i \in 1..created
    BY <2>1 DEF TypeOK, Ids
  <2>3. T \in Types
    BY Zenon DEF TypeOf, Types
  <2>4. call[i] = "sent" /\ call' = [call EXCEPT ![i] = "over"]
    BY DEF Finish
  <2>5. UNCHANGED <<created, kind, batch, listed, reloaded, due>>
    BY DEF Rest, items
  <2> QED
    BY <2>1, <2>2, <2>3, <2>4, <2>5
<1>b. current' \in [Types -> SUBSET (1..created)]
  BY <1>a DEF TypeOK, FreeSlot
<1>c. \/ /\ done' = done \cup {i}
         /\ \A t \in Types : current'[t] = IF t = T THEN current[t] \ {i} ELSE current[t]
      \/ done' = done /\ current' = current
  BY <1>a DEF TypeOK, FreeSlot
<1>d. \A t \in Types : current'[t] \subseteq current[t]
  BY <1>c
<1> HIDE DEF T
<1>1. TypeOK'
  <2>1. promise' \in [Ids -> {"none", "pending", "resolved", "rejected"}]
    BY <1>a DEF TypeOK
  <2>2. call' \in [Ids -> {"none", "opened", "sent", "over"}]
    BY <1>a DEF TypeOK
  <2>3. /\ done' \subseteq 1..created /\ cancelled' \subseteq done'
        /\ full' \subseteq 1..created /\ traces' \subseteq 1..created
    BY <1>a, <1>c DEF TypeOK
  <2> QED
    BY <1>a, <1>b, <2>1, <2>2, <2>3 DEF TypeOK
<1>2. RequestsOfCreated'
  BY <1>a DEF IInv, TypeOK, RequestsOfCreated, Ids
<1>3. OpenedIsQueued'
  BY <1>a, <1>c DEF IInv, TypeOK, OpenedIsQueued, Ids
<1>4. SlotsHeld'
  <2> SUFFICES ASSUME NEW j \in 1..created
               PROVE  /\ \A u \in Types : j \in current'[u] =>
                           u = TypeOf(kind[j]) /\ call'[j] \in {"sent", "over"}
                      /\ call'[j] = "sent" => j \in current'[TypeOf(kind[j])]
                      /\ call'[j] = "over" /\ j \in listed \ done'
                           => j \in current'[TypeOf(kind[j])]
                      /\ j \in done' => call'[j] = "over"
    BY <1>a DEF SlotsHeld, TypeOf
  <2>1. j \in Ids /\ TypeOf(kind[j]) \in Types
    BY <1>a DEF TypeOK, Ids, TypeOf, Types
  <2>2. /\ \A u \in Types : j \in current[u] =>
             u = TypeOf(kind[j]) /\ call[j] \in {"sent", "over"}
        /\ call[j] = "sent" => j \in current[TypeOf(kind[j])]
        /\ call[j] = "over" /\ j \in listed \ done => j \in current[TypeOf(kind[j])]
        /\ j \in done => call[j] = "over"
    BY DEF IInv, SlotsHeld
  <2>3. CASE j = i
    BY <1>a, <1>c, <2>1, <2>2, <2>3 DEF T, TypeOK
  <2>4. CASE j # i
    BY <1>a, <1>c, <1>d, <2>1, <2>2, <2>4 DEF TypeOK
  <2> QED
    BY <2>3, <2>4
<1>5. DueOpened'
  BY <1>a DEF IInv, TypeOK, DueOpened, TypeOf, Ids
<1>7. SlotBound'
  BY <1>a, <1>d, ShrinkSlots
<1> QED
  BY <1>1, <1>2, <1>3, <1>4, <1>5, <1>7 DEF IInv

(* New transfers are opened and listed, and hold nothing. *)
LEMMA NewStep ==
  ASSUME IInv, NEW n \in Nat \ {0}, New(n),
         kind' \in [Ids -> Kinds \cup {"none"}],
         \A i \in 1..created : kind'[i] = kind[i],
         batch' \in [Ids -> 0..MaxItems],
         promise' \in [Ids -> {"none", "pending", "resolved", "rejected"}]
  PROVE  IInv'
<1>a. /\ TypeOK /\ MaxItems \in Nat /\ created \in Nat /\ created' \in Nat
      /\ created' = created + n /\ created' <= MaxItems
      /\ UNCHANGED <<done, cancelled, full, current, reloaded, due>>
  BY ConfigAssumption DEF IInv, TypeOK, New
<1>b. /\ 1..created \subseteq 1..created' /\ 1..created' \subseteq Ids
      /\ Fresh(n) = 1..created' \ 1..created
  BY <1>a DEF Ids, Fresh
<1>c. /\ listed' = listed \cup Fresh(n) /\ traces' = traces \cup Fresh(n)
      /\ call' \in [Ids -> {"none", "opened", "sent", "over"}]
      /\ \A i \in Fresh(n) : call'[i] = "opened"
      /\ \A i \in Ids \ Fresh(n) : call'[i] = call[i]
  BY <1>a, <1>b DEF TypeOK, New
<1>1. TypeOK'
  <2>1. /\ current' \in [Types -> SUBSET (1..created')]
        /\ due' \in [Types -> SUBSET (1..created')]
    BY <1>a, <1>b DEF TypeOK
  <2>2. created' \in 0..MaxItems
    BY <1>a
  <2>3. /\ listed' \subseteq 1..created' /\ done' \subseteq 1..created'
        /\ cancelled' \subseteq done' /\ full' \subseteq 1..created'
        /\ traces' \subseteq 1..created' /\ reloaded' \subseteq 1..created'
    BY <1>a, <1>b, <1>c DEF TypeOK
  <2> QED
    BY <1>c, <2>1, <2>2, <2>3 DEF TypeOK
<1>d. \A i \in 1..created' : i \in Fresh(n) \/ i \in 1..created
  BY <1>b
<1>2. RequestsOfCreated'
  <2> SUFFICES ASSUME NEW i \in Ids
               PROVE  /\ call'[i] = "none" <=> i > created'
                      /\ call'[i] = "sent" => kind'[i] # "big"
    BY DEF RequestsOfCreated, Ids
  <2>1. CASE i \in Fresh(n)
    BY <1>a, <1>b, <1>c, <2>1
  <2>2. CASE i \notin Fresh(n)
    <3>1. call'[i] = call[i] /\ (i > created' <=> i > created)
      BY <1>a, <1>c, <2>2 DEF Ids, Fresh
    <3>2. call[i] = "none" <=> i > created
      BY DEF IInv, RequestsOfCreated
    <3>3. ASSUME call[i] = "sent" PROVE kind'[i] # "big"
      <4>1. i \in 1..created /\ kind[i] # "big"
        BY <1>a, <3>2, <3>3 DEF IInv, RequestsOfCreated, Ids
      <4> QED
        BY <4>1
    <3> QED
      BY <3>1, <3>2, <3>3
  <2> QED
    BY <2>1, <2>2
<1>3. OpenedIsQueued'
  <2> SUFFICES ASSUME NEW i \in 1..created', call'[i] = "opened"
               PROVE  i \in (listed' \cap traces') \ (done' \cup full')
    BY DEF OpenedIsQueued
  <2>1. CASE i \in Fresh(n)
    BY <1>a, <1>b, <1>c, <2>1 DEF TypeOK
  <2>2. CASE i \in 1..created
    BY <1>a, <1>b, <1>c, <2>2 DEF IInv, OpenedIsQueued
  <2> QED
    BY <1>d, <2>1, <2>2
<1>4. SlotsHeld'
  <2> SUFFICES ASSUME NEW i \in 1..created'
               PROVE  /\ \A u \in Types : i \in current'[u] =>
                           u = TypeOf(kind'[i]) /\ call'[i] \in {"sent", "over"}
                      /\ call'[i] = "sent" => i \in current'[TypeOf(kind'[i])]
                      /\ call'[i] = "over" /\ i \in listed' \ done'
                           => i \in current'[TypeOf(kind'[i])]
                      /\ i \in done' => call'[i] = "over"
    BY DEF SlotsHeld, TypeOf
  <2>1. CASE i \in Fresh(n)
    BY <1>a, <1>b, <1>c, <2>1 DEF TypeOK
  <2>2. CASE i \in 1..created
    BY <1>a, <1>b, <1>c, <2>2 DEF IInv, SlotsHeld
  <2> QED
    BY <1>d, <2>1, <2>2
<1>5. DueOpened'
  <2> SUFFICES ASSUME NEW t \in Types, NEW i \in due[t]
               PROVE  TypeOf(kind'[i]) = t /\ call'[i] = "opened"
    BY <1>a DEF DueOpened, TypeOf
  <2>1. i \in 1..created
    BY <1>a DEF TypeOK
  <2> QED
    BY <1>b, <1>c, <2>1 DEF IInv, DueOpened
<1>6. SlotBound'
  BY <1>a, ShrinkSlots
<1> QED
  BY <1>1, <1>2, <1>3, <1>4, <1>5, <1>6 DEF IInv

(* The n oldest are at most n. *)
LEMMA OldestBounded ==
  ASSUME NEW W, NEW n \in Nat, NEW S \in Oldest(W, n)
  PROVE  S \subseteq W /\ Cardinality(S) <= n
BY DEF Oldest

(* A render chooses opened requests of the right type, as many as fit. *)
LEMMA RenderStep == ASSUME IInv, Render PROVE IInv'
<1>a. /\ TypeOK /\ created \in Nat /\ due = Nothing
      /\ UNCHANGED <<items, listed, done, cancelled, full, current, requests,
                     reloaded>>
      /\ UNCHANGED <<created, kind, batch, call, traces, promise>>
  BY ConfigAssumption DEF IInv, TypeOK, Render, items, requests
<1>b. /\ due' \in [Types -> SUBSET (1..created)]
      /\ \A t \in Types : due'[t] \in Oldest(Waiting(t), Free(t))
  <2>1. PICK d \in Oldest(Waiting("download"), Free("download")),
             u \in Oldest(Waiting("upload"), Free("upload")) :
               due' = [t \in Types |-> IF t = "download" THEN d ELSE u]
    BY DEF Render
  <2>2. d \subseteq 1..created /\ u \subseteq 1..created
    BY DEF Oldest, Waiting, OfType
  <2> QED
    BY <2>1, <2>2 DEF Types
<1>c. \A t \in Types : /\ current[t] \in SUBSET (1..created)
                       /\ Cardinality(current[t]) \in Nat
                       /\ Cardinality(current[t]) <= Limit(t)
  <2> TAKE t \in Types
  <2>1. current[t] \in SUBSET (1..created)
    BY <1>a DEF TypeOK
  <2>2. due[t] = {}
    BY <1>a DEF Nothing
  <2>3. current[t] \cup due[t] = current[t]
    BY <2>2
  <2>4. Cardinality(current[t]) <= Limit(t)
    BY <2>3 DEF IInv, SlotBound
  <2> QED
    BY <1>a, <2>1, <2>4, SetsOfTransfers
<1>d. \A t \in Types : Free(t) \in Nat /\ Cardinality(current[t]) + Free(t) = Limit(t)
  BY <1>c, LimitNat DEF Free
<1>e. \A t \in Types : due'[t] \subseteq Waiting(t) /\ Cardinality(due'[t]) <= Free(t)
  BY <1>b, <1>d, OldestBounded
<1>1. TypeOK'
  BY <1>a, <1>b DEF TypeOK
<1>2. RequestsOfCreated' /\ OpenedIsQueued' /\ SlotsHeld'
  BY <1>a DEF IInv, RequestsOfCreated, OpenedIsQueued, SlotsHeld, TypeOf
<1>3. DueOpened'
  <2> SUFFICES ASSUME NEW t \in Types, NEW i \in due'[t]
               PROVE  TypeOf(kind[i]) = t /\ call[i] = "opened"
    BY <1>a DEF DueOpened, TypeOf
  <2>1. /\ i \in 1..created /\ TypeOf(kind[i]) = t
        /\ i \in listed \ done /\ i \notin current[t]
    BY <1>e DEF Waiting, OfType
  <2>2. i \in Ids /\ call[i] # "none"
    BY <1>a, <2>1, ConfigAssumption DEF IInv, RequestsOfCreated, TypeOK, Ids
  <2>3. call[i] # "sent" /\ call[i] # "over"
    BY <2>1 DEF IInv, SlotsHeld
  <2> QED
    BY <1>a, <2>1, <2>2, <2>3 DEF TypeOK
<1>4. SlotBound'
  <2> SUFFICES ASSUME NEW t \in Types
               PROVE  Cardinality(current[t] \cup due'[t]) <= Limit(t)
    BY <1>a DEF SlotBound, Limit, Default
  <2>1. IsFiniteSet(current[t]) /\ IsFiniteSet(due'[t])
    BY <1>a, <1>b, <1>c, SetsOfTransfers
  <2>2. /\ Cardinality(due'[t]) \in Nat
        /\ Cardinality(current[t] \cap due'[t]) \in Nat
    BY <2>1, FS_CardinalityType, FS_Subset
  <2>3. Cardinality(current[t] \cup due'[t])
          = Cardinality(current[t]) + Cardinality(due'[t])
              - Cardinality(current[t] \cap due'[t])
    BY <2>1, FS_Union
  <2> QED
    BY <1>c, <1>d, <1>e, <2>2, <2>3, LimitNat
<1> QED
  BY <1>1, <1>2, <1>3, <1>4 DEF IInv

(* The effect turns what is due into slots in use. *)
LEMMA EffectStep == ASSUME IInv, Effect PROVE IInv'
<1> DEFINE S == traces \cap UNION {due[t] : t \in Types}
           big == {i \in S : kind[i] = "big"}
<1>a. /\ TypeOK /\ MaxItems \in Nat /\ created \in Nat
      /\ call' = [i \in Ids |-> IF i \in big THEN "over"
                                ELSE IF i \in S THEN "sent" ELSE call[i]]
      /\ done' = done \cup (big \cap listed)
      /\ full' = full \cup (big \cap listed)
      /\ traces' = traces \ big
      /\ current' = [t \in Types |-> current[t] \cup due[t]]
      /\ due' = Nothing
      /\ UNCHANGED <<items, listed, cancelled, promise, reloaded>>
      /\ UNCHANGED <<created, kind, batch>>
  BY ConfigAssumption DEF IInv, TypeOK, Effect, items
<1>b. \A t \in Types : \A i \in due[t] :
        /\ i \in 1..created /\ i \in Ids /\ TypeOf(kind[i]) = t
        /\ call[i] = "opened" /\ i \in listed \cap traces /\ i \in S
  <2> TAKE t \in Types
  <2> TAKE i \in due[t]
  <2>1. i \in 1..created /\ i \in Ids
    BY <1>a DEF TypeOK, Ids
  <2> QED
    BY <2>1 DEF IInv, DueOpened, OpenedIsQueued
<1>c. S \subseteq 1..created /\ big \subseteq S
  BY <1>a DEF TypeOK
<1>d. \A i \in S : /\ i \in Ids /\ TypeOf(kind[i]) \in Types
                   /\ i \in due[TypeOf(kind[i])]
                   /\ call[i] = "opened" /\ i \in listed
  BY <1>b
<1>e. \A i \in Ids : call'[i] = IF i \in big THEN "over"
                                ELSE IF i \in S THEN "sent" ELSE call[i]
  BY <1>a
<1>f. \A t \in Types : current'[t] = current[t] \cup due[t] /\ due'[t] = {}
  BY <1>a DEF Nothing
<1>g. \A i \in S : (i \in big) <=> (kind[i] = "big")
  OBVIOUS
<1> HIDE DEF S, big
<1>1. TypeOK'
  <2>1. call' \in [Ids -> {"none", "opened", "sent", "over"}]
    BY <1>a DEF TypeOK
  <2>2. /\ current' \in [Types -> SUBSET (1..created)]
        /\ due' \in [Types -> SUBSET (1..created)]
    BY <1>a DEF TypeOK, Nothing
  <2>3. /\ done' \subseteq 1..created /\ full' \subseteq 1..created
        /\ traces' \subseteq 1..created /\ cancelled' \subseteq done'
    BY <1>a, <1>c DEF TypeOK
  <2> QED
    BY <1>a, <2>1, <2>2, <2>3 DEF TypeOK
<1>2. RequestsOfCreated'
  BY <1>a, <1>c, <1>e, <1>g DEF IInv, RequestsOfCreated, Ids
<1>3. OpenedIsQueued'
  <2> SUFFICES ASSUME NEW i \in 1..created, call'[i] = "opened"
               PROVE  i \in (listed \cap traces') \ (done' \cup full')
    BY <1>a DEF OpenedIsQueued
  <2>1. i \in Ids /\ i \notin S /\ i \notin big /\ call[i] = "opened"
    BY <1>a, <1>c, <1>e DEF TypeOK, Ids
  <2> QED
    BY <1>a, <2>1 DEF IInv, OpenedIsQueued
<1>4. SlotsHeld'
  <2> SUFFICES ASSUME NEW i \in 1..created
               PROVE  /\ \A u \in Types : i \in current'[u] =>
                           u = TypeOf(kind[i]) /\ call'[i] \in {"sent", "over"}
                      /\ call'[i] = "sent" => i \in current'[TypeOf(kind[i])]
                      /\ call'[i] = "over" /\ i \in listed \ done'
                           => i \in current'[TypeOf(kind[i])]
                      /\ i \in done' => call'[i] = "over"
    BY <1>a DEF SlotsHeld, TypeOf
  <2>1. i \in Ids /\ TypeOf(kind[i]) \in Types
    BY <1>a DEF TypeOK, Ids, TypeOf, Types
  <2>2. /\ \A u \in Types : i \in current[u] =>
             u = TypeOf(kind[i]) /\ call[i] \in {"sent", "over"}
        /\ call[i] = "sent" => i \in current[TypeOf(kind[i])]
        /\ call[i] = "over" /\ i \in listed \ done => i \in current[TypeOf(kind[i])]
        /\ i \in done => call[i] = "over"
    BY DEF IInv, SlotsHeld
  <2>3. CASE i \in S
    <3>1. /\ call'[i] \in {"sent", "over"} /\ i \in current'[TypeOf(kind[i])]
          /\ i \in done' => call'[i] = "over"
      BY <1>a, <1>c, <1>d, <1>e, <1>f, <2>1, <2>2, <2>3
    <3>2. \A u \in Types : i \in current'[u] => u = TypeOf(kind[i])
      BY <1>b, <1>f, <2>2
    <3> QED
      BY <3>1, <3>2
  <2>4. CASE i \notin S
    <3>1. call'[i] = call[i] /\ \A u \in Types : i \notin due[u]
      BY <1>b, <1>c, <1>e, <2>1, <2>4
    <3> QED
      BY <1>a, <1>c, <1>f, <2>1, <2>2, <2>4, <3>1
  <2> QED
    BY <2>3, <2>4
<1>5. DueOpened'
  BY <1>f DEF DueOpened
<1>6. \A t \in Types : current'[t] \cup due'[t] \subseteq current[t] \cup due[t]
  BY <1>f
<1>7. SlotBound'
  BY <1>6, ShrinkSlots
<1> QED
  BY <1>1, <1>2, <1>3, <1>4, <1>5, <1>7 DEF IInv

(* Steps that take nothing from a request that is not over: progress,      *)
(* dismissals, reloads.                                                    *)
LEMMA ListStep ==
  ASSUME IInv, UNCHANGED <<items, done, cancelled, current, requests, due>>,
         listed' \subseteq listed, listed \ listed' \subseteq done \cup full,
         full \subseteq full', full' \subseteq 1..created,
         \A i \in full' \ full : call[i] = "sent",
         reloaded' \subseteq 1..created
  PROVE  IInv'
<1>a. UNCHANGED <<created, kind, batch, call, traces, promise>>
  BY DEF items, requests
<1>1. TypeOK'
  BY <1>a DEF IInv, TypeOK
<1>2. RequestsOfCreated' /\ SlotsHeld' /\ DueOpened'
  BY <1>a DEF IInv, RequestsOfCreated, SlotsHeld, DueOpened, TypeOf
<1>3. OpenedIsQueued'
  BY <1>a DEF IInv, OpenedIsQueued
<1>4. SlotBound'
  BY ShrinkSlots
<1> QED
  BY <1>1, <1>2, <1>3, <1>4 DEF IInv

LEMMA NextInv == IInv /\ [Next]_vars => IInv'
<1> SUFFICES ASSUME IInv, [Next]_vars PROVE IInv'
  OBVIOUS
<1>a. TypeOK /\ MaxItems \in Nat /\ created \in Nat
  BY ConfigAssumption DEF IInv, TypeOK
<1>1. ASSUME NEW k \in Kinds \ {"upload"}, NewDownload(k) PROVE IInv'
  <2>1. kind' = [kind EXCEPT ![created + 1] = k] /\ New(1)
        /\ batch' = batch /\ promise' = promise
    BY <1>1 DEF NewDownload
  <2>2. /\ kind' \in [Ids -> Kinds \cup {"none"}]
        /\ \A i \in 1..created : kind'[i] = kind[i]
    <3>1. kind \in [Ids -> Kinds \cup {"none"}] /\ k \in Kinds
      BY <1>a, <1>1 DEF TypeOK
    <3>2. \A i \in 1..created : i \in Ids /\ i # created + 1
      BY <1>a DEF TypeOK, Ids
    <3>3. kind' \in [Ids -> Kinds \cup {"none"}]
      BY <2>1, <3>1
    <3>4. \A i \in 1..created : kind'[i] = kind[i]
      BY <2>1, <3>1, <3>2
    <3> QED
      BY <3>3, <3>4
  <2> QED
    BY <1>a, <2>1, <2>2, NewStep DEF TypeOK
<1>2. ASSUME NEW n \in BatchSizes, NewUploads(n) PROVE IInv'
  <2>1. n \in Nat \ {0} /\ New(n)
    BY <1>2, ConfigAssumption DEF NewUploads
  <2>2. /\ kind' \in [Ids -> Kinds \cup {"none"}]
        /\ \A i \in 1..created : kind'[i] = kind[i]
    <3>1. kind' = [i \in Ids |-> IF i \in Fresh(n) THEN "upload" ELSE kind[i]]
      BY <1>2 DEF NewUploads
    <3>2. \A i \in 1..created : i \in Ids /\ i \notin Fresh(n)
      BY <1>a DEF TypeOK, Ids, Fresh
    <3>3. kind \in [Ids -> Kinds \cup {"none"}] /\ "upload" \in Kinds
      BY <1>a DEF TypeOK, Kinds
    <3>4. kind' \in [Ids -> Kinds \cup {"none"}]
      BY <3>1, <3>3
    <3>5. \A i \in 1..created : kind'[i] = kind[i]
      BY <3>1, <3>2
    <3> QED
      BY <3>4, <3>5
  <2>3. batch' \in [Ids -> 0..MaxItems]
    <3>1. created + 1 \in 0..MaxItems
      BY <1>a, <2>1 DEF New, TypeOK
    <3> QED
      BY <1>2, <1>a, <3>1 DEF NewUploads, TypeOK
  <2>4. promise' \in [Ids -> {"none", "pending", "resolved", "rejected"}]
    BY <1>2, <1>a DEF NewUploads, TypeOK
  <2> QED
    BY <2>1, <2>2, <2>3, <2>4, NewStep
<1>3. ASSUME NEW i \in 1..created, Progress(i) PROVE IInv'
  BY <1>3, <1>a, ListStep DEF Progress, TypeOK
<1>4. ASSUME NEW i \in 1..created, Succeed(i) PROVE IInv'
  <2>1. \/ done' = done \cup {i} /\ FreeSlot(i)
        \/ done' = done /\ current' = current
    BY <1>4 DEF Succeed, completeObject
  <2>2. cancelled' = cancelled /\ full' \subseteq full \cup {i}
    BY <1>4 DEF Succeed, completeObject
  <2>3. cancelled' \subseteq done'
    BY <1>a, <2>1, <2>2 DEF TypeOK
  <2> QED
    BY <1>4, <2>1, <2>2, <2>3, EndStep DEF Succeed, Settle
<1>5. ASSUME NEW i \in 1..created, Refuse(i) PROVE IInv'
  <2>1. \/ done' = done \cup {i} /\ FreeSlot(i)
        \/ done' = done /\ current' = current
    BY <1>5 DEF Refuse, failObject
  <2>2. cancelled' = cancelled /\ full' = full
    BY <1>5 DEF Refuse, failObject
  <2>3. cancelled' \subseteq done'
    BY <1>a, <2>1, <2>2 DEF TypeOK
  <2> QED
    BY <1>5, <2>1, <2>2, <2>3, EndStep DEF Refuse, Settle
<1>6. ASSUME NEW i \in 1..created, RefuseWithJson(i) PROVE IInv'
  BY <1>6, <1>a, EndStep DEF RefuseWithJson, TypeOK
<1>7. ASSUME NEW i \in 1..created, NetworkError(i) PROVE IInv'
  <2>1. \/ done' = done \cup {i} /\ FreeSlot(i)
        \/ done' = done /\ current' = current
    BY <1>7 DEF NetworkError, failObject
  <2>2. cancelled' = cancelled /\ full' = full
    BY <1>7 DEF NetworkError, failObject
  <2>3. cancelled' \subseteq done'
    BY <1>a, <2>1, <2>2 DEF TypeOK
  <2> QED
    BY <1>7, <2>1, <2>2, <2>3, EndStep DEF NetworkError, Settle
<1>8. ASSUME NEW i \in 1..created, Abort(i) PROVE IInv'
  <2>1. /\ done' = done \cup {i} /\ FreeSlot(i)
        /\ cancelled' = cancelled \cup {i} /\ full' = full \ {i}
    BY <1>8 DEF Abort, cancelObjectInList
  <2>2. cancelled' \subseteq done'
    BY <1>a, <2>1 DEF TypeOK
  <2> QED
    BY <1>8, <2>1, <2>2, EndStep DEF Abort
<1>9. ASSUME NEW i \in 1..created, deleteFromList(i) PROVE IInv'
  BY <1>9, <1>a, ListStep DEF deleteFromList, TypeOK
<1>10. ASSUME NEW b \in 1..created, AllSettled(b) PROVE IInv'
  BY <1>10, <1>a, ListStep DEF AllSettled, TypeOK
<1>11. CASE cleanList
  BY <1>11, <1>a, ListStep DEF cleanList, TypeOK
<1>12. CASE UNCHANGED vars
  BY <1>12, <1>a, ListStep DEF vars, TypeOK
<1> QED
  BY <1>1, <1>2, <1>3, <1>4, <1>5, <1>6, <1>7, <1>8, <1>9, <1>10, <1>11, <1>12,
     RenderStep, EffectStep DEF Next

(* IInv holds of every state the page can reach. *)
THEOREM Invariant == Spec => []IInv
BY InitInv, NextInv, PTL DEF Spec

-----------------------------------------------------------------------------
(* What follows from it.                                                   *)

(* The state of the object manager is well formed. *)
THEOREM TypeCorrect == Spec => []TypeOK
<1>1. IInv => TypeOK
  BY DEF IInv
<1> QED
  BY <1>1, Invariant, PTL

(* The browser never carries more transfers of a type than the configured  *)
(* limit, because every request in flight holds a slot.                    *)
THEOREM LimitRespected == Spec => []ConcurrencyLimit
<1>1. ASSUME IInv, NEW t \in Types
      PROVE  Cardinality(Sent \cap OfType(t)) <= Limit(t)
  <2>1. created \in Nat /\ current[t] \cup due[t] \in SUBSET (1..created)
    BY <1>1, ConfigAssumption DEF IInv, TypeOK
  <2>2. Sent \cap OfType(t) \in SUBSET (current[t] \cup due[t])
    BY <1>1 DEF IInv, SlotsHeld, Sent, OfType
  <2>3. /\ Cardinality(Sent \cap OfType(t)) <= Cardinality(current[t] \cup due[t])
        /\ Cardinality(Sent \cap OfType(t)) \in Nat
        /\ Cardinality(current[t] \cup due[t]) \in Nat
    BY <2>1, <2>2, SetsOfTransfers
  <2> QED
    BY <1>1, <2>3, LimitNat DEF IInv, SlotBound
<1>2. IInv => ConcurrencyLimit
  BY <1>1 DEF ConcurrencyLimit
<1> QED
  BY <1>2, Invariant, PTL

(* What the effect starts was never sent, is listed, not done and holds no *)
(* slot.                                                                   *)
THEOREM StartsOnlyFresh == Spec => []StartsFresh
<1>1. ASSUME IInv PROVE StartsFresh
  <2> SUFFICES ASSUME NEW t \in Types, NEW i \in due[t]
               PROVE  call[i] = "opened"
                      /\ i \in (listed \cap traces) \ (done \cup current[t])
    BY DEF StartsFresh
  <2>1. i \in 1..created /\ call[i] = "opened"
    BY <1>1 DEF IInv, TypeOK, DueOpened
  <2> QED
    BY <1>1, <2>1 DEF IInv, OpenedIsQueued, SlotsHeld
<1> QED
  BY <1>1, Invariant, PTL

-----------------------------------------------------------------------------
(* The object manager implements SlotQueue, for each type of transfer.     *)

Released(t) == (OfType(t) \cap done) \ current[t]
queue(t) == <<Waiting(t), current[t], Released(t)>>

(* What is due arrived before everything that waits and is not due. *)
DueOldest ==
  \A t \in Types : \A i \in due[t], j \in Waiting(t) \ due[t] : i < j

QInv == IInv /\ DueOldest

(* A transfer waits for a slot if and only if its request is not sent yet. *)
WaitingOpened ==
  \A t \in Types : Waiting(t) = {i \in OfType(t) : call[i] = "opened"}

LEMMA WaitingIsOpened == IInv => WaitingOpened
<1> SUFFICES ASSUME IInv, NEW t \in Types
             PROVE  Waiting(t) = {i \in OfType(t) : call[i] = "opened"}
  BY DEF WaitingOpened
<1>1. ASSUME NEW i \in OfType(t), call[i] = "opened" PROVE i \in Waiting(t)
  <2>1. i \in 1..created
    BY DEF OfType
  <2> QED
    BY <1>1, <2>1 DEF IInv, OpenedIsQueued, SlotsHeld, Waiting
<1>2. ASSUME NEW i \in Waiting(t) PROVE i \in OfType(t) /\ call[i] = "opened"
  <2>1. /\ i \in OfType(t) /\ i \in 1..created /\ TypeOf(kind[i]) = t
        /\ i \in listed \ done /\ i \notin current[t]
    BY <1>2 DEF Waiting, OfType
  <2>2. i \in Ids /\ call[i] # "none"
    BY <2>1, ConfigAssumption DEF IInv, RequestsOfCreated, TypeOK, Ids
  <2>3. call[i] # "sent" /\ call[i] # "over"
    BY <2>1 DEF IInv, SlotsHeld
  <2> QED
    BY <2>1, <2>2, <2>3 DEF IInv, TypeOK
<1> QED
  BY <1>1, <1>2 DEF Waiting

(* The shapes a step can have, as far as the queues are concerned. *)
Idle == UNCHANGED <<created, kind, call, done, current>>
Adding(n) == /\ New(n) /\ \A i \in 1..created : kind'[i] = kind[i]
             /\ n \in Nat \ {0}
             /\ \E t \in Types : \A i \in Fresh(n) : TypeOf(kind'[i]) = t
Ending(i) == /\ Finish(i) /\ UNCHANGED <<created, kind, due>>
             /\ \/ done' = done \cup {i} /\ FreeSlot(i)
                \/ UNCHANGED <<done, current>>

LEMMA Shapes ==
  ASSUME IInv, [Next]_vars
  PROVE  \/ Idle /\ due' = due
         \/ Render
         \/ \E n \in Nat : Adding(n)
         \/ \E i \in 1..created : Ending(i)
         \/ Effect
<1>a. TypeOK /\ created \in Nat /\ MaxItems \in Nat
  BY ConfigAssumption DEF IInv, TypeOK
<1>1. ASSUME NEW k \in Kinds \ {"upload"}, NewDownload(k) PROVE Adding(1)
  <2>1. New(1) /\ kind' = [kind EXCEPT ![created + 1] = k]
    BY <1>1 DEF NewDownload
  <2>2. created + 1 \in Ids /\ Fresh(1) = {created + 1}
    BY <1>a, <2>1 DEF New, Ids, Fresh
  <2>3. TypeOf(kind'[created + 1]) \in Types
    BY DEF TypeOf, Types
  <2>4. \A i \in 1..created : kind'[i] = kind[i]
    <3>1. \A i \in 1..created : i \in Ids /\ i # created + 1
      BY <1>a DEF TypeOK, Ids
    <3> QED
      BY <1>a, <2>1, <3>1 DEF TypeOK
  <2> QED
    BY <2>1, <2>2, <2>3, <2>4 DEF Adding
<1>2. ASSUME NEW n \in BatchSizes, NewUploads(n) PROVE n \in Nat /\ Adding(n)
  <2>1. n \in Nat \ {0} /\ New(n)
    BY <1>2, ConfigAssumption DEF NewUploads
  <2>2. kind' = [i \in Ids |-> IF i \in Fresh(n) THEN "upload" ELSE kind[i]]
    BY <1>2 DEF NewUploads
  <2>3. Fresh(n) \subseteq Ids
    BY <1>a, <2>1 DEF New, Fresh, Ids
  <2>4. "upload" \in Types /\ \A i \in Fresh(n) : TypeOf(kind'[i]) = "upload"
    BY <2>2, <2>3 DEF TypeOf, Types
  <2>5. \A i \in 1..created : kind'[i] = kind[i]
    <3>1. \A i \in 1..created : i \in Ids /\ i \notin Fresh(n)
      BY <1>a DEF TypeOK, Ids, Fresh
    <3> QED
      BY <2>2, <3>1
  <2> QED
    BY <2>1, <2>4, <2>5 DEF Adding
<1>3. ASSUME NEW i \in 1..created,
             Succeed(i) \/ Refuse(i) \/ RefuseWithJson(i) \/ NetworkError(i) \/ Abort(i)
      PROVE  Ending(i)
  BY <1>3 DEF Succeed, Refuse, RefuseWithJson, NetworkError, Abort, completeObject,
              failObject, cancelObjectInList, Ending, Rest, items
<1>4. ASSUME NEW i \in 1..created, Progress(i) \/ deleteFromList(i) \/ AllSettled(i)
      PROVE  Idle /\ due' = due
  BY <1>4 DEF Progress, deleteFromList, AllSettled, Idle, items, requests
<1>5. ASSUME cleanList \/ UNCHANGED vars PROVE Idle /\ due' = due
  BY <1>5 DEF cleanList, Idle, vars, items, requests
<1> QED
  BY <1>1, <1>2, <1>3, <1>4, <1>5 DEF Next

(* New transfers arrive in one queue, behind everything known. *)
LEMMA AddingQueues ==
  ASSUME IInv, IInv', NEW n \in Nat, Adding(n), NEW t \in Types
  PROVE  /\ UNCHANGED <<current, done, due>> /\ Released(t)' = Released(t)
         /\ \/ Waiting(t)' = Waiting(t)
            \/ Waiting(t)' = Waiting(t) \cup Fresh(n)
         /\ Fresh(n) \subseteq Ids
         /\ \A i \in 1..created, j \in Fresh(n) : i < j
<1>a. /\ TypeOK /\ MaxItems \in Nat /\ created \in Nat
      /\ created' = created + n /\ created' <= MaxItems
      /\ UNCHANGED <<current, done, due>>
  BY ConfigAssumption DEF IInv, TypeOK, Adding, New
<1>b. /\ 1..created' = 1..created \cup Fresh(n) /\ 1..created' \subseteq Ids
      /\ 1..created \cap Fresh(n) = {}
      /\ \A i \in 1..created, j \in Fresh(n) : i < j
  BY <1>a DEF Fresh, Ids
<1>c. /\ \A i \in Fresh(n) : call'[i] = "opened"
      /\ \A i \in 1..created : call'[i] = call[i] /\ kind'[i] = kind[i]
  BY <1>a, <1>b DEF Adding, New
<1>d. /\ OfType(t)' \cap 1..created = OfType(t)
      /\ OfType(t)' \subseteq 1..created \cup Fresh(n)
  <2>1. OfType(t)' = {i \in 1..created' : TypeOf(kind'[i]) = t}
    BY DEF OfType, TypeOf
  <2> QED
    BY <1>b, <1>c, <2>1 DEF OfType
<1>1. Released(t)' = Released(t)
  BY <1>a, <1>d DEF Released, TypeOK
<1>2. PICK u \in Types : \A i \in Fresh(n) : TypeOf(kind'[i]) = u
  BY DEF Adding
<1>3. Waiting(t) = {i \in OfType(t) : call[i] = "opened"}
  BY WaitingIsOpened DEF WaitingOpened
<1>4. Waiting(t)' = {i \in OfType(t)' : call'[i] = "opened"}
  <2>1. IInv' => WaitingOpened'
    BY WaitingIsOpened, PTL
  <2> QED
    BY <2>1 DEF WaitingOpened
<1>5. OfType(t)' = OfType(t) \cup {i \in Fresh(n) : TypeOf(kind'[i]) = t}
  BY <1>b, <1>c DEF OfType, TypeOf
<1>6. \/ u = t /\ Waiting(t)' = Waiting(t) \cup Fresh(n)
      \/ u # t /\ Waiting(t)' = Waiting(t)
  <2>1. \A i \in OfType(t) : call'[i] = call[i]
    BY <1>c DEF OfType
  <2>2. CASE u = t
    BY <1>2, <1>3, <1>4, <1>5, <1>c, <2>1, <2>2
  <2>3. CASE u # t
    BY <1>2, <1>3, <1>4, <1>5, <1>c, <2>1, <2>3
  <2> QED
    BY <2>2, <2>3
<1> QED
  BY <1>a, <1>b, <1>1, <1>6

(* A request that ends gives up its slot, or nothing. *)
LEMMA EndingQueues ==
  ASSUME IInv, IInv', NEW i \in 1..created, Ending(i), NEW t \in Types
  PROVE  /\ Waiting(t)' = Waiting(t) /\ due' = due
         /\ \/ current'[t] = current[t] /\ Released(t)' = Released(t)
            \/ /\ i \in current[t] /\ current'[t] = current[t] \ {i}
               /\ Released(t)' = Released(t) \cup {i}
<1> DEFINE T == TypeOf(kind[i])
<1>a. /\ TypeOK /\ i \in Ids /\ T \in Types /\ created \in Nat
      /\ call[i] = "sent" /\ call' = [call EXCEPT ![i] = "over"]
      /\ UNCHANGED <<created, kind, due>>
  <2>1. TypeOK /\ MaxItems \in Nat
    BY ConfigAssumption DEF IInv
  <2>2. i \in Ids /\ created \in Nat
    BY <2>1 DEF TypeOK, Ids
  <2>3. T \in Types
    BY Zenon DEF TypeOf, Types
  <2>4. /\ call[i] = "sent" /\ call' = [call EXCEPT ![i] = "over"]
        /\ UNCHANGED <<created, kind, due>>
    BY DEF Ending, Finish
  <2> QED
    BY <2>1, <2>2, <2>3, <2>4
<1>b. OfType(t)' = OfType(t)
  BY <1>a DEF OfType, TypeOf
<1>1. Waiting(t)' = Waiting(t)
  <2>1. WaitingOpened /\ WaitingOpened'
    <3>1. IInv' => WaitingOpened'
      BY WaitingIsOpened, PTL
    <3> QED
      BY <3>1, WaitingIsOpened
  <2>2. \A j \in OfType(t) : call'[j] = "opened" <=> call[j] = "opened"
    BY <1>a DEF TypeOK, OfType, Ids
  <2> QED
    BY <1>b, <2>1, <2>2 DEF WaitingOpened
<1>c. i \in current[T]
  BY <1>a DEF IInv, SlotsHeld
<1>2. CASE UNCHANGED <<done, current>>
  BY <1>a, <1>b, <1>1, <1>2 DEF Released
<1>3. CASE done' = done \cup {i} /\ FreeSlot(i)
  <2>1. \A u \in Types : current'[u] = IF u = T THEN current[u] \ {i} ELSE current[u]
    BY <1>a, <1>3 DEF TypeOK, FreeSlot
  <2>2. i \in OfType(t) <=> t = T
    BY <1>a DEF OfType
  <2>3. CASE t = T
    BY <1>a, <1>b, <1>c, <1>1, <1>3, <2>1, <2>2, <2>3 DEF Released
  <2>4. CASE t # T
    BY <1>a, <1>b, <1>1, <1>3, <2>1, <2>2, <2>4 DEF Released
  <2> QED
    BY <2>3, <2>4
<1> QED
  BY <1>2, <1>3 DEF Ending

(* The effect takes slots for what is due. *)
LEMMA EffectQueues ==
  ASSUME IInv, IInv', Effect, NEW t \in Types
  PROVE  /\ due[t] \subseteq Waiting(t)
         /\ Waiting(t)' = Waiting(t) \ due[t]
         /\ current'[t] = current[t] \cup due[t]
         /\ Released(t)' = Released(t)
         /\ due'[t] = {}
<1> DEFINE S == traces \cap UNION {due[u] : u \in Types}
           big == {i \in S : kind[i] = "big"}
<1>a. /\ TypeOK /\ created \in Nat
      /\ call' = [i \in Ids |-> IF i \in big THEN "over"
                                ELSE IF i \in S THEN "sent" ELSE call[i]]
      /\ done' = done \cup (big \cap listed)
      /\ current' = [u \in Types |-> current[u] \cup due[u]]
      /\ due' = Nothing
      /\ UNCHANGED <<created, kind>>
  BY ConfigAssumption DEF IInv, TypeOK, Effect, items
<1>b. \A u \in Types : \A i \in due[u] :
        i \in 1..created /\ TypeOf(kind[i]) = u /\ call[i] = "opened" /\ i \in S
  BY <1>a DEF IInv, TypeOK, DueOpened, OpenedIsQueued
<1>c. OfType(t)' = OfType(t)
  BY <1>a DEF OfType, TypeOf
<1>d. \A i \in OfType(t) : i \in Ids /\ (i \in S <=> i \in due[t])
  BY <1>a, <1>b, ConfigAssumption DEF OfType, TypeOK, Ids
<1>e. WaitingOpened /\ WaitingOpened'
  <2>1. IInv' => WaitingOpened'
    BY WaitingIsOpened, PTL
  <2> QED
    BY <2>1, WaitingIsOpened
<1>f. \A i \in Ids : call'[i] = IF i \in big THEN "over"
                                ELSE IF i \in S THEN "sent" ELSE call[i]
  BY <1>a
<1>g. big \subseteq S
  OBVIOUS
<1> HIDE DEF S, big
<1>1. due[t] \subseteq Waiting(t)
  BY <1>b, <1>e DEF WaitingOpened, OfType
<1>2. Waiting(t)' = Waiting(t) \ due[t]
  <2>1. \A i \in OfType(t) : call'[i] = "opened" <=> call[i] = "opened" /\ i \notin due[t]
    BY <1>d, <1>f, <1>g
  <2> QED
    BY <1>c, <1>e, <2>1 DEF WaitingOpened
<1>3. current'[t] = current[t] \cup due[t] /\ due'[t] = {}
  BY <1>a DEF Nothing
<1>4. \A i \in due[t] : i \notin done
  BY <1>b DEF IInv, SlotsHeld
<1>5. Released(t)' = Released(t)
  BY <1>a, <1>c, <1>d, <1>g, <1>3, <1>4 DEF Released
<1> QED
  BY <1>1, <1>2, <1>3, <1>5

(* A render moves nothing between the queues. *)
LEMMA IdleQueues ==
  ASSUME IInv, IInv', Idle, NEW t \in Types
  PROVE  UNCHANGED queue(t)
<1>1. WaitingOpened /\ WaitingOpened'
  <2>1. IInv' => WaitingOpened'
    BY WaitingIsOpened, PTL
  <2> QED
    BY <2>1, WaitingIsOpened
<1>2. OfType(t)' = OfType(t)
  BY DEF Idle, OfType, TypeOf
<1> QED
  BY <1>1, <1>2 DEF queue, Idle, WaitingOpened, Released

LEMMA RenderIsIdle == Render => Idle
BY DEF Render, Idle, items, requests


(* What is due stays ahead of what waits. *)
LEMMA NextDueOldest == QInv /\ IInv' /\ [Next]_vars => DueOldest'
<1> SUFFICES ASSUME QInv, IInv', [Next]_vars, NEW t \in Types,
                    NEW i \in due'[t], NEW j \in Waiting(t)' \ due'[t]
             PROVE  i < j
  BY DEF DueOldest
<1>a. IInv /\ (i \in due[t] /\ j \in Waiting(t) \ due[t] => i < j)
  BY DEF QInv, DueOldest
<1>1. CASE Idle /\ due' = due
  BY <1>a, <1>1, IdleQueues DEF queue
<1>2. CASE Render
  <2>1. Waiting(t)' = Waiting(t)
    BY <1>a, <1>2, RenderIsIdle, IdleQueues DEF queue
  <2>2. due'[t] \in Oldest(Waiting(t), Free(t))
    BY <1>2 DEF Render, Types
  <2> QED
    BY <2>1, <2>2 DEF Oldest
<1>3. ASSUME NEW n \in Nat, Adding(n) PROVE i < j
  <2>1. i \in due[t] /\ i \in 1..created /\ due' = due
    BY <1>a, <1>3, AddingQueues DEF IInv, TypeOK
  <2>2. j \in Waiting(t) \/ j \in Fresh(n)
    BY <1>a, <1>3, AddingQueues
  <2> QED
    BY <1>a, <1>3, <2>1, <2>2, AddingQueues
<1>4. ASSUME NEW k \in 1..created, Ending(k) PROVE i < j
  BY <1>a, <1>4, EndingQueues
<1>5. CASE Effect
  BY <1>a, <1>5, EffectQueues
<1> QED
  BY <1>a, <1>1, <1>2, <1>3, <1>4, <1>5, Shapes

LEMMA QueueInvariant == Spec => []QInv
<1>1. Init => QInv
  BY InitInv DEF QInv, Init, Nothing, DueOldest
<1>2. QInv /\ [Next]_vars => QInv'
  <2>1. QInv => IInv
    BY DEF QInv
  <2>2. DueOldest' /\ IInv' => QInv'
    BY DEF QInv
  <2> QED
    BY <2>1, <2>2, NextInv, NextDueOldest
<1> QED
  BY <1>1, <1>2, PTL DEF Spec

(* How every step moves the transfers of a type between the three parts of *)
(* their queue.                                                            *)
LEMMA QueueStep ==
  ASSUME QInv, IInv', [Next]_vars, NEW t \in Types
  PROVE  \/ UNCHANGED queue(t)
         \/ \E S \in SUBSET Ids :
              /\ \A i \in S, j \in Waiting(t) \cup current[t] \cup Released(t) : j < i
              /\ Waiting(t)' = Waiting(t) \cup S
              /\ current'[t] = current[t] /\ Released(t)' = Released(t)
         \/ \E S \in SUBSET Waiting(t) :
              /\ \A i \in S, j \in Waiting(t) \ S : i < j
              /\ Cardinality(current[t] \cup S) <= Limit(t)
              /\ Waiting(t)' = Waiting(t) \ S
              /\ current'[t] = current[t] \cup S /\ Released(t)' = Released(t)
         \/ \E i \in current[t] :
              /\ current'[t] = current[t] \ {i}
              /\ Released(t)' = Released(t) \cup {i}
              /\ Waiting(t)' = Waiting(t)
<1>a. IInv /\ TypeOK /\ DueOldest
  BY DEF QInv, IInv
<1>1. CASE Idle \/ Render
  BY <1>a, <1>1, RenderIsIdle, IdleQueues
<1>2. ASSUME NEW n \in Nat, Adding(n)
      PROVE  \/ UNCHANGED queue(t)
             \/ \E S \in SUBSET Ids :
                  /\ \A i \in S, j \in Waiting(t) \cup current[t] \cup Released(t) : j < i
                  /\ Waiting(t)' = Waiting(t) \cup S
                  /\ current'[t] = current[t] /\ Released(t)' = Released(t)
  <2>1. Waiting(t) \cup current[t] \cup Released(t) \subseteq 1..created
    BY <1>a DEF TypeOK, Waiting, Released, OfType
  <2>2. \A i \in Fresh(n), j \in Waiting(t) \cup current[t] \cup Released(t) : j < i
    BY <1>a, <1>2, <2>1, AddingQueues
  <2>3. /\ current'[t] = current[t] /\ Released(t)' = Released(t)
        /\ Fresh(n) \in SUBSET Ids
    BY <1>a, <1>2, AddingQueues
  <2>4. Waiting(t)' = Waiting(t) \/ Waiting(t)' = Waiting(t) \cup Fresh(n)
    BY <1>a, <1>2, AddingQueues
  <2>5. CASE Waiting(t)' = Waiting(t)
    BY <2>3, <2>5 DEF queue
  <2>6. CASE Waiting(t)' = Waiting(t) \cup Fresh(n)
    BY <2>2, <2>3, <2>6
  <2> QED
    BY <2>4, <2>5, <2>6
<1>3. ASSUME NEW i \in 1..created, Ending(i)
      PROVE  \/ UNCHANGED queue(t)
             \/ /\ i \in current[t] /\ current'[t] = current[t] \ {i}
                /\ Released(t)' = Released(t) \cup {i}
                /\ Waiting(t)' = Waiting(t)
  BY <1>a, <1>3, EndingQueues DEF queue
<1>4. CASE Effect
  <2>1. /\ due[t] \in SUBSET Waiting(t)
        /\ Waiting(t)' = Waiting(t) \ due[t]
        /\ current'[t] = current[t] \cup due[t] /\ Released(t)' = Released(t)
    BY <1>a, <1>4, EffectQueues
  <2>2. \A i \in due[t], j \in Waiting(t) \ due[t] : i < j
    BY <1>a DEF DueOldest
  <2>3. Cardinality(current[t] \cup due[t]) <= Limit(t)
    BY <1>a DEF IInv, SlotBound
  <2> QED
    BY <2>1, <2>2, <2>3
<1> QED
  BY <1>a, <1>1, <1>2, <1>3, <1>4, Shapes

(* The object manager gives out the slots of each type in order of arrival,*)
(* never more than there are, and never twice to the same transfer.        *)
THEOREM SlotsGivenInOrder == Spec => GivesSlotsInOrder
<1>1. Init => Downloads!Init /\ Uploads!Init
  BY DEF Init, Nothing, Types, Downloads!Init, Uploads!Init, Waiting, OfType
<1>2. QInv /\ IInv' /\ [Next]_vars => [Downloads!Next]_(Downloads!vars)
  <2> DEFINE W == Waiting("download")
             H == current["download"]
             R == Released("download")
  <2> SUFFICES ASSUME QInv, IInv', [Next]_vars
               PROVE  [Downloads!Next]_(Downloads!vars)
    OBVIOUS
  <2>0. "download" \in Types
    BY DEF Types
  <2>1. CASE UNCHANGED <<W, H, R>>
    BY <2>1 DEF Downloads!vars, Released
  <2>2. ASSUME NEW S \in SUBSET Ids, \A i \in S, j \in W \cup H \cup R : j < i,
               W' = W \cup S, H' = H, R' = R
        PROVE  Downloads!Enqueue(S)
    BY <2>2 DEF Downloads!Enqueue, Released
  <2>3. ASSUME NEW S \in SUBSET W, \A i \in S, j \in W \ S : i < j,
               Cardinality(H \cup S) <= Limit("download"),
               W' = W \ S, H' = H \cup S, R' = R
        PROVE  Downloads!Take(S)
    <3>1. Downloads!Cardinality(H \cup S) = Cardinality(H \cup S)
      BY DEF Cardinality, Downloads!Cardinality
    <3> QED
      BY <2>3, <3>1 DEF Downloads!Take, Released
  <2>4. ASSUME NEW i \in H, H' = H \ {i}, R' = R \cup {i}, W' = W
        PROVE  Downloads!Release(i)
    BY <2>4 DEF Downloads!Release, Released
  <2>5. \/ UNCHANGED <<W, H, R>>
        \/ \E S \in SUBSET Ids :
             /\ \A i \in S, j \in W \cup H \cup R : j < i
             /\ W' = W \cup S /\ H' = H /\ R' = R
        \/ \E S \in SUBSET W :
             /\ \A i \in S, j \in W \ S : i < j
             /\ Cardinality(H \cup S) <= Limit("download")
             /\ W' = W \ S /\ H' = H \cup S /\ R' = R
        \/ \E i \in H : H' = H \ {i} /\ R' = R \cup {i} /\ W' = W
    BY <2>0, QueueStep DEF queue
  <2> HIDE DEF H, R
  <2> QED
    BY <2>1, <2>2, <2>3, <2>4, <2>5 DEF Downloads!Next, H
<1>3. QInv /\ IInv' /\ [Next]_vars => [Uploads!Next]_(Uploads!vars)
  <2> DEFINE W == Waiting("upload")
             H == current["upload"]
             R == Released("upload")
  <2> SUFFICES ASSUME QInv, IInv', [Next]_vars
               PROVE  [Uploads!Next]_(Uploads!vars)
    OBVIOUS
  <2>0. "upload" \in Types
    BY DEF Types
  <2>1. CASE UNCHANGED <<W, H, R>>
    BY <2>1 DEF Uploads!vars, Released
  <2>2. ASSUME NEW S \in SUBSET Ids, \A i \in S, j \in W \cup H \cup R : j < i,
               W' = W \cup S, H' = H, R' = R
        PROVE  Uploads!Enqueue(S)
    BY <2>2 DEF Uploads!Enqueue, Released
  <2>3. ASSUME NEW S \in SUBSET W, \A i \in S, j \in W \ S : i < j,
               Cardinality(H \cup S) <= Limit("upload"),
               W' = W \ S, H' = H \cup S, R' = R
        PROVE  Uploads!Take(S)
    <3>1. Uploads!Cardinality(H \cup S) = Cardinality(H \cup S)
      BY DEF Cardinality, Uploads!Cardinality
    <3> QED
      BY <2>3, <3>1 DEF Uploads!Take, Released
  <2>4. ASSUME NEW i \in H, H' = H \ {i}, R' = R \cup {i}, W' = W
        PROVE  Uploads!Release(i)
    BY <2>4 DEF Uploads!Release, Released
  <2>5. \/ UNCHANGED <<W, H, R>>
        \/ \E S \in SUBSET Ids :
             /\ \A i \in S, j \in W \cup H \cup R : j < i
             /\ W' = W \cup S /\ H' = H /\ R' = R
        \/ \E S \in SUBSET W :
             /\ \A i \in S, j \in W \ S : i < j
             /\ Cardinality(H \cup S) <= Limit("upload")
             /\ W' = W \ S /\ H' = H \cup S /\ R' = R
        \/ \E i \in H : H' = H \ {i} /\ R' = R \cup {i} /\ W' = W
    BY <2>0, QueueStep DEF queue
  <2> HIDE DEF H, R
  <2> QED
    BY <2>1, <2>2, <2>3, <2>4, <2>5 DEF Uploads!Next, H
<1> QED
  BY <1>1, <1>2, <1>3, QueueInvariant, Invariant, PTL
  DEF Spec, GivesSlotsInOrder, Downloads!Spec, Uploads!Spec

-----------------------------------------------------------------------------
(* Which slots and promises are lost.                                      *)

(* A transfer in flight is listed, or was cleaned at 100 percent. *)
SentIsListed ==
  \A i \in 1..created : call[i] = "sent" => i \in listed \cup full

(* A transfer that is over lost its slot or its promise in a known way. *)
SlotOf(i) ==
  call[i] = "over" /\ i \in current[TypeOf(kind[i])]
    => kind[i] = "big" \/ i \in full \ done \/ Unparsed(i)
PromiseOf(i) ==
  IsUpload(i) /\ call[i] = "over" /\ promise[i] = "pending"
    => i \in cancelled \/ i \in (full \ done) \ listed

Accounts == SentIsListed /\ (\A i \in 1..created : SlotOf(i) /\ PromiseOf(i))
AInv == IInv /\ Accounts

(* A request in flight ends: its item gives up the slot when it is found,  *)
(* and its promise is settled or the item was cancelled or cleaned.        *)
LEMMA EndAccounts ==
  ASSUME AInv, IInv', NEW i \in 1..created, Finish(i), Rest,
         \/ i \in listed /\ done' = done \cup {i} /\ FreeSlot(i)
         \/ (i \notin listed \/ ~IsUpload(i)) /\ UNCHANGED <<done, current, full>>,
         full \ {i} \subseteq full', cancelled \subseteq cancelled',
         \A j \in 1..created : j # i => promise'[j] = promise[j],
         \/ promise'[i] # "pending" \/ i \in cancelled'
         \/ i \notin listed \/ ~IsUpload(i)
  PROVE  Accounts'
<1>a. TypeOK /\ UNCHANGED <<created, kind, listed>>
  BY DEF AInv, IInv, Rest, items
<1>b. /\ call[i] = "sent" /\ call'[i] = "over"
      /\ \A j \in 1..created : j # i => call'[j] = call[j]
  <2>1. i \in Ids /\ \A j \in 1..created : j \in Ids
    BY <1>a, ConfigAssumption DEF TypeOK, Ids
  <2> QED
    BY <1>a, <2>1 DEF Finish, TypeOK
<1>c. TypeOf(kind[i]) \in Types
  BY Zenon DEF TypeOf, Types
<1>d. \A t \in Types : current'[t] \subseteq current[t]
  BY <1>a, <1>c DEF FreeSlot, TypeOK
<1>e. i \notin done /\ i \in listed \cup full
  BY <1>b DEF AInv, IInv, SlotsHeld, Accounts, SentIsListed
<1>1. ASSUME NEW j \in 1..created, j # i
      PROVE  /\ call'[j] = "sent" => j \in listed' \cup full'
             /\ SlotOf(j)' /\ PromiseOf(j)'
  <2>1. /\ call'[j] = call[j] /\ promise'[j] = promise[j] /\ kind'[j] = kind[j]
        /\ j \in done' <=> j \in done
        /\ j \in full => j \in full'
        /\ j \in cancelled => j \in cancelled'
        /\ listed' = listed
    BY <1>a, <1>b, <1>1
  <2>2. TypeOf(kind[j]) \in Types /\ TypeOf(kind[j])' = TypeOf(kind[j])
    BY <2>1, Zenon DEF TypeOf, Types
  <2>3. j \in current'[TypeOf(kind[j])] => j \in current[TypeOf(kind[j])]
    BY <1>d, <2>2
  <2>4. SlotOf(j) /\ PromiseOf(j) /\ (call[j] = "sent" => j \in listed \cup full)
    BY DEF AInv, Accounts, SentIsListed
  <2>5. SlotOf(j)'
    BY <2>1, <2>2, <2>3, <2>4 DEF SlotOf, Unparsed, IsUpload
  <2>6. PromiseOf(j)'
    BY <2>1, <2>4 DEF PromiseOf, IsUpload
  <2> QED
    BY <2>1, <2>4, <2>5, <2>6
<1>2. SlotOf(i)'
  <2>1. CASE i \in listed /\ done' = done \cup {i} /\ FreeSlot(i)
    <3>1. i \notin current'[TypeOf(kind[i])]
      BY <1>a, <1>c, <2>1 DEF FreeSlot, TypeOK
    <3> QED
      BY <1>a, <3>1 DEF SlotOf
  <2>2. CASE (i \notin listed \/ ~IsUpload(i)) /\ UNCHANGED <<done, current, full>>
    BY <1>a, <1>e, <2>2 DEF SlotOf, Unparsed, IsUpload
  <2> QED
    BY <2>1, <2>2
<1>3. PromiseOf(i)'
  <2>1. CASE promise'[i] # "pending" \/ i \in cancelled' \/ ~IsUpload(i)
    BY <1>a, <2>1 DEF PromiseOf, IsUpload
  <2>2. CASE i \notin listed
    BY <1>a, <1>e, <2>2 DEF PromiseOf
  <2> QED
    BY <2>1, <2>2
<1> QED
  BY <1>a, <1>b, <1>1, <1>2, <1>3 DEF Accounts, SentIsListed

(* Any other step leaves what is over as it is, but for transfers handed   *)
(* to the browser.                                                         *)
LEMMA OtherAccounts ==
  ASSUME AInv, IInv', created' \in Nat, created <= created',
         \A j \in 1..created :
           /\ kind'[j] = kind[j] /\ promise'[j] = promise[j]
           /\ \/ call'[j] = call[j]
              \/ call'[j] = "sent" /\ j \in listed'
              \/ call'[j] = "over" /\ kind[j] = "big"
           /\ j \in done' => j \in done \/ kind[j] = "big"
           /\ j \in listed => j \in listed' \cup full' \/ call'[j] # "sent"
           /\ j \in listed' => j \in listed
           /\ \A t \in Types : j \in current'[t] =>
                j \in current[t] \/ call'[j] # "over" \/ kind[j] = "big",
         \A j \in 1..created' : j \notin 1..created => call'[j] = "opened",
         full \subseteq full', cancelled \subseteq cancelled'
  PROVE  Accounts'
<1> SUFFICES ASSUME NEW j \in 1..created'
             PROVE  /\ call'[j] = "sent" => j \in listed' \cup full'
                    /\ SlotOf(j)' /\ PromiseOf(j)'
  BY DEF Accounts, SentIsListed
<1>1. CASE j \notin 1..created
  BY <1>1 DEF SlotOf, PromiseOf
<1>2. CASE j \in 1..created
  <2>1. /\ SlotOf(j) /\ PromiseOf(j)
        /\ call[j] = "sent" => j \in listed \cup full
    BY <1>2 DEF AInv, Accounts, SentIsListed
  <2>2. kind'[j] = kind[j] /\ promise'[j] = promise[j]
    BY <1>2
  <2>3. TypeOf(kind[j]) \in Types /\ TypeOf(kind[j])' = TypeOf(kind[j])
    BY <2>2, Zenon DEF TypeOf, Types
  <2>4. CASE call'[j] = call[j]
    <3>1. SlotOf(j)'
      BY <1>2, <2>1, <2>2, <2>3, <2>4 DEF SlotOf, Unparsed, IsUpload
    <3>2. PromiseOf(j)'
      BY <1>2, <2>1, <2>2, <2>4 DEF PromiseOf, IsUpload
    <3> QED
      BY <1>2, <2>1, <2>4, <3>1, <3>2
  <2>5. CASE call'[j] = "sent" /\ j \in listed'
    BY <2>5 DEF SlotOf, PromiseOf
  <2>6. CASE call'[j] = "over" /\ kind[j] = "big"
    BY <2>2, <2>6 DEF SlotOf, PromiseOf, IsUpload
  <2> QED
    BY <1>2, <2>4, <2>5, <2>6
<1> QED
  BY <1>1, <1>2

LEMMA NextAccounts == AInv /\ IInv' /\ [Next]_vars => Accounts'
<1> SUFFICES ASSUME AInv, IInv', [Next]_vars PROVE Accounts'
  OBVIOUS
<1>a. /\ TypeOK /\ IInv /\ MaxItems \in Nat /\ created \in Nat /\ created' \in Nat
      /\ \A i \in 1..created : i \in Ids
  BY ConfigAssumption DEF AInv, IInv, TypeOK, Ids
<1>s. ASSUME NEW i \in 1..created, NEW how \in {"resolved", "rejected"}, Settle(i, how)
      PROVE  /\ promise'[i] # "pending"
             /\ \A j \in 1..created : j # i => promise'[j] = promise[j]
  BY <1>a, <1>s DEF Settle, TypeOK
<1>n. ASSUME NEW n \in Nat, New(n),
             \A j \in 1..created : kind'[j] = kind[j] /\ promise'[j] = promise[j]
      PROVE  Accounts'
  <2>1. /\ created' = created + n /\ listed' = listed \cup Fresh(n)
        /\ UNCHANGED <<done, cancelled, full, current>>
        /\ \A j \in 1..created' : j \in Ids
    BY <1>a, <1>n DEF New, Ids
  <2>2. \A j \in 1..created : j \notin Fresh(n) /\ call'[j] = call[j]
    BY <1>a, <1>n DEF New, Fresh
  <2>3. \A j \in 1..created' : j \notin 1..created => call'[j] = "opened"
    BY <1>a, <1>n, <2>1 DEF New, Fresh
  <2> QED
    BY <1>a, <1>n, <2>1, <2>2, <2>3, OtherAccounts
<1>1. ASSUME NEW k \in Kinds \ {"upload"}, NewDownload(k) PROVE Accounts'
  <2>1. New(1) /\ promise' = promise
    BY <1>1 DEF NewDownload
  <2>2. \A j \in 1..created : kind'[j] = kind[j]
    BY <1>a, <1>1 DEF NewDownload, TypeOK
  <2> QED
    BY <1>n, <2>1, <2>2
<1>2. ASSUME NEW n \in BatchSizes, NewUploads(n) PROVE Accounts'
  <2>1. n \in Nat /\ New(n)
    BY <1>2, ConfigAssumption DEF NewUploads
  <2>2. \A j \in 1..created : kind'[j] = kind[j] /\ promise'[j] = promise[j]
    BY <1>a, <1>2, <2>1 DEF NewUploads, Fresh
  <2> QED
    BY <1>n, <2>1, <2>2
<1>3. CASE Render
  BY <1>a, <1>3, OtherAccounts DEF Render, items, requests
<1>4. CASE Effect
  <2> DEFINE S == traces \cap UNION {due[t] : t \in Types}
             big == {i \in S : kind[i] = "big"}
  <2>1. /\ call' = [i \in Ids |-> IF i \in big THEN "over"
                                  ELSE IF i \in S THEN "sent" ELSE call[i]]
        /\ done' = done \cup (big \cap listed)
        /\ full' = full \cup (big \cap listed)
        /\ current' = [t \in Types |-> current[t] \cup due[t]]
        /\ UNCHANGED <<created, kind, listed, cancelled, promise>>
    BY <1>4 DEF Effect, items
  <2>2. \A t \in Types : \A j \in due[t] :
          j \in 1..created /\ call[j] = "opened" /\ j \in listed \cap traces
    BY <1>a DEF IInv, TypeOK, DueOpened, OpenedIsQueued
  <2>3. \A j \in S : j \in listed /\ call[j] = "opened"
    BY <2>2
  <2>4. \A t \in Types : \A j \in due[t] : j \in S
    BY <2>2
  <2>5. \A j \in big : j \in S /\ kind[j] = "big"
    OBVIOUS
  <2> HIDE DEF S, big
  <2>6. ASSUME NEW j \in 1..created
        PROVE  /\ \/ call'[j] = call[j]
                  \/ call'[j] = "sent" /\ j \in listed'
                  \/ call'[j] = "over" /\ kind[j] = "big"
               /\ j \in done' => j \in done \/ kind[j] = "big"
               /\ \A t \in Types : j \in current'[t] =>
                    j \in current[t] \/ call'[j] # "over" \/ kind[j] = "big"
    <3>1. call'[j] = IF j \in big THEN "over" ELSE IF j \in S THEN "sent" ELSE call[j]
      BY <1>a, <2>1
    <3>2. ASSUME NEW t \in Types, j \in current'[t], j \notin current[t]
          PROVE  call'[j] # "over" \/ kind[j] = "big"
      BY <2>1, <2>4, <2>5, <3>1, <3>2
    <3> QED
      BY <2>1, <2>3, <2>5, <3>1, <3>2
  <2> QED
    BY <1>a, <2>1, <2>6, OtherAccounts
<1>5. CASE cleanList
  BY <1>a, <1>5, OtherAccounts DEF cleanList, items, requests
<1>6. ASSUME NEW i \in 1..created, Progress(i) PROVE Accounts'
  BY <1>a, <1>6, OtherAccounts DEF Progress, items, requests
<1>7. ASSUME NEW i \in 1..created, Succeed(i) PROVE Accounts'
  <2>1. \/ i \in listed /\ done' = done \cup {i} /\ FreeSlot(i) /\ full' = full \cup {i}
        \/ i \notin listed /\ UNCHANGED <<done, current, full>>
    BY <1>7 DEF Succeed, completeObject
  <2>2. Finish(i) /\ Rest /\ cancelled' = cancelled
    BY <1>7 DEF Succeed, completeObject
  <2>3. /\ \A j \in 1..created : j # i => promise'[j] = promise[j]
        /\ promise'[i] # "pending" \/ ~IsUpload(i)
    BY <1>7, <1>s DEF Succeed
  <2> QED
    BY <2>1, <2>2, <2>3, EndAccounts
<1>8. ASSUME NEW i \in 1..created, Refuse(i) PROVE Accounts'
  <2>1. \/ i \in listed /\ done' = done \cup {i} /\ FreeSlot(i)
        \/ i \notin listed /\ UNCHANGED <<done, current, full>>
    BY <1>8 DEF Refuse, failObject
  <2>2. Finish(i) /\ Rest /\ cancelled' = cancelled /\ full' = full
    BY <1>8 DEF Refuse, failObject
  <2>3. /\ \A j \in 1..created : j # i => promise'[j] = promise[j]
        /\ promise'[i] # "pending" \/ i \notin listed \/ ~IsUpload(i)
    BY <1>8, <1>s DEF Refuse
  <2> QED
    BY <2>1, <2>2, <2>3, EndAccounts
<1>9. ASSUME NEW i \in 1..created, RefuseWithJson(i) PROVE Accounts'
  BY <1>9, EndAccounts DEF RefuseWithJson
<1>10. ASSUME NEW i \in 1..created, NetworkError(i) PROVE Accounts'
  <2>1. \/ i \in listed /\ done' = done \cup {i} /\ FreeSlot(i)
        \/ i \notin listed /\ UNCHANGED <<done, current, full>>
    BY <1>10 DEF NetworkError, failObject
  <2>2. Finish(i) /\ Rest /\ cancelled' = cancelled /\ full' = full
    BY <1>10 DEF NetworkError, failObject
  <2>3. /\ \A j \in 1..created : j # i => promise'[j] = promise[j]
        /\ promise'[i] # "pending" \/ ~IsUpload(i)
    BY <1>10, <1>s DEF NetworkError
  <2> QED
    BY <2>1, <2>2, <2>3, EndAccounts
<1>11. ASSUME NEW i \in 1..created, Abort(i) PROVE Accounts'
  <2>1. /\ i \in listed /\ done' = done \cup {i} /\ FreeSlot(i)
        /\ cancelled' = cancelled \cup {i} /\ full' = full \ {i}
        /\ Finish(i) /\ Rest /\ promise' = promise
    BY <1>11 DEF Abort, cancelObjectInList
  <2> QED
    BY <2>1, EndAccounts
<1>12. ASSUME NEW i \in 1..created, deleteFromList(i) PROVE Accounts'
  <2>1. /\ call[i] = "over" /\ listed' = listed \ {i}
        /\ UNCHANGED <<created, kind, done, cancelled, full, current, call, promise>>
    BY <1>a, <1>12 DEF deleteFromList, IInv, SlotsHeld, items, requests
  <2> QED
    BY <1>a, <2>1, OtherAccounts
<1>13. ASSUME NEW b \in 1..created, AllSettled(b) PROVE Accounts'
  BY <1>a, <1>13, OtherAccounts DEF AllSettled, items, requests
<1>14. CASE UNCHANGED vars
  BY <1>a, <1>14, OtherAccounts DEF vars, items, requests
<1> QED
  BY <1>1, <1>2, <1>3, <1>4, <1>5, <1>6, <1>7, <1>8, <1>9, <1>10, <1>11, <1>12,
     <1>13, <1>14 DEF Next

LEMMA AccountsInvariant == Spec => []AInv
<1>1. Init => AInv
  <2>1. Init => created = 0 /\ 1..0 = {}
    BY DEF Init
  <2>2. Init => Accounts
    BY <2>1 DEF Accounts, SentIsListed
  <2> QED
    BY <2>2, InitInv DEF AInv
<1>2. AInv /\ [Next]_vars => AInv'
  BY NextInv, NextAccounts DEF AInv
<1> QED
  BY <1>1, <1>2, PTL DEF Spec

(* A slot that is never given back belongs to a transfer handed to the     *)
(* browser, to an item cleaned while it was in flight, or to a refused     *)
(* download whose answer could not be parsed.                              *)
THEOREM SlotsAccounted == Spec => []SlotAccounting
<1>1. ASSUME AInv PROVE SlotAccounting
  <2> SUFFICES ASSUME NEW t \in Types, NEW i \in Leaked(t)
               PROVE  kind[i] = "big" \/ i \in full \ done \/ Unparsed(i)
    BY DEF SlotAccounting
  <2>1. i \in 1..created /\ i \in current[t] /\ call[i] = "over"
    BY <1>1 DEF AInv, IInv, TypeOK, Leaked
  <2>2. t = TypeOf(kind[i])
    BY <1>1, <2>1 DEF AInv, IInv, SlotsHeld
  <2> QED
    BY <1>1, <2>1, <2>2 DEF AInv, Accounts, SlotOf
<1> QED
  BY <1>1, AccountsInvariant, PTL

(* An upload that is over has settled its promise, unless it was cancelled *)
(* or its item cleaned while it was in flight.                             *)
THEOREM PromisesAccounted == Spec => []PromiseAccounting
<1>1. AInv => PromiseAccounting
  BY DEF AInv, Accounts, PromiseOf, PromiseAccounting
<1> QED
  BY <1>1, AccountsInvariant, PTL

-----------------------------------------------------------------------------
(* Nothing is stuck but by what leaks, and nothing goes on for ever: what  *)
(* QueueMoves and BatchReloads rest on besides fairness.                   *)

(* The guard of Render: a choice of transfers to start that is not empty.  *)
CanRender ==
  /\ due = Nothing
  /\ \E d \in Oldest(Waiting("download"), Free("download")),
        u \in Oldest(Waiting("upload"), Free("upload")) :
       [t \in Types |-> IF t = "download" THEN d ELSE u] # Nothing

(* The guards of what must happen by itself: an effect, a render, or the   *)
(* answer to a request of that type.                                       *)
GoesOn(t) == due # Nothing \/ CanRender \/ Sent \cap OfType(t) # {}

(* A queued transfer has something to come that can start it.              *)
QueueNotStuck ==
  \A i \in 1..created :
    call[i] = "opened" => Jammed(TypeOf(kind[i])) \/ GoesOn(TypeOf(kind[i]))

AllAnswered(b) == \A i \in BatchOf(b) : promise[i] \in {"resolved", "rejected"}

(* A batch that has not asked for its reload can, or will be able to.      *)
BatchNotStuck ==
  \A b \in Ids : BatchOf(b) # {} =>
    \/ b \in reloaded \/ Lost(b) \/ Jammed("upload")
    \/ GoesOn("upload") \/ AllAnswered(b)

(* A set of numbers has a least one.                                       *)
LEMMA Least ==
  ASSUME NEW T, T \subseteq Nat, T # {}
  PROVE  \E x \in T : \A y \in T : x <= y
<1>1. PICK x \in T : \A y \in T : ~(<<y, x>> \in OpToRel(<, Nat))
  BY NatLessThanWellFounded, WFMin, Zenon
<1>2. \A y \in T : ~(y < x)
  BY <1>1, Zenon DEF OpToRel
<1> QED
  BY <1>2

(* Waiting transfers can be taken from the front, whatever the number of   *)
(* free slots: one more is taken by adding the oldest of those left.       *)
LEMMA OldestExists ==
  ASSUME NEW m \in Nat, NEW W \in SUBSET (1..m), NEW n \in Nat
  PROVE  Oldest(W, n) # {}
<1> DEFINE Unable == {k \in Nat : Oldest(W, k) = {}}
<1>1. 0 \notin Unable
  <2>1. {} \in Oldest(W, 0)
    BY FS_EmptySet DEF Oldest
  <2> QED
    BY <2>1
<1>2. ASSUME NEW k \in Nat, Oldest(W, k) # {} PROVE Oldest(W, k + 1) # {}
  <2>1. PICK S \in Oldest(W, k) : TRUE
    BY <1>2
  <2>2. /\ S \in SUBSET W /\ Cardinality(S) <= k
        /\ S # W => Cardinality(S) = k
        /\ \A i \in S, j \in W \ S : i < j
    BY <2>1 DEF Oldest
  <2>3. S \in SUBSET (1..m) /\ IsFiniteSet(S) /\ Cardinality(S) \in Nat
    <3>1. S \in SUBSET (1..m)
      BY <2>2
    <3> QED
      BY <3>1, SetsOfTransfers
  <2>4. CASE S = W
    <3>1. S \in Oldest(W, k + 1)
      BY <2>2, <2>3, <2>4 DEF Oldest
    <3> QED
      BY <3>1
  <2>5. CASE S # W
    <3>0. W \subseteq Nat
      OBVIOUS
    <3>1. W \ S \subseteq Nat /\ W \ S # {}
      BY <2>2, <2>5, <3>0
    <3>2. PICK x \in W \ S : \A y \in W \ S : x <= y
      BY <3>1, Least
    <3>3. Cardinality(S \cup {x}) = k + 1
      BY <2>2, <2>3, <2>5, <3>2, FS_AddElement
    <3>4. ASSUME NEW i \in S \cup {x}, NEW j \in W \ (S \cup {x}) PROVE i < j
      <4>1. j \in W \ S /\ j # x /\ x \in Nat /\ j \in Nat
        BY <3>1, <3>2
      <4> QED
        BY <2>2, <3>2, <4>1
    <3>5. S \cup {x} \in SUBSET W
      BY <2>2
    <3>6. S \cup {x} \in Oldest(W, k + 1)
      BY <3>3, <3>4, <3>5 DEF Oldest
    <3> QED
      BY <3>6
  <2> QED
    BY <2>4, <2>5
<1>3. Unable = {}
  <2> SUFFICES ASSUME Unable # {} PROVE FALSE
    OBVIOUS
  <2>1. PICK x \in Unable : \A y \in Unable : x <= y
    <3>1. Unable \subseteq Nat
      OBVIOUS
    <3> HIDE DEF Unable
    <3> QED
      BY <3>1, Least
  <2>2. x \in Nat /\ x # 0 /\ Oldest(W, x) = {}
    BY <1>1, <2>1
  <2>3. x - 1 \in Nat /\ x - 1 \notin Unable /\ (x - 1) + 1 = x
    BY <2>1, <2>2
  <2>4. Oldest(W, x - 1) # {}
    BY <2>3
  <2> QED
    BY <1>2, <2>2, <2>3, <2>4
<1> QED
  BY <1>3

(* With a slot free and something waiting for it, a render gives it out.   *)
LEMMA FreeSlotRenders ==
  ASSUME IInv, due = Nothing, NEW t \in Types, Waiting(t) # {},
         Cardinality(current[t]) < Limit(t)
  PROVE  CanRender
<1>1. \A u \in Types : Cardinality(current[u]) \in Nat /\ Free(u) \in Nat
  <2> TAKE u \in Types
  <2>1. created \in Nat /\ current[u] \in SUBSET (1..created)
    BY ConfigAssumption DEF IInv, TypeOK
  <2>2. Cardinality(current[u]) \in Nat
    BY <2>1, SetsOfTransfers
  <2> QED
    BY <2>2, LimitNat DEF Free
<1>2. \A u \in Types : Oldest(Waiting(u), Free(u)) # {}
  <2> TAKE u \in Types
  <2>1. created \in Nat /\ Waiting(u) \in SUBSET (1..created)
    BY ConfigAssumption DEF IInv, TypeOK, Waiting, OfType
  <2> QED
    BY <1>1, <2>1, OldestExists
<1>3. ASSUME NEW S \in Oldest(Waiting(t), Free(t)) PROVE S # {}
  <2>1. Free(t) # 0
    BY <1>1, LimitNat DEF Free
  <2> QED
    BY <1>3, <2>1, FS_EmptySet DEF Oldest
<1>4. "download" \in Types /\ "upload" \in Types
  BY DEF Types
<1>5. PICK d \in Oldest(Waiting("download"), Free("download")),
           u \in Oldest(Waiting("upload"), Free("upload")) : TRUE
  BY <1>2, <1>4
<1> DEFINE chosen == [s \in Types |-> IF s = "download" THEN d ELSE u]
<1>6. chosen[t] # {}
  BY <1>3, <1>5 DEF Types
<1>7. chosen # Nothing
  <2>1. Nothing[t] = {}
    BY DEF Nothing
  <2> HIDE DEF chosen
  <2> QED
    BY <1>6, <2>1
<1> QED
  BY <1>5, <1>7 DEF CanRender

(* Where no answer, render or effect is to come, a transfer still queued   *)
(* finds every slot held by one that is over.                              *)
LEMMA QueuedIsServed == IInv => QueueNotStuck
<1> SUFFICES ASSUME IInv, NEW i \in 1..created, call[i] = "opened",
                    ~ GoesOn(TypeOf(kind[i]))
             PROVE  Jammed(TypeOf(kind[i]))
  BY DEF QueueNotStuck
<1> DEFINE t == TypeOf(kind[i])
<1>1. t \in Types
  BY Zenon DEF TypeOf, Types
<1>2. i \in Waiting(t)
  BY <1>1, WaitingIsOpened DEF WaitingOpened, OfType
<1>3. due = Nothing /\ ~ CanRender /\ Sent \cap OfType(t) = {}
  BY DEF GoesOn
<1> HIDE DEF t
<1>4. created \in Nat /\ current[t] \in SUBSET (1..created)
  BY <1>1, ConfigAssumption DEF IInv, TypeOK
<1>5. Cardinality(current[t]) >= Limit(t)
  <2>1. Cardinality(current[t]) \in Nat
    BY <1>4, SetsOfTransfers
  <2> QED
    BY <1>1, <1>2, <1>3, <2>1, FreeSlotRenders, LimitNat
<1>6. Leaked(t) = current[t]
  <2>1. ASSUME NEW j \in current[t] PROVE call[j] = "over"
    <3>1. j \in 1..created /\ t = TypeOf(kind[j]) /\ call[j] \in {"sent", "over"}
      BY <1>1, <1>4 DEF IInv, SlotsHeld
    <3> QED
      BY <1>3, <3>1 DEF Sent, OfType
  <2> QED
    BY <2>1 DEF Leaked
<1> QED
  BY <1>5, <1>6 DEF Jammed, t

(* A transfer waits for a render, an effect or an answer that will come,   *)
(* unless the slots of its type are all lost.                              *)
THEOREM QueueGoesOn == Spec => []QueueNotStuck
BY Invariant, QueuedIsServed, PTL

(* Every upload has a promise.                                             *)
UploadsPromised == \A i \in 1..created : IsUpload(i) => promise[i] # "none"

LEMMA PromisedStep == IInv /\ UploadsPromised /\ [Next]_vars => UploadsPromised'
<1> SUFFICES ASSUME IInv, UploadsPromised, [Next]_vars PROVE UploadsPromised'
  OBVIOUS
<1>a. /\ TypeOK /\ created \in Nat /\ MaxItems \in Nat
      /\ \A i \in 1..created : i \in Ids
  BY ConfigAssumption DEF IInv, TypeOK, Ids
<1>b. ASSUME NEW i \in Ids, NEW how \in {"resolved", "rejected"}, NEW j \in Ids,
             Settle(i, how), promise[j] # "none"
      PROVE  promise'[j] # "none"
  BY <1>a, <1>b DEF Settle, TypeOK
<1>1. ASSUME NEW k \in Kinds \ {"upload"}, NewDownload(k) PROVE UploadsPromised'
  <2>1. /\ created' = created + 1 /\ created + 1 <= MaxItems
        /\ kind' = [kind EXCEPT ![created + 1] = k] /\ promise' = promise
    BY <1>1 DEF NewDownload, New
  <2>2. \A i \in 1..created' : i = created + 1 \/ (i \in 1..created /\ i # created + 1)
    BY <1>a, <2>1
  <2>3. created + 1 \in Ids
    BY <1>a, <2>1 DEF Ids
  <2> QED
    BY <1>a, <1>1, <2>1, <2>2, <2>3 DEF UploadsPromised, IsUpload, TypeOK
<1>2. ASSUME NEW n \in BatchSizes, NewUploads(n) PROVE UploadsPromised'
  <2>1. n \in Nat /\ created' = created + n /\ created + n <= MaxItems
    BY <1>2, ConfigAssumption DEF NewUploads, New
  <2>2. \A i \in 1..created' : i \in Ids /\ (i \in Fresh(n) \/ i \in 1..created)
    BY <1>a, <2>1 DEF Fresh, Ids
  <2>3. \A i \in Ids : /\ kind'[i] = IF i \in Fresh(n) THEN "upload" ELSE kind[i]
                       /\ promise'[i] = IF i \in Fresh(n) THEN "pending" ELSE promise[i]
    BY <1>2 DEF NewUploads
  <2> QED
    BY <2>2, <2>3 DEF UploadsPromised, IsUpload
<1>3. ASSUME NEW i \in 1..created, Succeed(i) \/ Refuse(i) \/ NetworkError(i)
      PROVE  UploadsPromised'
  <2>1. UNCHANGED <<created, kind>>
    BY <1>3 DEF Succeed, Refuse, NetworkError, Rest, items
  <2>2. promise' = promise \/ \E how \in {"resolved", "rejected"} : Settle(i, how)
    BY <1>3 DEF Succeed, Refuse, NetworkError
  <2> QED
    BY <1>a, <1>b, <2>1, <2>2 DEF UploadsPromised, IsUpload
<1>4. ASSUME NEW i \in 1..created,
             RefuseWithJson(i) \/ Abort(i) \/ Progress(i) \/ deleteFromList(i) \/ AllSettled(i)
      PROVE  UploadsPromised'
  BY <1>4 DEF RefuseWithJson, Abort, Progress, deleteFromList, AllSettled, Rest,
              items, requests, UploadsPromised, IsUpload
<1>5. CASE Render \/ Effect \/ cleanList \/ UNCHANGED vars
  BY <1>5 DEF Render, Effect, cleanList, vars, items, requests, UploadsPromised, IsUpload
<1> QED
  BY <1>1, <1>2, <1>3, <1>4, <1>5 DEF Next

(* A batch of uploads asks for its reload, or waits for an effect, a       *)
(* render or an answer that will come, unless a promise of it or every     *)
(* slot for uploads is lost.                                               *)
THEOREM BatchGoesOn == Spec => []BatchNotStuck
<1>1. Init => UploadsPromised
  <2>1. Init => created = 0 /\ 1..0 = {}
    BY DEF Init
  <2> QED
    BY <2>1 DEF UploadsPromised
<1>2. ASSUME IInv, UploadsPromised PROVE BatchNotStuck
  <2> SUFFICES ASSUME NEW b \in Ids, NEW i \in BatchOf(b),
                      promise[i] \notin {"resolved", "rejected"}
               PROVE  Lost(b) \/ Jammed("upload") \/ GoesOn("upload")
    BY DEF BatchNotStuck, AllAnswered
  <2>1. i \in 1..created /\ IsUpload(i) /\ TypeOf(kind[i]) = "upload"
    BY DEF BatchOf, IsUpload, TypeOf
  <2>2. i \in Ids /\ call[i] \in {"opened", "sent", "over"} /\ promise[i] = "pending"
    BY <1>2, <2>1, ConfigAssumption
    DEF IInv, TypeOK, RequestsOfCreated, UploadsPromised, Ids
  <2>3. CASE call[i] = "over"
    BY <2>2, <2>3 DEF Lost
  <2>4. CASE call[i] = "sent"
    BY <2>1, <2>4 DEF GoesOn, Sent, OfType
  <2>5. CASE call[i] = "opened"
    BY <1>2, <2>1, <2>5, QueuedIsServed DEF QueueNotStuck
  <2> QED
    BY <2>2, <2>3, <2>4, <2>5
<1> QED
  BY <1>1, <1>2, PromisedStep, Invariant, PTL DEF Spec

(* What requests, batches and a render still have before them.  What an    *)
(* effect starts outweighs the render that may follow it.                  *)
Ahead(state) == IF state = "opened" THEN 4 ELSE IF state = "sent" THEN 2 ELSE 0
Undone == {p \in (1..created) \X (1..4) : p[2] <= Ahead(call[p[1]])}
Work == Cardinality(Undone) + Cardinality((1..created) \ reloaded)
        + (IF due = Nothing THEN 1 ELSE 0)
Measured == created \in 0..MaxItems /\ Work \in Nat
NearerToEnd == created' > created \/ (created' = created /\ Work' < Work)

(* What changes the display only: progress, dismissing and cleaning.       *)
Display == cleanList \/ \E i \in 1..created : Progress(i) \/ deleteFromList(i)

Counted ==
  /\ IsFiniteSet(Undone) /\ Cardinality(Undone) \in Nat
  /\ IsFiniteSet((1..created) \ reloaded) /\ Cardinality((1..created) \ reloaded) \in Nat

LEMMA UndoneFinite == IInv => Counted
<1> SUFFICES ASSUME IInv PROVE Counted
  OBVIOUS
<1>1. created \in Nat /\ IsFiniteSet(1..created) /\ IsFiniteSet(1..4)
  <2>1. created \in Nat
    BY ConfigAssumption DEF IInv, TypeOK
  <2>2. created \in Int /\ 1 \in Int /\ 4 \in Int
    BY <2>1
  <2> QED
    BY <2>1, <2>2, FS_Interval
<1>2. IsFiniteSet((1..created) \X (1..4))
  BY <1>1, FS_Product, Zenon
<1>3. IsFiniteSet(Undone)
  BY <1>2, FS_Subset DEF Undone
<1>4. IsFiniteSet((1..created) \ reloaded)
  <2>1. (1..created) \ reloaded \in SUBSET (1..created)
    OBVIOUS
  <2> QED
    BY <1>1, <2>1, FS_Subset, Zenon
<1> QED
  BY <1>3, <1>4, FS_CardinalityType DEF Counted

(* A request that comes nearer to its end leaves less to do, by two.       *)
LEMMA FewerUndone ==
  ASSUME IInv, IInv', created' = created,
         \A i \in 1..created : call'[i] = call[i] \/ Ahead(call'[i]) + 2 <= Ahead(call[i]),
         NEW i \in 1..created, call'[i] # call[i]
  PROVE  Cardinality(Undone') + 2 <= Cardinality(Undone)
<1>1. \A s : Ahead(s) \in 0..4
  BY DEF Ahead
<1> DEFINE k == Ahead(call[i])
<1>2. k \in 2..4 /\ Ahead(call'[i]) + 2 <= k
  BY <1>1
<1> DEFINE p == <<i, k>>
           q == <<i, k - 1>>
<1>3. p \in Undone /\ q \in Undone \ {p}
  BY <1>2 DEF Undone
<1>4. Undone' = {r \in (1..created) \X (1..4) : r[2] <= Ahead(call'[r[1]])}
  BY DEF Undone, Ahead
<1>5. Undone' \subseteq (Undone \ {p}) \ {q}
  <2> SUFFICES ASSUME NEW r \in Undone' PROVE r \in Undone /\ r # p /\ r # q
    OBVIOUS
  <2>1. /\ r[1] \in 1..created /\ r[2] \in 1..4 /\ r = <<r[1], r[2]>>
        /\ r[2] <= Ahead(call'[r[1]]) /\ r \in (1..created) \X (1..4)
    BY <1>4
  <2>2. Ahead(call'[r[1]]) <= Ahead(call[r[1]])
    BY <1>1, <2>1
  <2>3. r \in Undone
    BY <1>1, <2>1, <2>2 DEF Undone
  <2>4. r # p /\ r # q
    <3>1. r[1] = i => r[2] + 2 <= k
      BY <1>1, <1>2, <2>1
    <3>2. p[1] = i /\ p[2] = k /\ q[1] = i /\ q[2] = k - 1
      OBVIOUS
    <3> HIDE DEF p, q, k
    <3> QED
      BY <1>2, <2>1, <3>1, <3>2
  <2> QED
    BY <2>3, <2>4
<1> HIDE DEF p, q, k
<1>6. IsFiniteSet(Undone) /\ Cardinality(Undone) \in Nat
  BY UndoneFinite DEF Counted
<1>7. /\ IsFiniteSet(Undone \ {p}) /\ Cardinality(Undone \ {p}) = Cardinality(Undone) - 1
      /\ IsFiniteSet((Undone \ {p}) \ {q})
      /\ Cardinality((Undone \ {p}) \ {q}) = Cardinality(Undone \ {p}) - 1
  BY <1>3, <1>6, FS_RemoveElement
<1>8. /\ Cardinality(Undone') \in Nat
      /\ Cardinality(Undone') <= Cardinality((Undone \ {p}) \ {q})
  BY <1>5, <1>7, FS_Subset, FS_CardinalityType
<1> QED
  BY <1>6, <1>7, <1>8

LEMMA WorkShrinks ==
  IInv /\ IInv' /\ [Next]_vars
    => [NearerToEnd \/ (Display /\ UNCHANGED <<created, Work>>)]_vars
<1> SUFFICES ASSUME IInv, IInv', Next
             PROVE  NearerToEnd \/ (Display /\ UNCHANGED <<created, Work>>)
  BY DEF vars
<1>a. /\ TypeOK /\ created \in Nat /\ created' \in Nat
      /\ \A i \in 1..created : i \in Ids
  BY ConfigAssumption DEF IInv, TypeOK, Ids
<1>b. /\ Cardinality(Undone) \in Nat /\ Cardinality((1..created) \ reloaded) \in Nat
      /\ IsFiniteSet((1..created) \ reloaded)
      /\ Cardinality(Undone') \in Nat
      /\ Cardinality((1..created') \ reloaded') \in Nat
  <2>1. IInv' => Counted'
    BY UndoneFinite, PTL
  <2> QED
    BY <2>1, UndoneFinite DEF Counted
<1>c. UNCHANGED <<created, call>> => Undone' = Undone
  BY DEF Undone, Ahead
<1>d. Ahead("opened") = 4 /\ Ahead("sent") = 2 /\ Ahead("over") = 0
  BY DEF Ahead
<1>1. ASSUME NEW k \in Kinds \ {"upload"}, NewDownload(k) PROVE NearerToEnd
  BY <1>a, <1>1 DEF NewDownload, New, NearerToEnd
<1>2. ASSUME NEW n \in BatchSizes, NewUploads(n) PROVE NearerToEnd
  BY <1>a, <1>2, ConfigAssumption DEF NewUploads, New, NearerToEnd
<1>3. CASE Render
  <2>1. /\ UNCHANGED <<created, call, reloaded>> /\ due = Nothing /\ due' # Nothing
    BY <1>3 DEF Render, items, requests
  <2> QED
    BY <1>b, <1>c, <2>1 DEF NearerToEnd, Work, Nothing, Types
<1>4. CASE Effect
  <2> DEFINE S == traces \cap UNION {due[t] : t \in Types}
             big == {i \in S : kind[i] = "big"}
  <2>1. /\ UNCHANGED <<created, reloaded>> /\ due # Nothing /\ due' = Nothing
        /\ call' = [i \in Ids |-> IF i \in big THEN "over"
                                  ELSE IF i \in S THEN "sent" ELSE call[i]]
    BY <1>4 DEF Effect, items
  <2>2. \A t \in Types : \A i \in due[t] :
          i \in 1..created /\ call[i] = "opened" /\ i \in traces
    BY <1>a DEF IInv, TypeOK, DueOpened, OpenedIsQueued
  <2>3. \A i \in S : call[i] = "opened"
    BY <2>2
  <2>4. PICK i \in 1..created : i \in S
    <3>1. PICK t \in Types : due[t] # {}
      BY <1>a, <2>1 DEF Nothing, TypeOK
    <3>2. PICK i \in due[t] : TRUE
      BY <3>1
    <3> QED
      BY <2>2, <3>2
  <2>5. \A j \in big : j \in S
    OBVIOUS
  <2> HIDE DEF S, big
  <2>6. \A j \in 1..created :
          call'[j] = IF j \in big THEN "over" ELSE IF j \in S THEN "sent" ELSE call[j]
    BY <1>a, <2>1
  <2>7. /\ \A j \in 1..created : call'[j] = call[j] \/ Ahead(call'[j]) + 2 <= Ahead(call[j])
        /\ call'[i] # call[i]
    BY <1>d, <2>3, <2>4, <2>5, <2>6
  <2>8. Cardinality(Undone') + 2 <= Cardinality(Undone)
    BY <2>1, <2>7, FewerUndone
  <2> QED
    BY <1>b, <2>1, <2>8 DEF NearerToEnd, Work, Nothing, Types
<1>5. ASSUME NEW i \in 1..created,
             Succeed(i) \/ Refuse(i) \/ RefuseWithJson(i) \/ NetworkError(i) \/ Abort(i)
      PROVE  NearerToEnd
  <2>1. Finish(i) /\ UNCHANGED <<created, reloaded, due>>
    BY <1>5 DEF Succeed, Refuse, RefuseWithJson, NetworkError, Abort, Rest, items
  <2>2. /\ call[i] = "sent" /\ call'[i] = "over"
        /\ \A j \in 1..created : j # i => call'[j] = call[j]
    BY <1>a, <2>1 DEF Finish, TypeOK
  <2>3. /\ \A j \in 1..created : call'[j] = call[j] \/ Ahead(call'[j]) + 2 <= Ahead(call[j])
        /\ call'[i] # call[i]
    BY <1>d, <2>2
  <2>4. Cardinality(Undone') + 2 <= Cardinality(Undone)
    BY <2>1, <2>3, FewerUndone
  <2> QED
    BY <1>b, <2>1, <2>4 DEF NearerToEnd, Work, Nothing, Types
<1>6. ASSUME NEW b \in 1..created, AllSettled(b) PROVE NearerToEnd
  <2>1. /\ UNCHANGED <<created, call, due>> /\ b \in (1..created) \ reloaded
        /\ (1..created') \ reloaded' = ((1..created) \ reloaded) \ {b}
    BY <1>6 DEF AllSettled, items, requests
  <2>2. Cardinality((1..created') \ reloaded') = Cardinality((1..created) \ reloaded) - 1
    <3> DEFINE R == (1..created) \ reloaded
    <3>1. IsFiniteSet(R) /\ b \in R
      BY <1>b, <2>1
    <3> HIDE DEF R
    <3>2. Cardinality(R \ {b}) = Cardinality(R) - 1
      BY <3>1, FS_RemoveElement
    <3> QED
      BY <2>1, <3>2 DEF R
  <2> QED
    BY <1>b, <1>c, <2>1, <2>2 DEF NearerToEnd, Work, Nothing, Types
<1>7. ASSUME Display PROVE UNCHANGED <<created, Work>>
  <2>1. UNCHANGED <<created, call, reloaded, due>>
    BY <1>7 DEF Display, cleanList, Progress, deleteFromList, items, requests
  <2> QED
    BY <1>c, <2>1 DEF Work, Nothing, Types
<1> QED
  BY <1>1, <1>2, <1>3, <1>4, <1>5, <1>6, <1>7 DEF Next, Display

(* Every step creates a transfer, of which there are boundedly many, or    *)
(* decreases what is left to do, or only changes what is displayed: no     *)
(* sequence of renders, effects, answers and reloads goes on for ever.     *)
THEOREM AlwaysNearer ==
  Spec => /\ []Measured
          /\ [][NearerToEnd \/ (Display /\ UNCHANGED <<created, Work>>)]_vars
<1>1. IInv => Measured
  BY UndoneFinite DEF Measured, Work, Counted, IInv, TypeOK
<1> QED
  BY <1>1, WorkShrinks, Invariant, PTL DEF Spec

=============================================================================
