------------------------- MODULE ConsoleProcessProofs -------------------------
(* Safety of what is around the handlers of requests: ServerLifecycle, for   *)
(* every list of schemes, any listeners and any requests; Session, for every *)
(* number of tabs, users and moves; LogTargets, for any targets and queues.  *)
EXTENDS ConsoleProcess, SequenceTheorems, FiniteSetTheorems, FunctionTheorems, TLAPS

-----------------------------------------------------------------------------
(* ServerLifecycle.                                                        *)

(* Nobody shuts down before handleShutdown does, which a signal starts.    *)
NotYet ==
  /\ handler \in {"absent", "waiting"} =>
       /\ \A s \in Servers : down[s] = "up"
       /\ heard = {} /\ success = {} /\ ~hook /\ grace = "unset"
  /\ handler \in {"collecting", "done"} => interrupted
  /\ main \in {"listen", "setup"} => handler = "absent"

(* What reported success has no request.                                   *)
SuccessIsDrained ==
  \A s \in success : active[s] = {} /\ down[s] \in {"reporting", "reported"}

HeardReported == \A s \in heard : down[s] = "reported"

AllSucceeded == heard = Servers /\ heard \subseteq success
Excused == grace = "expired" \/ closeFailed # {}

(* A failure has a cause, and the goroutine ends with all or with a cause. *)
FailureHasCause ==
  /\ \A s \in Servers :
       down[s] \in {"reporting", "reported"} /\ s \notin success => Excused
  /\ handler = "done" => AllSucceeded \/ Excused
  /\ grace = "cancelled" => handler = "done"
  /\ hook => handler = "done" /\ AllSucceeded
  /\ main = "returned" => handler = "done"

IInv == /\ TypeOK /\ NotYet /\ SuccessIsDrained /\ HeardReported
        /\ FailureHasCause

LEMMA InitIInv == Init => IInv
<1>1. 0 \in 0..Len(Schemes)
  BY SchemesAssumption, LenProperties DEF Servers
<1>2. Init => TypeOK
  <2>. SUFFICES ASSUME Init PROVE TypeOK
    OBVIOUS
  <2>1. started \in 0..Len(Schemes) /\ signals \in 0..MaxSignals
    BY <1>1, SignalsAssumption DEF Init
  <2>2. active \in [Servers -> SUBSET arrived] /\ \A s \in Servers : listening[s] \subseteq Listeners[s]
    BY DEF Init
  <2>3. down \in [Servers -> {"up", "called", "draining", "reporting", "reported"}]
    BY DEF Init
  <2>. QED
    BY <2>1, <2>2, <2>3 DEF Init, TypeOK
<1>3. Init => NotYet /\ SuccessIsDrained /\ HeardReported
  BY DEF Init, NotYet, SuccessIsDrained, HeardReported
<1>4. Init => FailureHasCause
  BY DEF Init, FailureHasCause, AllSucceeded, Excused
<1>. QED
  BY <1>2, <1>3, <1>4 DEF IInv


(* What the parts of the invariant say is about these; a step that leaves  *)
(* them alone keeps the parts.                                             *)
LEMMA Frame ==
  ASSUME IInv, UNCHANGED <<active, handler, grace, draining, heard, hook>>,
         interrupted => interrupted', main' = "returned" => handler = "done",
         main' \in {"listen", "setup"} => main \in {"listen", "setup"}
  PROVE  NotYet' /\ SuccessIsDrained' /\ HeardReported' /\ FailureHasCause'
  BY DEF IInv, NotYet, SuccessIsDrained, HeardReported, FailureHasCause, AllSucceeded,
         Excused, draining

LEMMA NextTypeOK == IInv /\ [Next]_vars => TypeOK'
<1>. SUFFICES ASSUME IInv, [Next]_vars PROVE TypeOK'
  OBVIOUS
<1>. USE DEF IInv, TypeOK
<1>1. CASE Listen
  BY <1>1 DEF Listen, requests, signalling, draining
<1>2. CASE StartFails
  BY <1>2 DEF StartFails, requests, signalling, draining
<1>3. CASE Start
  BY <1>3 DEF Start, requests, signalling, draining
<1>4. CASE Wait
  BY <1>4 DEF Wait, requests, signalling, draining
<1>5. CASE Return
  BY <1>5 DEF Return, requests, signalling, draining
<1>6. CASE Signal
  BY <1>6, SignalsAssumption DEF Signal, requests, signalling, draining
<1>7. CASE HandleInterrupt
  BY <1>7 DEF HandleInterrupt, requests, signalling, draining
<1>8. CASE BeginShutdown
  BY <1>8 DEF BeginShutdown, requests, signalling, draining
<1>9. CASE Expire
  BY <1>9 DEF Expire, requests, signalling, draining
<1>10. CASE EndShutdown
  BY <1>10 DEF EndShutdown, requests, signalling, draining
<1>11. ASSUME NEW s \in Servers, ListenerFails(s) PROVE TypeOK'
  BY <1>11 DEF ListenerFails, requests, signalling, draining
<1>12. ASSUME NEW s \in Servers, CloseListeners(s) PROVE TypeOK'
  BY <1>12 DEF CloseListeners, requests, signalling, draining
<1>13. ASSUME NEW s \in Servers, Drained(s) PROVE TypeOK'
  BY <1>13 DEF Drained, requests, signalling, draining
<1>14. ASSUME NEW s \in Servers, GivesUp(s) PROVE TypeOK'
  BY <1>14 DEF GivesUp, requests, signalling, draining
<1>15. ASSUME NEW s \in Servers, Collect(s) PROVE TypeOK'
  BY <1>15 DEF Collect, requests, signalling, draining
<1>16. ASSUME NEW s \in Servers, NEW l \in Listeners[s], ListenerStops(s, l) PROVE TypeOK'
  BY <1>16 DEF ListenerStops, requests, signalling, draining
<1>17. ASSUME NEW s \in Servers, NEW r \in Requests, Accept(s, r) PROVE TypeOK'
  BY <1>17 DEF Accept, requests, signalling, draining
<1>18. ASSUME NEW s \in Servers, NEW r \in Requests, Answer(s, r) PROVE TypeOK'
  BY <1>18 DEF Answer, requests, signalling, draining
<1>19. ASSUME NEW s \in Servers, NEW r \in Requests, Hijack(s, r) PROVE TypeOK'
  BY <1>19 DEF Hijack, requests, signalling, draining
<1>20. CASE UNCHANGED vars
  BY <1>20 DEF vars, requests, signalling, draining
<1>. QED
  BY <1>1, <1>2, <1>3, <1>4, <1>5, <1>6, <1>7, <1>8, <1>9, <1>10, <1>11, <1>12, <1>13, <1>14, <1>15, <1>16, <1>17, <1>18, <1>19, <1>20 DEF Next, Step

LEMMA NextIInv == IInv /\ [Next]_vars => IInv'
<1>. SUFFICES ASSUME IInv, [Next]_vars PROVE IInv'
  OBVIOUS
<1>0. TypeOK /\ TypeOK'
  BY NextTypeOK DEF IInv
<1>. DEFINE Parts == NotYet /\ SuccessIsDrained /\ HeardReported /\ FailureHasCause
<1>. SUFFICES Parts'
  BY <1>0 DEF IInv
<1>1. CASE Listen
  BY <1>1, Frame DEF Listen, IInv, FailureHasCause, requests, signalling, draining
<1>2. CASE StartFails
  BY <1>2, Frame DEF StartFails, IInv, FailureHasCause, requests, signalling, draining
<1>3. CASE Start
  BY <1>3, Frame DEF Start, IInv, FailureHasCause, requests, signalling, draining
<1>4. CASE Signal
  BY <1>4, Frame DEF Signal, IInv, FailureHasCause, requests, signalling, draining
<1>5. CASE HandleInterrupt
  BY <1>5, Frame DEF HandleInterrupt, IInv, FailureHasCause, requests, signalling, draining
<1>6. CASE Return
  BY <1>6, Frame DEF Return, IInv, FailureHasCause, requests, signalling, draining
<1>7. CASE Wait
  BY <1>7 DEF Wait, IInv, TypeOK, NotYet, SuccessIsDrained, HeardReported, FailureHasCause,
         AllSucceeded, Excused, Running,
         requests, signalling, draining
<1>8. CASE BeginShutdown
  BY <1>8 DEF BeginShutdown, IInv, TypeOK, NotYet, SuccessIsDrained, HeardReported, FailureHasCause,
         AllSucceeded, Excused, Running,
         requests, signalling, draining
<1>9. CASE Expire
  BY <1>9 DEF Expire, IInv, TypeOK, NotYet, SuccessIsDrained, HeardReported, FailureHasCause,
         AllSucceeded, Excused, Running,
         requests, signalling, draining
<1>10. CASE EndShutdown
  BY <1>10 DEF EndShutdown, IInv, TypeOK, NotYet, SuccessIsDrained, HeardReported, FailureHasCause,
         AllSucceeded, Excused, Running,
         requests, signalling, draining
<1>11. ASSUME NEW s \in Servers, ListenerFails(s) PROVE Parts'
  BY <1>11, Frame DEF ListenerFails, IInv, FailureHasCause, requests, signalling, draining
<1>12. ASSUME NEW s \in Servers, CloseListeners(s) PROVE Parts'
  BY <1>12 DEF CloseListeners, IInv, TypeOK, NotYet, SuccessIsDrained, HeardReported, FailureHasCause,
         AllSucceeded, Excused, Running,
         requests, signalling, draining
<1>13. ASSUME NEW s \in Servers, Drained(s) PROVE Parts'
  BY <1>13 DEF Drained, IInv, TypeOK, NotYet, SuccessIsDrained, HeardReported, FailureHasCause,
         AllSucceeded, Excused, Running,
         requests, signalling, draining
<1>14. ASSUME NEW s \in Servers, GivesUp(s) PROVE Parts'
  BY <1>14 DEF GivesUp, IInv, TypeOK, NotYet, SuccessIsDrained, HeardReported, FailureHasCause,
         AllSucceeded, Excused, Running,
         requests, signalling, draining
<1>15. ASSUME NEW s \in Servers, Collect(s) PROVE Parts'
  BY <1>15 DEF Collect, IInv, TypeOK, NotYet, SuccessIsDrained, HeardReported, FailureHasCause,
         AllSucceeded, Excused, Running,
         requests, signalling, draining
<1>16. ASSUME NEW s \in Servers, NEW l \in Listeners[s], ListenerStops(s, l) PROVE Parts'
  BY <1>16, Frame DEF ListenerStops, IInv, FailureHasCause, requests, signalling, draining
<1>17. ASSUME NEW s \in Servers, NEW r \in Requests, Accept(s, r) PROVE Parts'
  BY <1>17 DEF Accept, IInv, TypeOK, NotYet, SuccessIsDrained, HeardReported, FailureHasCause,
         AllSucceeded, Excused, Running,
         requests, signalling, draining
<1>18. ASSUME NEW s \in Servers, NEW r \in Requests, Answer(s, r) PROVE Parts'
  BY <1>18 DEF Answer, IInv, TypeOK, NotYet, SuccessIsDrained, HeardReported, FailureHasCause,
         AllSucceeded, Excused, Running,
         requests, signalling, draining
<1>19. ASSUME NEW s \in Servers, NEW r \in Requests, Hijack(s, r) PROVE Parts'
  BY <1>19 DEF Hijack, IInv, TypeOK, NotYet, SuccessIsDrained, HeardReported, FailureHasCause,
         AllSucceeded, Excused, Running,
         requests, signalling, draining
<1>20. CASE UNCHANGED vars
  BY <1>20, Frame DEF vars, requests, signalling, draining, IInv, FailureHasCause
<1>. QED
  BY <1>1, <1>2, <1>3, <1>4, <1>5, <1>6, <1>7, <1>8, <1>9, <1>10, <1>11, <1>12, <1>13, <1>14, <1>15, <1>16, <1>17, <1>18, <1>19, <1>20 DEF Next, Step

(* The state of every process stays typed.                                 *)
THEOREM TypeCorrect == Spec => []TypeOK
<1>1. IInv => TypeOK
  BY DEF IInv
<1>. QED
  BY <1>1, InitIInv, NextIInv, PTL DEF Spec

(* The hook after the shutdown runs when no server has a request left: it  *)
(* needs every result, each of them a success, and a success was drained   *)
(* and takes no request any more.                                          *)
THEOREM HookIsLast == Spec => []HookAfterDrain
<1>1. IInv => HookAfterDrain
  BY DEF IInv, HookAfterDrain, FailureHasCause, AllSucceeded, SuccessIsDrained, HeardReported
<1>. QED
  BY <1>1, InitIInv, NextIInv, PTL DEF Spec

(* Serve returns on a signal and drained, unless the grace is over or a    *)
(* listener did not close: what cancels the other shutdowns is the end of  *)
(* handleShutdown, which had one of these causes.                          *)
THEOREM GracefulExit == Spec => []ExitIsGraceful
<1>1. IInv => ExitIsGraceful
  BY DEF IInv, ExitIsGraceful, FailureHasCause, AllSucceeded, SuccessIsDrained, NotYet, Excused
<1>. QED
  BY <1>1, InitIInv, NextIInv, PTL DEF Spec

(* Nothing waits for ever, and the shutdown does not go on for ever: what  *)
(* ShutdownEnds rests on besides fairness.                                 *)

Idle == main = "waiting" /\ handler = "waiting" /\ ~interrupt /\ ~interrupted

(* Where some goroutine or the timer goes on: the guards of Step.          *)
CanGoOn ==
  /\ Running
  /\ \/ main \in {"listen", "setup"}
     \/ interrupt
     \/ grace = "running"
     \/ handler = "waiting" /\ shutdown
     \/ handler = "collecting" /\ (heard = Servers \/ ~ heard \subseteq success)
     \/ \E s \in Servers :
          \/ down[s] = "called"
          \/ down[s] = "draining" /\ (active[s] = {} \/ grace \in {"expired", "cancelled"})
          \/ down[s] = "reporting" /\ handler = "collecting"
          \/ down[s] \notin {"up", "called"} /\ listening[s] # {}
     \/ main = "waiting" /\ handler = "done" /\ \A s \in Servers : listening[s] = {}

NeverStuck == ~Running \/ Idle \/ CanGoOn

Mapped == listening = [s \in Servers |-> listening[s]]

(* What handleShutdown has begun, and whom it has heard.                   *)
Called ==
  /\ Mapped
  /\ main = "waiting" => handler # "absent"
  /\ handler \in {"collecting", "done"} =>
       grace # "unset" /\ \A s \in Servers : down[s] # "up"
  /\ \A s \in Servers : down[s] = "reported" => s \in heard

LEMMA CalledStep == IInv /\ Called /\ [Next]_vars => Called'
<1> SUFFICES ASSUME IInv, Called, [Next]_vars PROVE Called'
  OBVIOUS
<1>1. CASE Listen \/ StartFails \/ Start \/ Return \/ Signal \/ HandleInterrupt
  <2>1. Mapped'
    BY <1>1 DEF Listen, StartFails, Start, Return, Signal, HandleInterrupt, Called, Mapped
  <2> QED
    BY <1>1, <2>1 DEF Listen, StartFails, Start, Return, Signal, HandleInterrupt, Called, draining
<1>2. CASE Wait
  BY <1>2 DEF Wait, Called, Mapped, draining
<1>3. CASE BeginShutdown
  BY <1>3 DEF BeginShutdown, Called, Mapped
<1>4. CASE Expire \/ EndShutdown
  BY <1>4 DEF Expire, EndShutdown, Called, Mapped, draining
<1>5. ASSUME NEW s \in Servers, CloseListeners(s) \/ Drained(s) \/ GivesUp(s) \/ Collect(s)
      PROVE  Called'
  BY <1>5 DEF CloseListeners, Drained, GivesUp, Collect, Called, Mapped, IInv, TypeOK
<1>6. ASSUME NEW s \in Servers, \/ ListenerFails(s)
                                \/ \E l \in Listeners[s] : ListenerStops(s, l)
                                \/ \E r \in Requests : Accept(s, r) \/ Answer(s, r) \/ Hijack(s, r)
      PROVE  Called'
  BY <1>6 DEF ListenerFails, ListenerStops, Accept, Answer, Hijack, Called, Mapped, draining
<1>7. CASE UNCHANGED vars
  BY <1>7 DEF vars, Called, Mapped, draining
<1> QED
  BY <1>1, <1>2, <1>3, <1>4, <1>5, <1>6, <1>7 DEF Next, Step

(* While the process runs it serves and waits for a signal, or one of its  *)
(* goroutines or the end of the grace goes on: handleShutdown, the         *)
(* goroutines that report to it and Serve, which waits for its listeners,  *)
(* never all wait for each other, whoever fails and however many results   *)
(* nobody takes (custom-server.go:477, 491).                               *)
THEOREM ServerNotStuck == Spec => []NeverStuck
<1>1. Init => Called
  BY DEF Init, Called, Mapped
<1>2. IInv /\ Called => NeverStuck
  <2> SUFFICES ASSUME IInv, Called, Running, ~CanGoOn PROVE Idle
    BY DEF NeverStuck
  <2>1. main = "waiting" /\ handler \in {"waiting", "collecting", "done"} /\ ~interrupt
    BY DEF CanGoOn, Running, IInv, TypeOK, Called
  <2>2. handler # "collecting"
    <3> SUFFICES ASSUME handler = "collecting" PROVE FALSE
      OBVIOUS
    <3>1. heard \subseteq Servers /\ heard # Servers
      BY DEF CanGoOn, IInv, TypeOK
    <3>2. PICK s \in Servers : s \notin heard
      BY <3>1
    <3>3. grace \in {"expired", "cancelled"}
      BY DEF CanGoOn, Called, IInv, TypeOK
    <3>4. down[s] \in {"called", "draining", "reporting"}
      BY <3>2 DEF Called, IInv, TypeOK
    <3> QED
      BY <3>3, <3>4 DEF CanGoOn
  <2>3. handler # "done"
    <3> SUFFICES ASSUME handler = "done" PROVE FALSE
      OBVIOUS
    <3>1. PICK s \in Servers : listening[s] # {}
      BY <2>1 DEF CanGoOn
    <3> QED
      BY <3>1 DEF CanGoOn, Called
  <2> QED
    BY <2>1, <2>2, <2>3 DEF CanGoOn, IInv, TypeOK, Idle
<1> QED
  BY <1>1, <1>2, CalledStep, InitIInv, NextIInv, PTL DEF Spec

(* How far Serve is, and what is left of the shutdown: the listeners that  *)
(* have not stopped, what the goroutines of the servers and handleShutdown *)
(* have still to do, the signals still to come and the one in the channel. *)
LastStage == Len(Schemes) + 3
Stage ==
  IF main = "listen" THEN 0
  ELSE IF main = "setup" THEN 1 + started
  ELSE IF main = "waiting" THEN Len(Schemes) + 2
  ELSE LastStage

Addresses == UNION {Listeners[s] : s \in Servers}
Unstopped == {p \in Servers \X Addresses : p[2] \in listening[p[1]]}

Ahead(place) ==
  CASE place = "up" -> 4
    [] place = "called" -> 3
    [] place = "draining" -> 2
    [] place = "reporting" -> 1
    [] OTHER -> 0
Undone == {p \in Servers \X (1..4) : p[2] <= Ahead(down[p[1]])}

Signalled == 2 * (MaxSignals - signals) + (IF interrupt THEN 1 ELSE 0)
Handled ==
  (IF grace = "unset" THEN 2 ELSE IF grace = "running" THEN 1 ELSE 0)
  + (IF handler = "collecting" THEN 1 ELSE IF handler = "done" THEN 0 ELSE 2)
Work == Cardinality(Unstopped) + Cardinality(Undone) + Signalled + Handled

Measured == Stage \in 0..LastStage /\ Work \in Nat
NearerToEnd == Stage' > Stage \/ (Stage' = Stage /\ Work' < Work)
Serving ==
  \E s \in Servers, r \in Requests : Accept(s, r) \/ Answer(s, r) \/ Hijack(s, r)

LEMMA ServersFinite == IsFiniteSet(Servers) /\ Len(Schemes) \in Nat
<1>1. Len(Schemes) \in Nat
  BY SchemesAssumption, LenProperties
<1>2. IsFiniteSet(1..Len(Schemes))
  BY <1>1, FS_Interval
<1> DEFINE f == [k \in 1..Len(Schemes) |-> Schemes[k]]
<1>3. f \in Surjection(1..Len(Schemes), Servers)
  BY DEF Servers, Surjection
<1> HIDE DEF f
<1>4. IsFiniteSet(Servers)
  BY <1>2, <1>3, FS_Surjection
<1> QED
  BY <1>1, <1>4

LEMMA WorkType ==
  ASSUME IInv, IsFiniteSet(Addresses)
  PROVE  /\ Measured
         /\ IsFiniteSet(Unstopped) /\ Cardinality(Unstopped) \in Nat
         /\ IsFiniteSet(Undone) /\ Cardinality(Undone) \in Nat
         /\ Signalled \in Nat /\ Handled \in Nat
<1>1. IsFiniteSet(Unstopped) /\ Cardinality(Unstopped) \in Nat
  <2>1. IsFiniteSet(Servers \X Addresses)
    BY ServersFinite, FS_Product
  <2> QED
    BY <2>1, FS_Subset, FS_CardinalityType DEF Unstopped
<1>2. IsFiniteSet(Undone) /\ Cardinality(Undone) \in Nat
  <2>1. IsFiniteSet(1..4)
    <3>1. 1 \in Int /\ 4 \in Int
      OBVIOUS
    <3> QED
      BY <3>1, FS_Interval
  <2>2. IsFiniteSet(Servers \X (1..4))
    BY <2>1, ServersFinite, FS_Product
  <2> QED
    BY <2>2, FS_Subset, FS_CardinalityType DEF Undone
<1>3. Signalled \in Nat /\ Handled \in Nat
  BY SignalsAssumption DEF IInv, TypeOK, Signalled, Handled
<1>4. Work \in Nat
  BY <1>1, <1>2, <1>3 DEF Work
<1>5. Stage \in 0..LastStage
  BY ServersFinite DEF IInv, TypeOK, Stage, LastStage
<1> QED
  BY <1>1, <1>2, <1>3, <1>4, <1>5 DEF Measured

(* A set that loses an element and gains none is smaller. *)
LEMMA FewerLeft ==
  ASSUME NEW S, NEW T, IsFiniteSet(S), T \subseteq S, NEW x \in S, x \notin T
  PROVE  Cardinality(T) < Cardinality(S) /\ Cardinality(T) \in Nat
<1>1. IsFiniteSet(T) /\ Cardinality(T) <= Cardinality(S) /\ Cardinality(T) # Cardinality(S)
  BY FS_Subset
<1> QED
  BY <1>1, FS_CardinalityType

(* A goroutine of a server that has gone on leaves less to do. *)
LEMMA ServerGoesOn ==
  ASSUME IInv, NEW s \in Servers, NEW place, Ahead(place) < Ahead(down[s]),
         down' = [down EXCEPT ![s] = place], IsFiniteSet(Addresses)
  PROVE  Cardinality(Undone') < Cardinality(Undone) /\ Cardinality(Undone') \in Nat
<1>1. down \in [Servers -> {"up", "called", "draining", "reporting", "reported"}]
  BY DEF IInv, TypeOK
<1>2. \A t \in Servers : down'[t] = IF t = s THEN place ELSE down[t]
  BY <1>1
<1>3. \A q : Ahead(q) \in 0..4 /\ Ahead(q)' = Ahead(q)
  BY DEF Ahead
<1> DEFINE x == <<s, Ahead(down[s])>>
<1>4. x \in Undone /\ x \notin Undone'
  BY <1>2, <1>3 DEF Undone
<1>5. Undone' \subseteq Undone
  <2> SUFFICES ASSUME NEW p \in Undone' PROVE p \in Undone
    OBVIOUS
  <2>1. p \in Servers \X (1..4) /\ p[2] <= Ahead(down'[p[1]])
    BY <1>3 DEF Undone
  <2>2. p[1] \in Servers /\ p[2] \in 1..4
    BY <2>1
  <2>3. Ahead(down'[p[1]]) <= Ahead(down[p[1]])
    BY <1>2, <1>3, <2>2
  <2> QED
    BY <1>3, <2>1, <2>2, <2>3 DEF Undone
<1> HIDE DEF x
<1> QED
  BY <1>4, <1>5, WorkType, FewerLeft

LEMMA ShutdownStep ==
  ASSUME IInv, Called, IsFiniteSet(Addresses), Next, ~Serving
  PROVE  NearerToEnd
<1>a. /\ Cardinality(Unstopped) \in Nat /\ Cardinality(Undone) \in Nat
      /\ Signalled \in Nat /\ Handled \in Nat
      /\ Len(Schemes) \in Nat /\ started \in 0..Len(Schemes)
  BY WorkType, ServersFinite DEF IInv, TypeOK
<1>1. CASE Listen \/ StartFails \/ Start \/ Wait \/ Return
  BY <1>1, <1>a DEF Listen, StartFails, Start, Wait, Return, NearerToEnd, Stage, LastStage
<1>2. ASSUME NEW s \in Servers, ListenerFails(s) PROVE NearerToEnd
  BY <1>2, <1>a DEF ListenerFails, Running, NearerToEnd, Stage, LastStage
<1>b. ASSUME UNCHANGED <<main, started>> PROVE Stage' = Stage
  BY <1>b DEF Stage, LastStage
<1>3. CASE Signal \/ HandleInterrupt
  <2>1. UNCHANGED <<main, started, listening, down, grace, handler>>
    BY <1>3 DEF Signal, HandleInterrupt, draining
  <2>2. Unstopped' = Unstopped /\ Undone' = Undone /\ Handled' = Handled
    BY <2>1 DEF Unstopped, Undone, Ahead, Handled
  <2>3. Signalled' \in Nat /\ Signalled' < Signalled
    BY <1>3, SignalsAssumption DEF Signal, HandleInterrupt, Signalled, IInv, TypeOK
  <2> QED
    BY <1>a, <1>b, <2>1, <2>2, <2>3 DEF NearerToEnd, Work
<1>4. CASE Expire \/ EndShutdown
  <2>1. UNCHANGED <<main, started, listening, down, signals, interrupt>>
    BY <1>4 DEF Expire, EndShutdown, draining, signalling
  <2>2. Unstopped' = Unstopped /\ Undone' = Undone /\ Signalled' = Signalled
    BY <2>1 DEF Unstopped, Undone, Ahead, Signalled
  <2>3. Handled' \in Nat /\ Handled' < Handled
    BY <1>4 DEF Expire, EndShutdown, Handled, IInv, TypeOK
  <2> QED
    BY <1>a, <1>b, <2>1, <2>2, <2>3 DEF NearerToEnd, Work
<1>5. CASE BeginShutdown
  <2>1. /\ UNCHANGED <<main, started, listening, signals, interrupt>>
        /\ \A s \in Servers : down[s] = "up" /\ down'[s] = "called"
    BY <1>5 DEF BeginShutdown, signalling, IInv, NotYet
  <2>2. Unstopped' = Unstopped /\ Signalled' = Signalled
    BY <2>1 DEF Unstopped, Signalled
  <2>3. Undone' \subseteq Undone
    BY <2>1 DEF Undone, Ahead
  <2>4. Cardinality(Undone') <= Cardinality(Undone) /\ Cardinality(Undone') \in Nat
    BY <2>3, WorkType, FS_Subset, FS_CardinalityType
  <2>5. Handled' \in Nat /\ Handled' < Handled
    BY <1>5 DEF BeginShutdown, Handled, IInv, TypeOK, NotYet
  <2> QED
    BY <1>a, <1>b, <2>1, <2>2, <2>4, <2>5 DEF NearerToEnd, Work
<1>6. ASSUME NEW s \in Servers, CloseListeners(s) \/ Drained(s) \/ GivesUp(s) \/ Collect(s)
      PROVE  NearerToEnd
  <2>1. UNCHANGED <<main, started, listening, signals, interrupt, handler, grace>>
    BY <1>6 DEF CloseListeners, Drained, GivesUp, Collect, signalling
  <2>2. Unstopped' = Unstopped /\ Signalled' = Signalled /\ Handled' = Handled
    BY <2>1 DEF Unstopped, Signalled, Handled
  <2>3. PICK place : Ahead(place) < Ahead(down[s]) /\ down' = [down EXCEPT ![s] = place]
    BY <1>6 DEF CloseListeners, Drained, GivesUp, Collect, Ahead
  <2>4. Cardinality(Undone') < Cardinality(Undone) /\ Cardinality(Undone') \in Nat
    BY <2>3, ServerGoesOn
  <2> QED
    BY <1>a, <1>b, <2>1, <2>2, <2>4 DEF NearerToEnd, Work
<1>7. ASSUME NEW s \in Servers, NEW l \in Listeners[s], ListenerStops(s, l) PROVE NearerToEnd
  <2>1. /\ UNCHANGED <<main, started, down, signals, interrupt, handler, grace>>
        /\ l \in listening[s] /\ listening' = [listening EXCEPT ![s] = @ \ {l}]
    BY <1>7 DEF ListenerStops, draining, signalling
  <2>2. Undone' = Undone /\ Signalled' = Signalled /\ Handled' = Handled
    BY <2>1 DEF Undone, Ahead, Signalled, Handled
  <2>3. Unstopped' \subseteq Unstopped
    BY <2>1 DEF Unstopped
  <2>4. <<s, l>> \in Unstopped /\ <<s, l>> \notin Unstopped'
    BY <2>1 DEF Unstopped, Addresses, Called, Mapped
  <2>5. Cardinality(Unstopped') < Cardinality(Unstopped) /\ Cardinality(Unstopped') \in Nat
    BY <2>3, <2>4, WorkType, FewerLeft
  <2> QED
    BY <1>a, <1>b, <2>1, <2>2, <2>5 DEF NearerToEnd, Work
<1> QED
  BY <1>1, <1>2, <1>3, <1>4, <1>5, <1>6, <1>7 DEF Next, Step, Serving

(* Where the listeners are finitely many, every step but the serving of    *)
(* requests brings the process nearer to its end, and serving them never   *)
(* takes it further away: no number of requests and of signals, and no     *)
(* server that fails, makes a shutdown that has begun go on for ever       *)
(* ("each of these steps brings the end nearer", on which the fairness     *)
(* assumed of Step relies).                                                *)
THEOREM ServerAlwaysNearer ==
  ASSUME IsFiniteSet(Addresses)
  PROVE  Spec => []Measured /\ [][NearerToEnd \/ (Serving /\ UNCHANGED <<Stage, Work>>)]_vars
<1>1. IInv => Measured
  BY WorkType
<1>2. IInv /\ Called /\ [Next]_vars => [NearerToEnd \/ (Serving /\ UNCHANGED <<Stage, Work>>)]_vars
  <2> SUFFICES ASSUME IInv, Called, Next, Serving PROVE UNCHANGED <<Stage, Work>>
    BY ShutdownStep
  <2>1. UNCHANGED <<main, started, listening, down, signals, interrupt, handler, grace>>
    BY DEF Serving, Accept, Answer, Hijack, draining, signalling
  <2> QED
    BY <2>1 DEF Stage, LastStage, Work, Unstopped, Undone, Ahead, Signalled, Handled
<1>3. Init => Called
  BY DEF Init, Called, Mapped
<1> QED
  BY <1>1, <1>2, <1>3, CalledStep, InitIInv, NextIInv, PTL DEF Spec

-----------------------------------------------------------------------------
(* Session.  Typing and LoadingHasCall are facts about the record of one    *)
(* tab, so they are shown of the operators that make a record out of        *)
(* another first, then of the steps.                                        *)

(* What LoadingHasCall says of one tab. *)
Waits(r) ==
  r.state = "Loading" => \E c \in r.calls : c.kind \in {"check", "anonymous"}

Good(r) == r \in TabState /\ Waits(r)

(* A page that was just loaded is good: it has asked for nothing yet. *)
LEMMA FreshIsGood ==
  ASSUME NEW page \in Pages \cup {"closed"}
  PROVE  Good(Fresh(page))
BY DEF Good, Waits, Fresh, TabState, Pages, Paths

(* A call more changes no field but the calls, which grow by it. *)
LEMMA AskedIsGood ==
  ASSUME NEW r \in TabState, NEW kind \in Kinds, NEW p \in Paths,
         NEW who \in Users \cup {NoUser}, kind = "login" => who \in Users
  PROVE  /\ Asked(r, kind, p, who) \in TabState
         /\ Asked(r, kind, p, who).state = r.state
         /\ r.calls \subseteq Asked(r, kind, p, who).calls
         /\ \E c \in Asked(r, kind, p, who).calls : c.kind = kind
<1> DEFINE call == [id |-> r.sent, kind |-> kind, path |-> p, as |-> who]
           a == Asked(r, kind, p, who)
<1>1. call \in Calls
  <2>1. r.sent \in Nat
    BY DEF TabState
  <2> QED BY <2>1 DEF Calls, Kinds
<1>2. a = [r EXCEPT !.calls = r.calls \cup {call}, !.sent = r.sent + 1]
  BY DEF Asked
<1>3. a \in TabState /\ a.state = r.state /\ a.calls = r.calls \cup {call}
  <2>0. r.calls \in SUBSET Calls /\ r.sent \in Nat
    BY DEF TabState
  <2>1. r.calls \cup {call} \in SUBSET Calls /\ r.sent + 1 \in Nat
    <3> HIDE DEF call
    <3> QED BY <1>1, <2>0
  <2> DEFINE r1 == [r EXCEPT !.calls = r.calls \cup {call}]
             r2 == [r1 EXCEPT !.sent = r.sent + 1]
  <2>2. a = r2
    BY <1>2
  <2>3. r1 \in TabState /\ r1.state = r.state /\ r1.calls = r.calls \cup {call}
    <3> HIDE DEF call
    <3> QED BY <2>1 DEF TabState
  <2>4. r2 \in TabState /\ r2.state = r1.state /\ r2.calls = r1.calls
    <3> HIDE DEF call, r1
    <3> QED BY <2>1, <2>3 DEF TabState
  <2> HIDE DEF call, r1, r2, a
  <2> QED BY <2>2, <2>3, <2>4
<1>4. call.kind = kind
  OBVIOUS
<1> QED BY <1>3, <1>4

(* The principal of a request is a user or nobody. *)
LEMMA PrincipalType ==
  ASSUME SessionTypeOK
  PROVE  Principal \in Users \cup {NoUser}
BY DEF SessionTypeOK, Principal

(* A ProtectedRoute that mounts waits for the check it has just sent. *)
LEMMA MountedIsGood ==
  ASSUME SessionTypeOK, NEW r \in TabState, NEW p \in Paths
  PROVE  Good(Mounted(r, p))
<1> DEFINE a == Asked(r, "check", p, Principal)
           m == [a EXCEPT !.page = "app", !.path = p, !.loading = (r.state # "Done"),
                          !.state = "Loading"]
<1>1. a \in TabState /\ \E c \in a.calls : c.kind = "check"
  BY PrincipalType, AskedIsGood DEF Kinds
<1>2. m \in TabState /\ m.calls = a.calls
  <2> HIDE DEF a
  <2> QED BY <1>1 DEF TabState, Pages
<1>3. Good(m)
  BY <1>1, <1>2 DEF Good, Waits
<1> QED BY <1>3 DEF Mounted

(* A tab that is logging out has what it waited for still under way. *)
LEMMA LoggingOutIsGood ==
  ASSUME SessionTypeOK, NEW r, Good(r)
  PROVE  Good(LoggingOut(r))
<1> DEFINE a == Asked(r, "logout", "other", Principal)
           l == [a EXCEPT !.page = "logout"]
<1>1. a \in TabState /\ a.state = r.state /\ r.calls \subseteq a.calls
  BY PrincipalType, AskedIsGood DEF Good, Paths, Kinds
<1>2. l \in TabState /\ l.state = a.state /\ l.calls = a.calls
  <2> HIDE DEF a
  <2> QED BY <1>1 DEF TabState, Pages
<1>3. Good(l)
  BY <1>1, <1>2 DEF Good, Waits
<1> QED BY <1>3 DEF LoggingOut

(* So is the record of a page that is entered, whichever it is. *)
LEMMA EnteredIsGood ==
  ASSUME SessionTypeOK, NEW r, Good(r), NEW page \in Pages, NEW p \in Paths
  PROVE  Good(Entered(r, page, p))
<1>1. CASE page = "app"
  BY <1>1, MountedIsGood DEF Entered, Good
<1>2. CASE page = "logout"
  BY <1>2, LoggingOutIsGood DEF Entered
<1>3. CASE page = "login"
  <2>1. Good([r EXCEPT !.page = "login"])
    BY DEF Good, Waits, TabState, Pages
  <2> QED BY <1>3, <2>1 DEF Entered
<1> QED BY <1>1, <1>2, <1>3 DEF Pages

(* An answer to a call that nothing waits for: of a login or a logout. *)
LEMMA AnsweredIsGood ==
  ASSUME SessionTypeOK, LoadingHasCall, NEW t \in Tabs, NEW c \in tab[t].calls,
         c.kind \notin {"check", "anonymous"}
  PROVE  Good(Answered(t, c))
<1>1. tab[t] \in TabState /\ Waits(tab[t])
  BY DEF SessionTypeOK, LoadingHasCall, Pending, Waits
<1>2. Answered(t, c) \in TabState /\ Answered(t, c).state = tab[t].state
      /\ Answered(t, c).calls = tab[t].calls \ {c}
  BY <1>1 DEF Answered, TabState
<1> QED BY <1>1, <1>2 DEF Good, Waits

-----------------------------------------------------------------------------
PagesInv == SessionTypeOK /\ LoadingHasCall

(* The invariant, tab by tab. *)
LEMMA TabsAreGood ==
  PagesInv <=> /\ tab \in [Tabs -> TabState] /\ \A t \in Tabs : Waits(tab[t])
               /\ cookie \in Users \cup {NoUser} /\ valid \subseteq Users
               /\ userLoggedIn \in BOOLEAN /\ redirect \in Paths \cup {""}
               /\ moves \in 0..MaxMoves
BY DEF PagesInv, SessionTypeOK, LoadingHasCall, Waits, Pending

(* A step that leaves every tab but one, and that one with a good record. *)
LEMMA OneTab ==
  ASSUME PagesInv, NEW t \in Tabs, NEW r, Good(r), Becomes(t, r)
  PROVE  tab' \in [Tabs -> TabState] /\ \A u \in Tabs : Waits(tab[u])'
<1>1. tab \in [Tabs -> TabState] /\ \A u \in Tabs : Waits(tab[u])
  BY TabsAreGood
<1>2. r \in TabState /\ Waits(r)
  BY DEF Good
<1>3. tab' = [tab EXCEPT ![t] = r]
  BY DEF Becomes
<1>4. tab' \in [Tabs -> TabState]
  BY <1>1, <1>2, <1>3
<1>5. ASSUME NEW u \in Tabs
      PROVE  Waits(tab[u])'
  <2>1. tab'[u] = tab[u] \/ tab'[u] = r
    BY <1>1, <1>3
  <2> QED BY <1>1, <1>2, <2>1 DEF Waits
<1> QED BY <1>4, <1>5

(* Such a step keeps the invariant when it keeps the types of the rest. *)
LEMMA TabStep ==
  ASSUME PagesInv, NEW t \in Tabs, NEW r, Good(r), Becomes(t, r),
         cookie' \in Users \cup {NoUser}, valid' \subseteq Users,
         userLoggedIn' \in BOOLEAN, redirect' \in Paths \cup {""},
         moves' \in 0..MaxMoves
  PROVE  PagesInv'
<1>1. tab' \in [Tabs -> TabState] /\ \A u \in Tabs : Waits(tab[u])'
  BY OneTab
<1> QED BY <1>1 DEF PagesInv, SessionTypeOK, LoadingHasCall, Waits, Pending

(* Before anything is opened. *)
LEMMA PagesInitially == PagesInit => PagesInv
<1> SUFFICES ASSUME PagesInit PROVE PagesInv
  OBVIOUS
<1>1. Good(Fresh("closed"))
  BY FreshIsGood
<1>2. tab \in [Tabs -> TabState] /\ \A t \in Tabs : tab[t] = Fresh("closed")
  BY <1>1 DEF PagesInit, Good
<1>3. \A t \in Tabs : Waits(tab[t])
  BY <1>1, <1>2 DEF Good
<1>4. /\ cookie \in Users \cup {NoUser} /\ valid \subseteq Users
      /\ userLoggedIn \in BOOLEAN /\ redirect \in Paths \cup {""}
      /\ moves \in 0..MaxMoves
  <2>1. userLoggedIn \in BOOLEAN
    BY DEF PagesInit
  <2>2. moves = 0
    BY DEF PagesInit
  <2>3. moves \in 0..MaxMoves
    BY <2>2, MovesAssumption
  <2> QED BY <2>1, <2>3 DEF PagesInit
<1> QED BY <1>2, <1>3, <1>4, TabsAreGood

(* What the user does, whatever is under way. *)
LEMMA MovesKeep ==
  ASSUME PagesInv, NEW t \in Tabs, Move(t)
  PROVE  PagesInv'
<1>0. /\ cookie \in Users \cup {NoUser} /\ valid \subseteq Users
      /\ userLoggedIn \in BOOLEAN /\ redirect \in Paths \cup {""}
      /\ moves \in 0..MaxMoves
  BY TabsAreGood
<1>1. Good(tab[t]) /\ SessionTypeOK
  BY TabsAreGood DEF Good, PagesInv
<1>2. Moves => moves' \in 0..MaxMoves
  <2>1. moves \in 0..MaxMoves
    BY <1>0
  <2> QED BY <2>1, MovesAssumption DEF Moves
<1>3. ASSUME NEW page \in Pages, NEW p \in Paths, Open(t, page, p)
      PROVE  PagesInv'
  <2>1. Good(Entered(Fresh(page), page, p))
    BY <1>1, FreshIsGood, EnteredIsGood
  <2> QED BY <1>0, <1>2, <1>3, <2>1, TabStep DEF Open, shared
<1>4. ASSUME NEW page \in Pages, NEW p \in Paths, Travel(t, page, p)
      PROVE  PagesInv'
  <2>1. Good(Entered(tab[t], page, p))
    BY <1>1, EnteredIsGood
  <2> QED BY <1>0, <1>2, <1>4, <2>1, TabStep DEF Travel, shared
<1>5. ASSUME NEW u \in Users, SignIn(t, u)
      PROVE  PagesInv'
  <2> DEFINE a == Asked(tab[t], "login", "other", u)
             r == [a EXCEPT !.sending = TRUE]
  <2>1. a \in TabState /\ a.state = tab[t].state /\ tab[t].calls \subseteq a.calls
    <3>1. tab[t] \in TabState /\ "login" \in Kinds /\ "other" \in Paths
      BY <1>1 DEF Good, Kinds, Paths
    <3> QED BY <3>1, AskedIsGood
  <2>2. r \in TabState /\ r.state = a.state /\ r.calls = a.calls
    <3> HIDE DEF a
    <3> QED BY <2>1 DEF TabState
  <2>3. Good(r)
    <3> HIDE DEF a, r
    <3> QED BY <1>1, <2>1, <2>2 DEF Good, Waits
  <2>4. Becomes(t, r)
    BY <1>5 DEF SignIn
  <2> HIDE DEF r
  <2> QED BY <1>0, <1>2, <1>5, <2>3, <2>4, TabStep DEF SignIn, shared
<1>6. ASSUME SignOut(t)
      PROVE  PagesInv'
  <2>1. Good(LoggingOut(tab[t]))
    BY <1>1, LoggingOutIsGood
  <2> QED BY <1>0, <1>2, <1>6, <2>1, TabStep DEF SignOut, shared
<1>7. ASSUME GoToLogin(t)
      PROVE  PagesInv'
  <2> DEFINE r == [tab[t] EXCEPT !.session = NoUser, !.loggedIn = FALSE, !.anonymous = FALSE]
  <2>1. Good(r)
    BY <1>1 DEF Good, Waits, TabState
  <2> QED BY <1>0, <1>2, <1>7, <2>1, TabStep DEF GoToLogin, shared
<1>8. ASSUME KickedOut(t)
      PROVE  PagesInv'
  <2>1. Good(Fresh("login")) /\ tab[t].path \in Paths
    BY <1>1, FreshIsGood DEF Pages, Good, TabState
  <2> QED BY <1>0, <1>2, <1>8, <2>1, TabStep DEF KickedOut
<1> QED BY <1>3, <1>4, <1>5, <1>6, <1>7, <1>8 DEF Move

(* The answers, or their absence. *)
LEMMA CallsKeep ==
  ASSUME PagesInv, NEW t \in Tabs, CallEnds(t)
  PROVE  PagesInv'
<1>0. /\ cookie \in Users \cup {NoUser} /\ valid \subseteq Users
      /\ userLoggedIn \in BOOLEAN /\ redirect \in Paths \cup {""}
      /\ moves \in 0..MaxMoves
  BY TabsAreGood
<1>1. tab[t] \in TabState /\ Waits(tab[t]) /\ SessionTypeOK /\ LoadingHasCall
  BY TabsAreGood DEF PagesInv
<1>2. PICK c \in tab[t].calls :
        \/ CheckSucceeds(t, c) \/ CheckFails(t, c)
        \/ \E public \in BOOLEAN : AnonymousAnswered(t, c, public)
        \/ LoginSucceeds(t, c) \/ LoginFails(t, c)
        \/ \E answered \in BOOLEAN : LogoutAnswered(t, c, answered)
  BY DEF CallEnds
<1> DEFINE a == Answered(t, c)
<1>3. c \in Calls /\ a \in TabState
  BY <1>1 DEF Answered, TabState
<1>4. ASSUME CheckSucceeds(t, c)
      PROVE  PagesInv'
  <2> DEFINE r == [a EXCEPT !.loggedIn = TRUE, !.session = c.as, !.state = "Done"]
  <2>1. c.as \in Users \cup {NoUser}
    BY <1>3 DEF Calls
  <2>2. Good(r)
    <3> HIDE DEF a
    <3> QED BY <1>3, <2>1 DEF Good, Waits, TabState
  <2> QED BY <1>0, <1>4, <2>2, TabStep DEF CheckSucceeds, shared
<1>5. ASSUME CheckFails(t, c)
      PROVE  PagesInv'
  <2> DEFINE n == Asked(a, "anonymous", c.path, NoUser)
  <2>1. c.path \in Paths
    BY <1>3 DEF Calls
  <2>3. n \in TabState /\ \E d \in n.calls : d.kind = "anonymous"
    <3> HIDE DEF a
    <3> QED BY <1>3, <2>1, AskedIsGood DEF Kinds
  <2>4. Good(n)
    <3> HIDE DEF n
    <3> QED BY <2>3 DEF Good, Waits
  <2>2. Good([a EXCEPT !.state = "Done"])
    <3> HIDE DEF a
    <3> QED BY <1>3 DEF Good, Waits, TabState
  <2> QED BY <1>0, <1>5, <2>2, <2>4, TabStep DEF CheckFails, shared
<1>6. ASSUME NEW public \in BOOLEAN, AnonymousAnswered(t, c, public)
      PROVE  PagesInv'
  <2> DEFINE r == [a EXCEPT !.loggedIn = @ \/ public, !.anonymous = @ \/ public,
                            !.state = "Done"]
  <2>1. Good(r)
    <3> HIDE DEF a
    <3> QED BY <1>3 DEF Good, Waits, TabState
  <2> QED BY <1>0, <1>6, <2>1, TabStep DEF AnonymousAnswered, shared
<1>7. ASSUME LoginSucceeds(t, c)
      PROVE  PagesInv'
  <2> DEFINE target == IF redirect = "" THEN "other" ELSE redirect
             r == [a EXCEPT !.loggedIn = TRUE, !.sending = FALSE, !.target = target]
  <2>1. c.as \in Users
    BY <1>3, <1>7 DEF LoginSucceeds, Calls, Pending
  <2>2. target \in Paths
    BY <1>0 DEF Paths
  <2>3. a.state = tab[t].state /\ a.calls = tab[t].calls \ {c} /\ c.kind = "login"
    BY <1>1, <1>7 DEF Answered, TabState, LoginSucceeds, Pending
  <2>4. r \in TabState /\ r.state = a.state /\ r.calls = a.calls
    <3> HIDE DEF a, target
    <3> QED BY <1>3, <2>2 DEF TabState
  <2>5. Good(r)
    <3> HIDE DEF a, r
    <3> QED BY <1>1, <2>3, <2>4 DEF Good, Waits
  <2>6. Becomes(t, r)
    BY <1>7 DEF LoginSucceeds
  <2> HIDE DEF r
  <2> QED BY <1>0, <1>7, <2>1, <2>5, <2>6, TabStep DEF LoginSucceeds
<1>8. ASSUME LoginFails(t, c)
      PROVE  PagesInv'
  <2> DEFINE r == [a EXCEPT !.sending = FALSE]
  <2>1. a.state = tab[t].state /\ a.calls = tab[t].calls \ {c} /\ c.kind = "login"
    BY <1>1, <1>8 DEF Answered, TabState, LoginFails, Pending
  <2>2. r \in TabState /\ r.state = a.state /\ r.calls = a.calls
    <3> HIDE DEF a
    <3> QED BY <1>3 DEF TabState
  <2>3. Good(r)
    <3> HIDE DEF a, r
    <3> QED BY <1>1, <2>1, <2>2 DEF Good, Waits
  <2>4. Becomes(t, r)
    BY <1>8 DEF LoginFails
  <2> HIDE DEF r
  <2> QED BY <1>0, <1>8, <2>3, <2>4, TabStep DEF LoginFails, shared
<1>9. ASSUME NEW answered \in BOOLEAN, LogoutAnswered(t, c, answered)
      PROVE  PagesInv'
  <2>1. Good(Fresh("login"))
    BY FreshIsGood DEF Pages
  <2> QED BY <1>0, <1>9, <2>1, TabStep DEF LogoutAnswered
<1> QED BY <1>2, <1>4, <1>5, <1>6, <1>7, <1>8, <1>9

(* The effects of a page, run after what caused them. *)
LEMMA EffectsKeep ==
  ASSUME PagesInv, NEW t \in Tabs, Effect(t)
  PROVE  PagesInv'
<1>0. /\ cookie \in Users \cup {NoUser} /\ valid \subseteq Users
      /\ userLoggedIn \in BOOLEAN /\ redirect \in Paths \cup {""}
      /\ moves \in 0..MaxMoves
  BY TabsAreGood
<1>1. tab[t] \in TabState /\ Waits(tab[t]) /\ SessionTypeOK
  BY TabsAreGood DEF PagesInv
<1>2. ASSUME Settle(t)
      PROVE  PagesInv'
  <2>1. Good([tab[t] EXCEPT !.loading = FALSE])
    BY <1>1 DEF Good, Waits, TabState
  <2> QED BY <1>0, <1>2, <2>1, TabStep DEF Settle, shared
<1>3. ASSUME StorePathAndRedirect(t)
      PROVE  PagesInv'
  <2>1. Good([tab[t] EXCEPT !.page = "login"]) /\ tab[t].path \in Paths
    BY <1>1 DEF Good, Waits, TabState, Pages
  <2> QED BY <1>0, <1>3, <2>1, TabStep DEF StorePathAndRedirect
<1>4. ASSUME GoToTarget(t)
      PROVE  PagesInv'
  <2> DEFINE r == [tab[t] EXCEPT !.sending = FALSE, !.target = ""]
  <2>1. r \in TabState /\ tab[t].target \in Paths
    BY <1>1, <1>4 DEF TabState, GoToTarget
  <2>2. Good(Mounted(r, tab[t].target))
    <3> HIDE DEF r
    <3> QED BY <1>1, <2>1, MountedIsGood
  <2>3. Becomes(t, Mounted(r, tab[t].target))
    BY <1>4 DEF GoToTarget
  <2> HIDE DEF r
  <2> QED BY <1>0, <1>4, <2>2, <2>3, TabStep DEF GoToTarget, shared
<1> QED BY <1>2, <1>3, <1>4 DEF Effect

(* The invariant is inductive. *)
LEMMA PagesInductive == PagesInv /\ [PagesNext]_pageVars => PagesInv'
<1> SUFFICES ASSUME PagesInv, [PagesNext]_pageVars
             PROVE  PagesInv'
  OBVIOUS
<1>1. CASE UNCHANGED pageVars
  BY <1>1 DEF pageVars, shared, PagesInv, SessionTypeOK, LoadingHasCall, Pending
<1>2. ASSUME NEW t \in Tabs, CallEnds(t) \/ Effect(t) \/ Move(t)
      PROVE  PagesInv'
  BY <1>2, CallsKeep, EffectsKeep, MovesKeep
<1>3. ASSUME NEW u \in Users, TakenBack(u)
      PROVE  PagesInv'
  <2>1. moves' \in 0..MaxMoves
    <3>1. moves \in 0..MaxMoves
      BY DEF PagesInv, SessionTypeOK
    <3>2. Moves
      BY <1>3 DEF TakenBack
    <3> QED BY <3>1, <3>2, MovesAssumption DEF Moves
  <2>2. UNCHANGED <<tab, cookie, userLoggedIn, redirect>> /\ valid' \subseteq Users
    BY <1>3 DEF TakenBack, PagesInv, SessionTypeOK
  <2> QED BY <2>1, <2>2 DEF PagesInv, SessionTypeOK, LoadingHasCall, Pending
<1> QED BY <1>1, <1>2, <1>3 DEF PagesNext

(* Every tab's page, store and calls are those the code can be in, and only *)
(* a login carries the name of one who is not signed in.                    *)
THEOREM SessionTypeCorrect == PagesSpec => []SessionTypeOK
<1>1. PagesInv => SessionTypeOK
  BY DEF PagesInv
<1> QED BY <1>1, PagesInitially, PagesInductive, PTL DEF PagesSpec

(* A loading session waits for a call under way, whichever calls fail,      *)
(* however late they end and wherever the user has gone meanwhile.          *)
THEOREM LoadingIsWaiting == PagesSpec => []LoadingHasCall
<1>1. PagesInv => LoadingHasCall
  BY DEF PagesInv
<1> QED BY <1>1, PagesInitially, PagesInductive, PTL DEF PagesSpec
-----------------------------------------------------------------------------
(* LogTargets.                                                             *)

(* Where a sequence has the report that a post to a target failed.         *)
Failure(t) == [kind |-> "post", about |-> t]
Failures(q, t) == {k \in 1..Len(q) : q[k] = Failure(t)}
Unlogged(t) == answers[t] \notin {"ok", IDMap[t]}
Awaited(t) == IF Unlogged(t) THEN 1 ELSE 0
Known(s, t) ==
  Cardinality(Failures(queue[s], t)) + Cardinality(Failures(posting[s], t))

(* The system log does not feed on itself: of the failures of a target no  *)
(* queue ever holds more reports than its endpoint changed and the memory  *)
(* of errors was cleaned, one less while the last is still to be logged,   *)
(* though each report is itself an entry that fails.                       *)
FailuresLoggedOnce ==
  \A s, t \in Log!Targets : Known(s, t) + Awaited(t) <= changes + cleanups

LogInv == Log!LogTypeOK /\ FailuresLoggedOnce

LEMMA FewFailures ==
  ASSUME NEW q \in Seq(Log!Entries), NEW t
  PROVE  IsFiniteSet(Failures(q, t)) /\ Cardinality(Failures(q, t)) \in Nat
<1>1. Len(q) \in Nat
  BY LenProperties
<1>2. IsFiniteSet(1..Len(q)) /\ Failures(q, t) \subseteq 1..Len(q)
  BY <1>1, FS_Interval DEF Failures
<1>. QED
  BY <1>2, FS_Subset, FS_CardinalityType

LEMMA NoFailures == \A t : Cardinality(Failures(<<>>, t)) = 0
BY FS_EmptySet DEF Failures

(* An entry at the end counts once if it is such a report, so does the one *)
(* at the front.                                                           *)
LEMMA AppendedFailure ==
  ASSUME NEW q \in Seq(Log!Entries), NEW e \in Log!Entries, NEW t
  PROVE  Cardinality(Failures(Append(q, e), t))
           = Cardinality(Failures(q, t)) + (IF e = Failure(t) THEN 1 ELSE 0)
<1>. DEFINE n == Len(q) + 1
            r == Append(q, e)
<1>1. /\ Len(q) \in Nat /\ Len(r) = n /\ r[n] = e
      /\ \A k \in 1..Len(q) : r[k] = q[k]
  BY LenProperties, AppendProperties
<1>. HIDE DEF r
<1>2. Failures(r, t) = Failures(q, t) \cup (IF e = Failure(t) THEN {n} ELSE {})
  BY <1>1 DEF Failures
<1>3. n \notin Failures(q, t)
  BY <1>1 DEF Failures
<1>4. IsFiniteSet(Failures(q, t)) /\ Cardinality(Failures(q, t)) \in Nat
  BY FewFailures
<1>5. CASE e = Failure(t)
  <2>1. Failures(r, t) = Failures(q, t) \cup {n}
    BY <1>2, <1>5
  <2>2. Cardinality(Failures(q, t) \cup {n}) = Cardinality(Failures(q, t)) + 1
    BY <1>3, <1>4, FS_AddElement
  <2>. QED
    BY <1>5, <2>1, <2>2 DEF r
<1>6. CASE e # Failure(t)
  BY <1>2, <1>4, <1>6 DEF r
<1>. QED
  BY <1>5, <1>6

LEMMA TakenFailure ==
  ASSUME NEW q \in Seq(Log!Entries), q # <<>>, NEW t
  PROVE  Cardinality(Failures(Tail(q), t)) + Cardinality(Failures(<<Head(q)>>, t))
           = Cardinality(Failures(q, t))
<1>. DEFINE r == Tail(q)
            first == IF q[1] = Failure(t) THEN {1} ELSE {}
            rest == {k \in Failures(q, t) : k # 1}
            f == [k \in rest |-> k - 1]
<1>1. /\ r \in Seq(Log!Entries) /\ Len(q) \in Nat \ {0} /\ Len(r) = Len(q) - 1
      /\ \A k \in 1..Len(r) : r[k] = q[k + 1]
      /\ Head(q) = q[1]
  BY HeadTailProperties, LenProperties, EmptySeq
<1>. HIDE DEF r
<1>2. Cardinality(rest) = Cardinality(Failures(r, t)) /\ IsFiniteSet(rest)
  <2>1. f \in Bijection(rest, Failures(r, t))
    <3>1. ASSUME NEW k \in rest PROVE k - 1 \in Failures(r, t)
      BY <1>1 DEF Failures
    <3>2. ASSUME NEW k \in Failures(r, t) PROVE k + 1 \in rest /\ k = f[k + 1]
      BY <1>1 DEF Failures
    <3>3. \A k, l \in rest : f[k] = f[l] => k = l
      BY <1>1 DEF Failures
    <3>4. f \in [rest -> Failures(r, t)]
      BY <3>1
    <3>. HIDE DEF f, rest
    <3>. QED
      BY <3>2, <3>3, <3>4, Fun_IsBij
  <2>2. IsFiniteSet(rest)
    BY FewFailures, FS_Subset, rest \subseteq Failures(q, t)
  <2>. HIDE DEF f, rest
  <2>. QED
    BY <2>1, <2>2, FS_Bijection DEF ExistsBijection
<1>3. Failures(q, t) = rest \cup first /\ 1 \notin rest
  BY <1>1 DEF Failures
<1>4. Failures(<<Head(q)>>, t) = first
  BY <1>1 DEF Failures
<1>5. CASE first = {}
  <2>1. Cardinality(first) = 0 /\ Failures(q, t) = rest
    BY <1>3, <1>5, FS_EmptySet
  <2>2. Cardinality(rest) \in Nat
    BY <1>2, FS_CardinalityType
  <2>. HIDE DEF rest, first
  <2>. QED
    BY <1>2, <1>4, <2>1, <2>2 DEF r
<1>6. CASE first = {1}
  <2>1. Cardinality(rest \cup {1}) = Cardinality(rest) + 1 /\ Cardinality({1}) = 1
    BY <1>2, <1>3, FS_AddElement, FS_Singleton
  <2>2. Cardinality(rest) \in Nat
    BY <1>2, FS_CardinalityType
  <2>3. Failures(q, t) = rest \cup {1} /\ Failures(<<Head(q)>>, t) = {1}
    BY <1>3, <1>4, <1>6
  <2>. HIDE DEF rest, first
  <2>. QED
    BY <1>2, <2>1, <2>2, <2>3 DEF r
<1>. QED
  BY <1>5, <1>6

(* What is sent makes a queue longer by at most the entry.                 *)
LEMMA SentEntry ==
  ASSUME LogInv, NEW ts, NEW e \in Log!Entries, QueueSize \in Nat
  PROVE  LET sent == Log!Sent(queue, ts, e) IN
         /\ sent \in [Log!Targets -> Seq(Log!Entries)]
         /\ \A s \in Log!Targets : Len(sent[s]) <= QueueSize
         /\ \A s, t \in Log!Targets :
              Cardinality(Failures(sent[s], t))
                <= Cardinality(Failures(queue[s], t)) + (IF e = Failure(t) THEN 1 ELSE 0)
<1>. DEFINE sent == Log!Sent(queue, ts, e)
<1>0. queue \in [Log!Targets -> Seq(Log!Entries)]
      /\ \A s \in Log!Targets : Len(queue[s]) <= QueueSize
  BY DEF LogInv, Log!LogTypeOK
<1>1. sent = [s \in Log!Targets |-> IF s \in ts /\ ~Log!Full(s) THEN Append(queue[s], e) ELSE queue[s]]
  BY DEF Log!Sent
<1>. HIDE DEF sent
<1>2. ASSUME NEW s \in Log!Targets
      PROVE  /\ sent[s] \in Seq(Log!Entries) /\ Len(sent[s]) <= QueueSize
             /\ sent[s] = queue[s] \/ sent[s] = Append(queue[s], e)
  <2>1. queue[s] \in Seq(Log!Entries) /\ Len(queue[s]) \in Nat
    BY <1>0, LenProperties
  <2>2. Append(queue[s], e) \in Seq(Log!Entries) /\ Len(Append(queue[s], e)) = Len(queue[s]) + 1
    BY <2>1, AppendProperties
  <2>3. ~Log!Full(s) => Len(queue[s]) < QueueSize
    BY <2>1 DEF Log!Full
  <2>. QED
    BY <1>0, <1>1, <2>1, <2>2, <2>3
<1>3. ASSUME NEW s \in Log!Targets, NEW t \in Log!Targets
      PROVE  Cardinality(Failures(sent[s], t))
               <= Cardinality(Failures(queue[s], t)) + (IF e = Failure(t) THEN 1 ELSE 0)
  <2>1. queue[s] \in Seq(Log!Entries)
    BY <1>0
  <2>2. Cardinality(Failures(queue[s], t)) \in Nat
    BY <2>1, FewFailures
  <2>3. Cardinality(Failures(Append(queue[s], e), t))
          = Cardinality(Failures(queue[s], t)) + (IF e = Failure(t) THEN 1 ELSE 0)
    BY <2>1, AppendedFailure
  <2>4. CASE sent[s] = queue[s]
    BY <2>2, <2>4
  <2>5. CASE sent[s] = Append(queue[s], e)
    BY <2>2, <2>3, <2>5
  <2>. QED
    BY <1>2, <2>4, <2>5
<1>4. sent \in [Log!Targets -> Seq(Log!Entries)]
  BY <1>1, <1>2
<1>. QED
  BY <1>2, <1>3, <1>4 DEF sent

LEMMA LogAtFirst == ASSUME LogBounds, Log!Init PROVE LogInv
<1>1. <<>> \in Seq(Log!Entries) /\ Len(<<>>) = 0
  BY EmptySeq
<1>2. Log!LogTypeOK
  BY <1>1 DEF LogBounds, Log!Init, Log!LogTypeOK
<1>3. FailuresLoggedOnce
  BY NoFailures DEF Log!Init, FailuresLoggedOnce, Known, Awaited, Unlogged
<1>. QED
  BY <1>2, <1>3 DEF LogInv

(* The counts of a queue and of what its goroutine posts are numbers.      *)
LEMMA KnownCounts ==
  ASSUME LogBounds, LogInv, NEW s \in Log!Targets, NEW t \in Log!Targets
  PROVE  /\ queue[s] \in Seq(Log!Entries) /\ posting[s] \in Seq(Log!Entries)
         /\ Cardinality(Failures(queue[s], t)) \in Nat
         /\ Cardinality(Failures(posting[s], t)) \in Nat
         /\ changes \in Nat /\ cleanups \in Nat
         /\ Known(s, t) \in Nat /\ Awaited(t) \in Nat
         /\ Known(s, t) + Awaited(t) <= changes + cleanups
<1>1. queue[s] \in Seq(Log!Entries) /\ posting[s] \in Seq(Log!Entries)
  BY DEF LogInv, Log!LogTypeOK
<1>. QED
  <2>1. /\ Cardinality(Failures(queue[s], t)) \in Nat
        /\ Cardinality(Failures(posting[s], t)) \in Nat
    BY <1>1, FewFailures
  <2>2. Known(s, t) \in Nat /\ Awaited(t) \in Nat
    BY <2>1 DEF Known, Awaited
  <2>3. changes \in Nat /\ cleanups \in Nat
    BY DEF LogInv, Log!LogTypeOK, LogBounds
  <2>4. Known(s, t) + Awaited(t) <= changes + cleanups
    BY DEF LogInv, FailuresLoggedOnce
  <2>. QED
    BY <1>1, <2>1, <2>2, <2>3, <2>4

LEMMA CountKept ==
  ASSUME LogBounds, LogInv, NEW s \in Log!Targets, NEW t \in Log!Targets,
         Known(s, t)' \in Nat, Known(s, t)' <= Known(s, t), Awaited(t)' = Awaited(t),
         changes' = changes, cleanups' = cleanups
  PROVE  (Known(s, t) + Awaited(t) <= changes + cleanups)'
<1>1. /\ changes \in Nat /\ cleanups \in Nat /\ Known(s, t) \in Nat /\ Awaited(t) \in Nat
      /\ Known(s, t) + Awaited(t) <= changes + cleanups
  BY KnownCounts
<1>. QED
  BY <1>1

(* A step that puts no report of a failure anywhere.                       *)
LEMMA LogSends ==
  ASSUME LogBounds, LogInv, NEW r \in Requests,
         Log!LogIf(r) \/ \E t \in AuditTargets : Log!AuditLog(r, t)
  PROVE  LogInv'
<1>1. PICK e \in Log!Entries, ts \in SUBSET Log!Targets :
         queue' = Log!Sent(queue, ts, e) /\ \A t : e # Failure(t)
  <2>1. [kind |-> "handler", about |-> r] \in Log!Entries
        /\ [kind |-> "unsent", about |-> r] \in Log!Entries
        /\ [kind |-> "audit", about |-> r] \in Log!Entries
    BY DEF Log!Entries
  <2>2. \A t : [kind |-> "handler", about |-> r] # Failure(t)
        /\ [kind |-> "unsent", about |-> r] # Failure(t)
        /\ [kind |-> "audit", about |-> r] # Failure(t)
    BY DEF Failure
  <2>3. SystemTargets \subseteq Log!Targets /\ AuditTargets \subseteq Log!Targets
    BY DEF Log!Targets
  <2>4. CASE Log!LogIf(r)
    BY <2>1, <2>2, <2>3, <2>4 DEF Log!LogIf
  <2>5. ASSUME NEW t \in AuditTargets, Log!AuditLog(r, t)
        PROVE \/ queue' = Log!Sent(queue, SystemTargets, [kind |-> "unsent", about |-> r])
              \/ queue' = Log!Sent(queue, {t}, [kind |-> "audit", about |-> r])
    BY <2>5 DEF Log!AuditLog
  <2>. QED
    BY <2>1, <2>2, <2>3, <2>4, <2>5
<1>2. /\ queue' \in [Log!Targets -> Seq(Log!Entries)]
      /\ \A s \in Log!Targets : Len(queue'[s]) <= QueueSize
      /\ \A s, t \in Log!Targets :
           Cardinality(Failures(queue'[s], t)) <= Cardinality(Failures(queue[s], t))
  <2>1. \A s, t \in Log!Targets : Cardinality(Failures(queue[s], t)) \in Nat
    BY FewFailures DEF LogInv, Log!LogTypeOK
  <2>. QED
    BY <1>1, <2>1, SentEntry DEF LogBounds
<1>3. /\ UNCHANGED <<loaded, posting, answers, IDMap, changes, cleanups>>
      /\ failed' \subseteq Requests /\ unsent' \in [Requests -> SUBSET AuditTargets]
  BY DEF Log!LogIf, Log!AuditLog, LogInv, Log!LogTypeOK
<1>4. Log!LogTypeOK'
  BY <1>2, <1>3 DEF LogInv, Log!LogTypeOK
<1>5. FailuresLoggedOnce'
  <2>1. ASSUME NEW s \in Log!Targets, NEW t \in Log!Targets
        PROVE  (Known(s, t) + Awaited(t) <= changes + cleanups)'
    <3>1. Awaited(t)' = Awaited(t) /\ posting'[s] = posting[s]
          /\ changes' = changes /\ cleanups' = cleanups
      BY <1>3 DEF Awaited, Unlogged
    <3>2. /\ Cardinality(Failures(queue[s], t)) \in Nat
          /\ Cardinality(Failures(queue'[s], t)) \in Nat
          /\ Cardinality(Failures(posting[s], t)) \in Nat
      BY <1>2, FewFailures DEF LogInv, Log!LogTypeOK
    <3>3. Known(s, t)' <= Known(s, t) /\ Known(s, t)' \in Nat
      BY <1>2, <3>1, <3>2 DEF Known
    <3>. QED
      BY <3>1, <3>3, CountKept
  <2>. QED
    BY <2>1 DEF FailuresLoggedOnce, Log!Targets
<1>. QED
  BY <1>4, <1>5 DEF LogInv

LEMMA LogTakes ==
  ASSUME LogBounds, LogInv, NEW u \in Log!Targets, Log!Take(u)
  PROVE  LogInv'
<1>1. /\ queue[u] \in Seq(Log!Entries) /\ queue[u] # <<>> /\ posting[u] = <<>>
      /\ posting' = [posting EXCEPT ![u] = <<Head(queue[u])>>]
      /\ queue' = [queue EXCEPT ![u] = Tail(queue[u])]
      /\ UNCHANGED <<loaded, answers, IDMap, failed, unsent, changes, cleanups>>
  BY DEF Log!Take, LogInv, Log!LogTypeOK
<1>2. /\ Tail(queue[u]) \in Seq(Log!Entries) /\ Len(Tail(queue[u])) <= QueueSize
      /\ <<Head(queue[u])>> \in Seq(Log!Entries) /\ Len(<<Head(queue[u])>>) = 1
  <2>1. /\ Head(queue[u]) \in Log!Entries /\ Tail(queue[u]) \in Seq(Log!Entries)
        /\ Len(Tail(queue[u])) = Len(queue[u]) - 1 /\ Len(queue[u]) \in Nat
    BY <1>1, HeadTailProperties, LenProperties
  <2>. QED
    BY <2>1 DEF LogInv, Log!LogTypeOK, LogBounds
<1>3. Log!LogTypeOK'
  BY <1>1, <1>2 DEF LogInv, Log!LogTypeOK
<1>4. ASSUME NEW s \in Log!Targets, NEW t \in Log!Targets
      PROVE  (Known(s, t) + Awaited(t) <= changes + cleanups)'
  <2>1. Awaited(t)' = Awaited(t) /\ changes' = changes /\ cleanups' = cleanups
    BY <1>1 DEF Awaited, Unlogged
  <2>2. CASE s = u
    <3>1. queue'[u] = Tail(queue[u]) /\ posting'[u] = <<Head(queue[u])>>
      BY <1>1 DEF LogInv, Log!LogTypeOK
    <3>2. Known(u, t)' = Cardinality(Failures(queue[u], t))
      BY <1>1, <3>1, TakenFailure DEF Known
    <3>3. Known(u, t) = Cardinality(Failures(queue[u], t))
      BY <1>1, NoFailures, KnownCounts DEF Known
    <3>. QED
      BY <2>1, <2>2, <3>2, <3>3, KnownCounts
  <2>3. CASE s # u
    <3>1. queue'[s] = queue[s] /\ posting'[s] = posting[s]
      BY <1>1, <2>3 DEF LogInv, Log!LogTypeOK
    <3>2. Known(s, t)' = Known(s, t)
      BY <3>1 DEF Known
    <3>. QED
      BY <2>1, <3>2, KnownCounts
  <2>. QED
    BY <2>2, <2>3
<1>. QED
  BY <1>3, <1>4 DEF LogInv, FailuresLoggedOnce, Log!Targets

(* A failure is reported where its target's memory of it is set.           *)
LEMMA LogPosted ==
  ASSUME LogBounds, LogInv, NEW u \in Log!Targets, Log!Posted(u)
  PROVE  LogInv'
<1>1. /\ posting' = [posting EXCEPT ![u] = <<>>]
      /\ UNCHANGED <<loaded, answers, failed, unsent, changes, cleanups>>
      /\ posting \in [Log!Targets -> Seq(Log!Entries)]
      /\ IDMap \in [Log!Targets -> Errors \cup {"none"}]
      /\ answers \in [Log!Targets -> Errors \cup {"ok"}]
  BY DEF Log!Posted, LogInv, Log!LogTypeOK
<1>2. <<>> \in Seq(Log!Entries) /\ Len(<<>>) = 0
  BY EmptySeq
<1>3. ASSUME NEW s \in Log!Targets, NEW t \in Log!Targets
      PROVE  /\ Cardinality(Failures(posting'[s], t)) \in Nat
             /\ Cardinality(Failures(posting'[s], t)) <= Cardinality(Failures(posting[s], t))
  <2>1. CASE s = u
    <3>1. posting'[s] = <<>>
      BY <2>1, <1>1
    <3>2. Cardinality(Failures(posting'[s], t)) = 0
      BY <3>1, NoFailures
    <3>3. Cardinality(Failures(posting[s], t)) \in Nat
      BY KnownCounts
    <3>. QED
      BY <3>2, <3>3
  <2>2. CASE s # u
    BY <2>2, <1>1, KnownCounts
  <2>. QED
    BY <2>1, <2>2
<1>4. CASE UNCHANGED <<queue, IDMap>>
  <2>1. Log!LogTypeOK'
    BY <1>1, <1>2, <1>4 DEF LogInv, Log!LogTypeOK
  <2>2. ASSUME NEW s \in Log!Targets, NEW t \in Log!Targets
        PROVE  (Known(s, t) + Awaited(t) <= changes + cleanups)'
    <3>1. Awaited(t)' = Awaited(t) /\ changes' = changes /\ cleanups' = cleanups
      BY <1>1, <1>4 DEF Awaited, Unlogged
    <3>2. /\ queue'[s] = queue[s] /\ Cardinality(Failures(queue[s], t)) \in Nat
          /\ Cardinality(Failures(posting[s], t)) \in Nat
      BY <1>4, KnownCounts
    <3>3. Known(s, t)' <= Known(s, t) /\ Known(s, t)' \in Nat
      BY <1>3, <3>2 DEF Known
    <3>. QED
      BY <3>1, <3>3, CountKept
  <2>. QED
    BY <2>1, <2>2 DEF LogInv, FailuresLoggedOnce, Log!Targets
<1>5. CASE ~UNCHANGED <<queue, IDMap>>
  <2>. DEFINE e == Failure(u)
  <2>1. /\ answers[u] \notin {"ok", IDMap[u]}
        /\ IDMap' = [IDMap EXCEPT ![u] = answers[u]]
        /\ queue' = Log!Sent(queue, SystemTargets, e)
    BY <1>5 DEF Log!Posted, Failure
  <2>2. e \in Log!Entries
    BY DEF Log!Entries, Failure
  <2>. HIDE DEF e
  <2>3. /\ queue' \in [Log!Targets -> Seq(Log!Entries)]
        /\ \A s \in Log!Targets : Len(queue'[s]) <= QueueSize
        /\ \A s, t \in Log!Targets :
             Cardinality(Failures(queue'[s], t))
               <= Cardinality(Failures(queue[s], t)) + (IF e = Failure(t) THEN 1 ELSE 0)
    BY <2>1, <2>2, SentEntry DEF LogBounds
  <2>4. Log!LogTypeOK'
    <3>1. IDMap' \in [Log!Targets -> Errors \cup {"none"}]
      BY <1>1, <2>1
    <3>2. \A s \in Log!Targets : Len(posting'[s]) <= 1
      BY <1>1, <1>2 DEF LogInv, Log!LogTypeOK
    <3>3. posting' \in [Log!Targets -> Seq(Log!Entries)]
      BY <1>1, <1>2
    <3>. QED
      BY <1>1, <2>3, <3>1, <3>2, <3>3 DEF LogInv, Log!LogTypeOK
  <2>5. ASSUME NEW s \in Log!Targets, NEW t \in Log!Targets
        PROVE  (Known(s, t) + Awaited(t) <= changes + cleanups)'
    <3>1. changes' = changes /\ cleanups' = cleanups /\ answers' = answers
      BY <1>1
    <3>2. /\ Cardinality(Failures(queue'[s], t)) \in Nat
          /\ Cardinality(Failures(queue[s], t)) \in Nat
          /\ Cardinality(Failures(posting[s], t)) \in Nat
          /\ Cardinality(Failures(posting'[s], t)) \in Nat
          /\ Cardinality(Failures(posting'[s], t)) <= Cardinality(Failures(posting[s], t))
      BY <1>3, <2>3, FewFailures, KnownCounts
    <3>3. CASE t = u
      <4>1. Awaited(t) = 1 /\ Awaited(t)' = 0
        BY <1>1, <2>1, <3>3 DEF Awaited, Unlogged
      <4>2. Cardinality(Failures(queue'[s], t)) <= Cardinality(Failures(queue[s], t)) + 1
        BY <2>3, <3>2, <3>3 DEF e
      <4>3. Known(s, t)' <= Known(s, t) + 1 /\ Known(s, t) \in Nat /\ Known(s, t)' \in Nat
        BY <3>2, <4>2 DEF Known
      <4>4. Known(s, t) + 1 <= changes + cleanups /\ changes \in Nat /\ cleanups \in Nat
        BY <4>1, KnownCounts
      <4>. QED
        BY <3>1, <4>1, <4>3, <4>4
    <3>4. CASE t # u
      <4>1. Awaited(t)' = Awaited(t)
        BY <1>1, <2>1, <3>1, <3>4 DEF Awaited, Unlogged
      <4>2. e # Failure(t)
        BY <3>4 DEF e, Failure
      <4>3. Cardinality(Failures(queue'[s], t)) <= Cardinality(Failures(queue[s], t))
        BY <2>3, <3>2, <4>2
      <4>4. Known(s, t)' <= Known(s, t) /\ Known(s, t) \in Nat /\ Known(s, t)' \in Nat
        BY <3>2, <4>3 DEF Known
      <4>. QED
        BY <3>1, <4>1, <4>4, CountKept
    <3>. QED
      BY <3>3, <3>4
  <2>. QED
    BY <2>4, <2>5 DEF LogInv, FailuresLoggedOnce, Log!Targets
<1>. QED
  BY <1>4, <1>5

(* The others leave queues and what is posted as they are; a change or a   *)
(* clean-up is counted, and makes at most one failure unlogged of each.    *)
LEMMA LogRests ==
  ASSUME LogBounds, LogInv,
         \/ Log!InitializeLogger \/ Log!Cleanup
         \/ (\E u \in Log!Targets : Log!Change(u)) \/ UNCHANGED Log!vars
  PROVE  LogInv'
<1>1. UNCHANGED <<queue, posting>>
  BY DEF Log!InitializeLogger, Log!Cleanup, Log!Change, Log!vars
<1>2. Log!LogTypeOK'
  <2>1. CASE Log!InitializeLogger
    BY <2>1 DEF Log!InitializeLogger, LogInv, Log!LogTypeOK
  <2>2. CASE Log!Cleanup
    BY <2>2 DEF Log!Cleanup, LogInv, Log!LogTypeOK, LogBounds
  <2>3. ASSUME NEW u \in Log!Targets, Log!Change(u) PROVE Log!LogTypeOK'
    BY <2>3 DEF Log!Change, LogInv, Log!LogTypeOK, LogBounds
  <2>4. CASE UNCHANGED Log!vars
    BY <2>4 DEF Log!vars, LogInv, Log!LogTypeOK
  <2>. QED
    BY <2>1, <2>2, <2>3, <2>4
<1>3. \/ /\ UNCHANGED <<answers, IDMap, changes, cleanups>>
      \/ changes' + cleanups' = changes + cleanups + 1
  <2>1. changes \in Nat /\ cleanups \in Nat
    BY DEF LogInv, Log!LogTypeOK, LogBounds
  <2>. QED
    BY <2>1 DEF Log!InitializeLogger, Log!Cleanup, Log!Change, Log!vars
<1>4. ASSUME NEW s \in Log!Targets, NEW t \in Log!Targets
      PROVE  (Known(s, t) + Awaited(t) <= changes + cleanups)'
  <2>1. Known(s, t)' = Known(s, t) /\ Known(s, t) \in Nat
    <3>1. queue' = queue /\ posting' = posting
      BY <1>1
    <3>. QED
      BY <3>1, KnownCounts DEF Known
  <2>4. Awaited(t) \in {0, 1} /\ Awaited(t)' \in {0, 1}
    BY DEF Awaited
  <2>2. CASE UNCHANGED <<answers, IDMap, changes, cleanups>>
    BY <2>1, <2>2, KnownCounts DEF Awaited, Unlogged
  <2>3. CASE changes' + cleanups' = changes + cleanups + 1
    <3>0. /\ changes \in Nat /\ cleanups \in Nat /\ Awaited(t) \in Nat
          /\ Known(s, t) + Awaited(t) <= changes + cleanups
      BY KnownCounts
    <3>1. Known(s, t) <= changes + cleanups /\ changes + cleanups \in Nat
      BY <2>1, <3>0
    <3>. QED
      BY <2>1, <2>3, <2>4, <3>1
  <2>. QED
    BY <1>3, <2>2, <2>3
<1>. QED
  BY <1>2, <1>4 DEF LogInv, FailuresLoggedOnce, Log!Targets

LEMMA LogKept == ASSUME LogBounds, LogInv, [Log!Next]_Log!vars PROVE LogInv'
BY LogSends, LogTakes, LogPosted, LogRests DEF Log!Next

(* The queues and the memory of errors stay typed and within bounds.       *)
THEOREM LogTypeCorrect == Log!Spec => []Log!LogTypeOK
<1>1. LogInv => Log!LogTypeOK
  BY DEF LogInv
<1>2. Log!Init => LogInv
  BY LogAtFirst, LogAssumption
<1>3. LogInv /\ [Log!Next]_Log!vars => LogInv'
  BY LogKept, LogAssumption
<1>. QED
  BY <1>1, <1>2, <1>3, PTL DEF Log!Spec

(* For any targets, queues and requests, the log does not feed on itself.  *)
THEOREM LogDoesNotFeedItself == Log!Spec => []FailuresLoggedOnce
<1>1. LogInv => FailuresLoggedOnce
  BY DEF LogInv
<1>2. Log!Init => LogInv
  BY LogAtFirst, LogAssumption
<1>3. LogInv /\ [Log!Next]_Log!vars => LogInv'
  BY LogKept, LogAssumption
<1>. QED
  BY <1>1, <1>2, <1>3, PTL DEF Log!Spec
=============================================================================
