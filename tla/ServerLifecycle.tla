-------------------------- MODULE ServerLifecycle --------------------------
(* The console's servers from Serve to the end of the process: one server  *)
(* per scheme, a goroutine per listener, the signal handler, and           *)
(* handleShutdown with a goroutine per server that reports to it over an   *)
(* unbuffered channel.  net/http is external: a Shutdown closes the        *)
(* listeners, then waits for the requests being handled (not for hijacked  *)
(* connections, the websockets) or for its context.                        *)
EXTENDS Naturals, Sequences

CONSTANTS
  Schemes,      \* the schemes served, in the order of Serve
  Listeners,    \* of each scheme, one per address of its host
  Requests,     \* the requests that may arrive
  MaxSignals    \* bound on SIGINT and SIGTERM

ASSUME SchemesAssumption == Schemes \in Seq({"unix", "http", "https"})
ASSUME SignalsAssumption == MaxSignals \in Nat

Servers == {Schemes[k] : k \in 1..Len(Schemes)}

VARIABLES
  main,         \* Serve: listening, setting up, waiting for wg, returned; or dead
  started,      \* servers set up
  listening,    \* listener goroutines in http.Server.Serve, per server
  active,       \* requests being handled, per server
  arrived,      \* requests that ever arrived
  hijacked,     \* of those, the connections handed to a websocket
  interrupt,    \* the channel of signals, of capacity one
  signals,      \* signals sent
  interrupted,  \* a signal was handled
  shutdown,     \* the channel is closed
  handler,      \* the goroutine of handleShutdown
  grace,        \* its context
  down,         \* per server, the goroutine that calls Shutdown
  closeFailed,  \* servers whose listeners did not close cleanly
  success,      \* servers whose Shutdown returned no error
  heard,        \* servers whose result handleShutdown has received
  hook          \* ServerShutdown was called

requests == <<active, arrived, hijacked>>
signalling == <<interrupt, signals, interrupted, shutdown>>
draining == <<down, closeFailed, success>>
vars == <<main, started, listening, requests, signalling, handler, grace,
          draining, heard, hook>>

Running == main \in {"listen", "setup", "waiting"}

Init ==
  /\ main = "listen" /\ started = 0
  /\ listening = [s \in Servers |-> {}]
  /\ active = [s \in Servers |-> {}] /\ arrived = {} /\ hijacked = {}
  /\ interrupt = FALSE /\ signals = 0 /\ interrupted = FALSE /\ shutdown = FALSE
  /\ handler = "absent" /\ grace = "unset"
  /\ down = [s \in Servers |-> "up"] /\ closeFailed = {} /\ success = {}
  /\ heard = {} /\ hook = FALSE

-----------------------------------------------------------------------------
(* Serve.                                                                  *)

(* A socket is bound for every address of every scheme; if one cannot be,  *)
(* or a certificate cannot be loaded later, Serve returns the error, and   *)
(* StartServer ends the process with the servers that serve already.       *)
Listen ==
  /\ main = "listen"
  /\ main' \in {"setup", "error"}
  /\ UNCHANGED <<started, listening, requests, signalling, handler, grace, draining,
                 heard, hook>>

StartFails ==
  /\ main = "setup" /\ started < Len(Schemes) /\ Schemes[started + 1] = "https"
  /\ main' = "error"
  /\ UNCHANGED <<started, listening, requests, signalling, handler, grace, draining,
                 heard, hook>>

(* One scheme: its server is configured and a goroutine serves each of its *)
(* listeners.                                                              *)
Start ==
  /\ main = "setup" /\ started < Len(Schemes)
  /\ started' = started + 1
  /\ listening' = [listening EXCEPT ![Schemes[started + 1]] = Listeners[Schemes[started + 1]]]
  /\ UNCHANGED <<main, requests, signalling, handler, grace, draining, heard, hook>>

(* go s.handleShutdown(..), wg.Wait().                                     *)
Wait ==
  /\ main = "setup" /\ started = Len(Schemes)
  /\ main' = "waiting" /\ handler' = "waiting"
  /\ UNCHANGED <<started, listening, requests, signalling, grace, draining, heard, hook>>

(* A listener stops by itself: Fatalf exits the process.                   *)
ListenerFails(s) ==
  /\ Running /\ listening[s] # {} /\ down[s] \in {"up", "called"}
  /\ main' = "fatal"
  /\ UNCHANGED <<started, listening, requests, signalling, handler, grace, draining,
                 heard, hook>>

ListenerStops(s, l) ==
  /\ Running /\ l \in listening[s] /\ down[s] \notin {"up", "called"}
  /\ listening' = [listening EXCEPT ![s] = @ \ {l}]
  /\ UNCHANGED <<main, started, requests, signalling, handler, grace, draining, heard, hook>>

(* wg.Wait() is over; StartServer returns and the process ends.            *)
Return ==
  /\ main = "waiting" /\ handler = "done" /\ \A s \in Servers : listening[s] = {}
  /\ main' = "returned"
  /\ UNCHANGED <<started, listening, requests, signalling, handler, grace, draining,
                 heard, hook>>

-----------------------------------------------------------------------------
(* Requests.                                                               *)

(* On a new connection while there is a listener, or on one kept alive     *)
(* until the drain is over.                                                *)
Accept(s, r) ==
  /\ Running /\ r \notin arrived
  /\ \/ down[s] \in {"up", "called"} /\ listening[s] # {}
     \/ down[s] = "draining"
  /\ arrived' = arrived \cup {r}
  /\ active' = [active EXCEPT ![s] = @ \cup {r}]
  /\ UNCHANGED <<main, started, listening, hijacked, signalling, handler, grace,
                 draining, heard, hook>>

Answer(s, r) ==
  /\ Running /\ r \in active[s]
  /\ active' = [active EXCEPT ![s] = @ \ {r}]
  /\ UNCHANGED <<main, started, listening, arrived, hijacked, signalling, handler, grace,
                 draining, heard, hook>>

(* Upgrade of a websocket: net/http forgets the connection.                *)
Hijack(s, r) ==
  /\ Running /\ r \in active[s]
  /\ active' = [active EXCEPT ![s] = @ \ {r}]
  /\ hijacked' = hijacked \cup {r}
  /\ UNCHANGED <<main, started, listening, arrived, signalling, handler, grace,
                 draining, heard, hook>>

-----------------------------------------------------------------------------
(* Signals and the shutdown.                                               *)

(* signal.Notify drops what finds the channel full.                        *)
Signal ==
  /\ main \in {"setup", "waiting"} /\ signals < MaxSignals
  /\ signals' = signals + 1 /\ interrupt' = TRUE
  /\ UNCHANGED <<main, started, listening, requests, interrupted, shutdown, handler, grace,
                 draining, heard, hook>>

(* Mutant: the channel is closed by the second signal only.                *)
HandleInterrupt_Second ==
  /\ Running /\ interrupt
  /\ interrupt' = FALSE /\ interrupted' = TRUE /\ shutdown' = interrupted
  /\ UNCHANGED <<main, started, listening, requests, signals, handler, grace, draining,
                 heard, hook>>

(* A second signal is only logged.                                         *)
HandleInterrupt ==
  /\ Running /\ interrupt
  /\ interrupt' = FALSE /\ interrupted' = TRUE /\ shutdown' = TRUE
  /\ UNCHANGED <<main, started, listening, requests, signals, handler, grace, draining,
                 heard, hook>>

(* <-s.shutdown; the grace begins and each server gets a goroutine.        *)
BeginShutdown ==
  /\ Running /\ handler = "waiting" /\ shutdown
  /\ handler' = "collecting" /\ grace' = "running"
  /\ down' = [s \in Servers |-> "called"]
  /\ UNCHANGED <<main, started, listening, requests, signalling, closeFailed, success,
                 heard, hook>>

Expire ==
  /\ Running /\ grace = "running"
  /\ grace' = "expired"
  /\ UNCHANGED <<main, started, listening, requests, signalling, handler, draining, heard,
                 hook>>

(* http.Server.Shutdown: the listeners are closed ..                       *)
CloseListeners(s) ==
  /\ Running /\ down[s] = "called"
  /\ down' = [down EXCEPT ![s] = "draining"]
  /\ closeFailed' \in {closeFailed, closeFailed \cup {s}}
  /\ UNCHANGED <<main, started, listening, requests, signalling, handler, grace, success,
                 heard, hook>>

(* Mutant: a server counts as shut down once its listeners are closed.     *)
Drained_AtOnce(s) ==
  /\ Running /\ down[s] = "draining"
  /\ down' = [down EXCEPT ![s] = "reporting"]
  /\ success' = IF s \in closeFailed THEN success ELSE success \cup {s}
  /\ UNCHANGED <<main, started, listening, requests, signalling, handler, grace,
                 closeFailed, heard, hook>>

(* .. until it has no request, and returns the error of closing them,      *)
Drained(s) ==
  /\ Running /\ down[s] = "draining" /\ active[s] = {}
  /\ down' = [down EXCEPT ![s] = "reporting"]
  /\ success' = IF s \in closeFailed THEN success ELSE success \cup {s}
  /\ UNCHANGED <<main, started, listening, requests, signalling, handler, grace,
                 closeFailed, heard, hook>>

(* Mutant: the end of the grace is not looked at while requests last.      *)
GivesUp_Idle(s) ==
  /\ Running /\ down[s] = "draining" /\ grace \in {"expired", "cancelled"}
  /\ active[s] = {}
  /\ down' = [down EXCEPT ![s] = "reporting"]
  /\ UNCHANGED <<main, started, listening, requests, signalling, handler, grace,
                 closeFailed, success, heard, hook>>

(* or the context's error.                                                 *)
GivesUp(s) ==
  /\ Running /\ down[s] = "draining" /\ grace \in {"expired", "cancelled"}
  /\ down' = [down EXCEPT ![s] = "reporting"]
  /\ UNCHANGED <<main, started, listening, requests, signalling, handler, grace,
                 closeFailed, success, heard, hook>>

(* success = success && <-shutdownChan: nothing is received after the      *)
(* first failure.                                                          *)
Collect(s) ==
  /\ Running /\ handler = "collecting" /\ heard \subseteq success
  /\ down[s] = "reporting"
  /\ down' = [down EXCEPT ![s] = "reported"]
  /\ heard' = heard \cup {s}
  /\ UNCHANGED <<main, started, listening, requests, signalling, handler, grace,
                 closeFailed, success, hook>>

(* Mutant: the results are received, and their failures are not seen.      *)
EndShutdown_AnyResult ==
  /\ Running /\ handler = "collecting" /\ heard = Servers
  /\ handler' = "done"
  /\ hook' = TRUE
  /\ grace' = IF grace = "running" THEN "cancelled" ELSE grace
  /\ UNCHANGED <<main, started, listening, requests, signalling, draining, heard>>

(* ServerShutdown if all succeeded; then cancel() and wg.Done().           *)
EndShutdown ==
  /\ Running /\ handler = "collecting"
  /\ heard = Servers \/ ~ heard \subseteq success
  /\ handler' = "done"
  /\ hook' = (heard \subseteq success)
  /\ grace' = IF grace = "running" THEN "cancelled" ELSE grace
  /\ UNCHANGED <<main, started, listening, requests, signalling, draining, heard>>

-----------------------------------------------------------------------------
(* What goes on by itself: some goroutine of the server, or its timer.     *)
Step ==
  \/ Listen \/ Start \/ Wait \/ Return
  \/ HandleInterrupt \/ BeginShutdown \/ Expire \/ EndShutdown
  \/ \E s \in Servers : CloseListeners(s) \/ Drained(s) \/ GivesUp(s) \/ Collect(s)
  \/ \E s \in Servers : \E l \in Listeners[s] : ListenerStops(s, l)

Next ==
  \/ Step \/ Signal \/ StartFails
  \/ \E s \in Servers : ListenerFails(s)
  \/ \E s \in Servers, r \in Requests : Accept(s, r) \/ Answer(s, r) \/ Hijack(s, r)

(* Goroutines that can go on do, and the grace ends: each of these steps   *)
(* brings the end nearer.  Nothing is assumed of how long a request takes. *)
Spec == Init /\ [][Next]_vars
FairSpec == Spec /\ WF_vars(Step)

-----------------------------------------------------------------------------
(* Properties.                                                             *)

TypeOK ==
  /\ main \in {"listen", "setup", "waiting", "returned", "error", "fatal"}
  /\ started \in 0..Len(Schemes)
  /\ \A s \in Servers : listening[s] \subseteq Listeners[s]
  /\ active \in [Servers -> SUBSET arrived]
  /\ arrived \subseteq Requests /\ hijacked \subseteq arrived
  /\ interrupt \in BOOLEAN /\ signals \in 0..MaxSignals
  /\ interrupted \in BOOLEAN /\ shutdown = interrupted
  /\ handler \in {"absent", "waiting", "collecting", "done"}
  /\ grace \in {"unset", "running", "expired", "cancelled"}
  /\ down \in [Servers -> {"up", "called", "draining", "reporting", "reported"}]
  /\ closeFailed \subseteq Servers /\ success \subseteq Servers /\ heard \subseteq Servers
  /\ hook \in BOOLEAN

(* "Wait until all listeners have successfully shut down before calling    *)
(* ServerShutdown": whatever the order of the reports, when the hook was   *)
(* called no server has a request, nor ever will have one.                 *)
HookAfterDrain ==
  hook => \A s \in Servers : active[s] = {} /\ down[s] = "reported"

(* Serve returns on a signal only, with every server drained unless the    *)
(* grace is over or the closing of a listener failed (the results behind a *)
(* failure are not waited for).                                            *)
ExitIsGraceful ==
  main = "returned" =>
    /\ interrupted
    /\ \/ \A s \in Servers : active[s] = {}
       \/ grace = "expired" \/ closeFailed # {}

(* A signal ends the process, however long requests take, however many     *)
(* signals there are, and whichever server fails or reports first.         *)
ShutdownEnds == interrupt ~> ~Running
=============================================================================
