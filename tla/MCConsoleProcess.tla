-------------------------- MODULE MCConsoleProcess --------------------------
(* An instance of ConsoleProcess for model checking: each behaviour runs    *)
(* one of its parts beside the others at rest.                              *)
EXTENDS ConsoleProcess

VARIABLE part   \* which of them runs in this behaviour

all == <<vars, log, pageVars, part>>

InServer(A) == part = "server" /\ A /\ UNCHANGED <<log, pageVars, part>>
InPages(A) == part = "pages" /\ A /\ UNCHANGED <<vars, log, part>>

MCInit ==
  /\ part \in {"server", "log", "pages"}
  /\ Init /\ Log!Init /\ PagesInit
  /\ part # "pages" => cookie = NoUser

MCNext ==
  \/ InServer(Next)
  \/ part = "log" /\ Log!Next /\ UNCHANGED <<vars, pageVars, part>>
  \/ InPages(PagesNext)

(* The server's threads run, the workers of the log too (LogTargets), and  *)
(* in a tab effects are run and every call is answered or fails.           *)
MCSpec ==
  /\ MCInit /\ [][MCNext]_all
  /\ WF_all(InServer(Step)) /\ Log!Fairness
  /\ \A t \in Tabs : WF_all(InPages(CallEnds(t))) /\ WF_all(InPages(Effect(t)))

MCSchemes == <<"http", "https">>
MCListeners == [s \in {"http", "https"} |-> IF s = "http" THEN {1} ELSE {1, 2}]
=============================================================================
