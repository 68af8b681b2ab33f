--------------------------- MODULE ConsoleProcess ---------------------------
(* What is around the handlers of requests, in the process and in the tabs: *)
(* the life of the servers (ServerLifecycle), the targets of the logs       *)
(* (LogTargets) and the sessions of the pages (Session).  They share no     *)
(* state: a handler never waits for the log, and a tab whose server is gone *)
(* is one whose calls fail.                                                 *)
EXTENDS ServerLifecycle, Session

CONSTANTS SystemTargets, AuditTargets, QueueSize, Errors, MaxChanges, MaxCleanups
VARIABLES loaded, queue, posting, answers, IDMap, failed, unsent, changes, cleanups

LogBounds == QueueSize \in Nat /\ MaxChanges \in Nat /\ MaxCleanups \in Nat
ASSUME LogAssumption == LogBounds

Log == INSTANCE LogTargets

log == <<loaded, queue, posting, answers, IDMap, failed, unsent, changes, cleanups>>

(* Every queue of the logs empties for good once nothing new comes.         *)
QueuesDrain == Log!QueuesDrain
=============================================================================
