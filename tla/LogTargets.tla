----------------------------- MODULE LogTargets -----------------------------
(* The HTTP targets of the system log and of the audit log: each has a     *)
(* bounded queue, and a goroutine that posts one entry after the other to  *)
(* its endpoint.  A post that fails is itself logged, once per error, to   *)
(* the system targets - the failing one among them.  Endpoints are         *)
(* external: how one answers changes at most MaxChanges times.  Targets    *)
(* are installed once, when the process starts, so Cancel has none to act  *)
(* on.  No console target is ever set: what a full queue refuses of the    *)
(* system log is gone.                                                     *)
EXTENDS Naturals, Sequences

CONSTANTS
  SystemTargets, AuditTargets,   \* by their endpoints
  Requests,
  QueueSize,
  Errors,                        \* the texts of errors of a post
  MaxChanges, MaxCleanups        \* bounds on endpoints' changes and on clean-ups

Targets == SystemTargets \cup AuditTargets

(* An entry is the audit of a request, an error a handler reports, an      *)
(* audit entry that was not sent, or a post that failed.                   *)
Entries == [kind : {"audit", "handler", "unsent"}, about : Requests]
             \cup [kind : {"post"}, about : Targets]

VARIABLES
  loaded,      \* InitializeLogger: "no", "yes", or "failed" and the process is dead
  queue,       \* logCh of each target
  posting,     \* per target, the entry its goroutine posts: a sequence of at most one
  answers,     \* per target, what its endpoint answers: "ok" or an error
  IDMap,       \* per target, the error logged last, or "none"
  failed,      \* requests whose handler reported an error
  unsent,      \* per request, the audit targets it is yet to be sent to
  changes, cleanups

vars == <<loaded, queue, posting, answers, IDMap, failed, unsent, changes, cleanups>>

Init ==
  /\ loaded = "no" /\ failed = {}
  /\ queue = [t \in Targets |-> <<>>]
  /\ posting = [t \in Targets |-> <<>>]
  /\ answers = [t \in Targets |-> "ok"]
  /\ IDMap = [t \in Targets |-> "none"]
  /\ unsent = [r \in Requests |-> AuditTargets]
  /\ changes = 0 /\ cleanups = 0

Full(t) == Len(queue[t]) >= QueueSize

(* Send to each of these targets, never waiting.                           *)
Sent(q, ts, entry) ==
  [t \in Targets |-> IF t \in ts /\ ~Full(t) THEN Append(q[t], entry) ELSE q[t]]

(* Each target posts an empty entry first; if an endpoint does not accept  *)
(* it, CriticalIf panics and the console never serves.                     *)
InitializeLogger ==
  /\ loaded = "no"
  /\ loaded' = IF \A t \in Targets : answers[t] = "ok" THEN "yes" ELSE "failed"
  /\ UNCHANGED <<queue, posting, answers, IDMap, failed, unsent, changes, cleanups>>

(* The handler of a request reports an error to the system log (one is     *)
(* enough to meet a full queue).                                           *)
LogIf(r) ==
  /\ loaded = "yes" /\ r \notin failed /\ unsent[r] = AuditTargets
  /\ failed' = failed \cup {r}
  /\ queue' = Sent(queue, SystemTargets, [kind |-> "handler", about |-> r])
  /\ UNCHANGED <<loaded, posting, answers, IDMap, unsent, changes, cleanups>>

(* Behind the handler, AuditLog's next target; an entry that its queue     *)
(* refuses is reported.                                                    *)
AuditLog(r, t) ==
  /\ loaded = "yes" /\ t \in unsent[r]
  /\ unsent' = [unsent EXCEPT ![r] = @ \ {t}]
  /\ queue' = IF Full(t)
              THEN Sent(queue, SystemTargets, [kind |-> "unsent", about |-> r])
              ELSE Sent(queue, {t}, [kind |-> "audit", about |-> r])
  /\ UNCHANGED <<loaded, posting, answers, IDMap, failed, changes, cleanups>>

(* The goroutine of a target takes an entry ..                             *)
Take(t) ==
  /\ posting[t] = <<>> /\ queue[t] # <<>>
  /\ posting' = [posting EXCEPT ![t] = <<Head(queue[t])>>]
  /\ queue' = [queue EXCEPT ![t] = Tail(@)]
  /\ UNCHANGED <<loaded, answers, IDMap, failed, unsent, changes, cleanups>>

(* Mutant: every failure is logged.                                        *)
Posted_Always(t) ==
  /\ posting[t] # <<>>
  /\ posting' = [posting EXCEPT ![t] = <<>>]
  /\ queue' = IF answers[t] = "ok" THEN queue
              ELSE Sent(queue, SystemTargets, [kind |-> "post", about |-> t])
  /\ UNCHANGED <<loaded, answers, IDMap, failed, unsent, changes, cleanups>>

(* .. and posts it; LogOnceIf logs an error that is not the last one of    *)
(* this endpoint.                                                          *)
Posted(t) ==
  /\ posting[t] # <<>>
  /\ posting' = [posting EXCEPT ![t] = <<>>]
  /\ IF answers[t] \in {"ok", IDMap[t]}
     THEN UNCHANGED <<queue, IDMap>>
     ELSE /\ IDMap' = [IDMap EXCEPT ![t] = answers[t]]
          /\ queue' = Sent(queue, SystemTargets, [kind |-> "post", about |-> t])
  /\ UNCHANGED <<loaded, answers, failed, unsent, changes, cleanups>>

(* Every half hour.                                                        *)
Cleanup ==
  /\ loaded = "yes" /\ cleanups < MaxCleanups
  /\ cleanups' = cleanups + 1
  /\ IDMap' = [t \in Targets |-> "none"]
  /\ UNCHANGED <<loaded, queue, posting, answers, failed, unsent, changes>>

Change(t) ==
  /\ loaded # "failed" /\ changes < MaxChanges
  /\ changes' = changes + 1
  /\ \E a \in (Errors \cup {"ok"}) \ {answers[t]} : answers' = [answers EXCEPT ![t] = a]
  /\ UNCHANGED <<loaded, queue, posting, IDMap, failed, unsent, cleanups>>

Next ==
  \/ InitializeLogger \/ Cleanup
  \/ \E r \in Requests : LogIf(r) \/ \E t \in AuditTargets : AuditLog(r, t)
  \/ \E t \in Targets : Take(t) \/ Posted(t) \/ Change(t)

(* A goroutine with an entry goes on, and a post ends: with an answer, or  *)
(* by its timeout of five seconds.                                         *)
Fairness == \A t \in Targets : WF_vars(Take(t) \/ Posted(t))

Spec == Init /\ [][Next]_vars
FairSpec == Spec /\ Fairness

-----------------------------------------------------------------------------
(* Properties.                                                             *)

LogTypeOK ==
  /\ loaded \in {"no", "yes", "failed"} /\ failed \subseteq Requests
  /\ queue \in [Targets -> Seq(Entries)] /\ posting \in [Targets -> Seq(Entries)]
  /\ \A t \in Targets : Len(queue[t]) <= QueueSize /\ Len(posting[t]) <= 1
  /\ answers \in [Targets -> Errors \cup {"ok"}]
  /\ IDMap \in [Targets -> Errors \cup {"none"}]
  /\ unsent \in [Requests -> SUBSET AuditTargets]
  /\ changes \in 0..MaxChanges /\ cleanups \in 0..MaxCleanups

(* The system log does not feed on itself: though each failure to post     *)
(* makes an entry for the very target that failed, every queue empties for *)
(* good once no request comes and no endpoint changes how it fails.        *)
QueuesDrain ==
  <>[](\A t \in Targets : queue[t] = <<>> /\ posting[t] = <<>>)
=============================================================================
