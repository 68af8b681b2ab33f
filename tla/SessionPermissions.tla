-------------------------- MODULE SessionPermissions --------------------------
(***************************************************************************)
(* What a session tells the browser it may do (getSessionResponse): the    *)
(* policy's statements are folded, one statement and resource at a time,   *)
(* into a map from resources to actions.  The resources of a statement     *)
(* come in any order (they are the keys of a Go map).                      *)
(*                                                                         *)
(* The policy language is external: actions are equal or different (the    *)
(* sets used here match no wildcards), and the actions allowed without a   *)
(* bucket are those allowed on every resource.                             *)
(***************************************************************************)
EXTENDS Naturals, Sequences

CONSTANTS Actions, CreateServiceAccount,
          Resources, AllResources,    \* AllResources: arn:aws:s3:::*
          MaxStatements               \* bound

Statements == [effect : {"Allow", "Deny"}, actions : (SUBSET Actions) \ {{}},
               resources : SUBSET Resources, condition : {"none", "met", "unmet"}]

ASSUME PolicyAssumption == MaxStatements \in Nat

VARIABLES
  policy,
  done,            \* the pairs of a statement (its number) and a resource handled
  entries,         \* the resources that have permissions
  permissions,     \* the actions of a resource
  deniedActions,
  allowResources   \* the conditional grants

vars == <<policy, done, entries, permissions, deniedActions, allowResources>>

Stated(effect) == {i \in DOMAIN policy : policy[i].effect = effect}

(* IsAllowedActions without a bucket, and the access keys that a           *)
(* conditional Deny leaves possible.                                       *)
Applies(i, a) == /\ a \in policy[i].actions /\ AllResources \in policy[i].resources
                 /\ policy[i].condition # "unmet"
defaultActions ==
  {a \in Actions : /\ \E i \in Stated("Allow") : Applies(i, a)
                   /\ ~ \E i \in Stated("Deny") : Applies(i, a)}
  \cup {a \in Actions : /\ a = CreateServiceAccount
                        /\ \E i \in Stated("Deny") : /\ a \in policy[i].actions
                                                     /\ policy[i].condition # "none"}

Init ==
  /\ policy \in UNION {[1..n -> Statements] : n \in 0..MaxStatements}
  /\ done = {} /\ entries = {}
  /\ permissions = [r \in Resources |-> {}]
  /\ deniedActions = [r \in Resources |-> {}]
  /\ allowResources = {}

(* The statements are handled one after the other. *)
Due(i, r) ==
  /\ r \in policy[i].resources /\ <<i, r>> \notin done
  /\ \A j \in 1..(i - 1) : \A q \in policy[j].resources : <<j, q>> \in done

(* Mutant: what is denied already is allowed. *)
Allow_Denied(i, r) ==
  /\ Due(i, r) /\ policy[i].effect = "Allow"
  /\ permissions' = [permissions EXCEPT ![r] =
       (IF r \in entries THEN @ ELSE defaultActions) \cup policy[i].actions]
  /\ entries' = entries \cup {r}
  /\ allowResources' =
       IF policy[i].condition = "none" THEN allowResources ELSE allowResources \cup {<<i, r>>}
  /\ done' = done \cup {<<i, r>>}
  /\ UNCHANGED <<policy, deniedActions>>

(* Mutant: a grant replaces the ones before. *)
Allow_Replaces(i, r) ==
  /\ Due(i, r) /\ policy[i].effect = "Allow"
  /\ permissions' = [permissions EXCEPT ![r] =
       defaultActions \cup (policy[i].actions \ deniedActions[r])]
  /\ entries' = entries \cup {r}
  /\ allowResources' =
       IF policy[i].condition = "none" THEN allowResources ELSE allowResources \cup {<<i, r>>}
  /\ done' = done \cup {<<i, r>>}
  /\ UNCHANGED <<policy, deniedActions>>

(* The first grant of a resource brings the default actions along. *)
Allow(i, r) ==
  /\ Due(i, r) /\ policy[i].effect = "Allow"
  /\ permissions' = [permissions EXCEPT ![r] =
       (IF r \in entries THEN @ ELSE defaultActions)
         \cup (policy[i].actions \ deniedActions[r])]
  /\ entries' = entries \cup {r}
  /\ allowResources' =
       IF policy[i].condition = "none" THEN allowResources ELSE allowResources \cup {<<i, r>>}
  /\ done' = done \cup {<<i, r>>}
  /\ UNCHANGED <<policy, deniedActions>>

Deny(i, r) ==
  /\ Due(i, r) /\ policy[i].effect = "Deny"
  /\ deniedActions' = [deniedActions EXCEPT ![r] = @ \cup policy[i].actions]
  /\ permissions' = IF r \in entries
                    THEN [permissions EXCEPT ![r] = @ \ deniedActions'[r]]
                    ELSE permissions
  /\ done' = done \cup {<<i, r>>}
  /\ UNCHANGED <<policy, entries, allowResources>>

Next ==
  \/ \E i \in DOMAIN policy, r \in Resources : Allow(i, r)
  \/ \E i \in DOMAIN policy, r \in Resources : Deny(i, r)

Spec == Init /\ [][Next]_vars

-----------------------------------------------------------------------------
(* Properties.                                                             *)

TypeOK ==
  /\ policy \in Seq(Statements)
  /\ done \subseteq (DOMAIN policy) \X Resources
  /\ entries \subseteq Resources
  /\ permissions \in [Resources -> SUBSET Actions]
  /\ \A r \in Resources \ entries : permissions[r] = {}
  /\ deniedActions \in [Resources -> SUBSET Actions]
  /\ allowResources \subseteq done

(* What the statements handled so far grant and ban on a resource. *)
Named(effect, r) ==
  {a \in Actions : \E i \in Stated(effect) : <<i, r>> \in done /\ a \in policy[i].actions}

(* But for the default actions a resource's permissions are what the       *)
(* policy grants on it and bans nowhere on it, whatever the order of the   *)
(* statements and of their resources.                                      *)
ExactBeyondDefaults ==
  \A r \in Resources :
    permissions[r] \ defaultActions
      = (Named("Allow", r) \ Named("Deny", r)) \ defaultActions

(* No order loses a grant that no statement bans, a default action's       *)
(* either.                                                                 *)
NothingWithheld ==
  \A r \in Resources : Named("Allow", r) \ Named("Deny", r) \subseteq permissions[r]
=============================================================================
