----------------------- MODULE SessionPermissionsProofs -----------------------
(***************************************************************************)
(* Theorems about the permissions of a session, for every policy of any    *)
(* length over any actions and resources.                                  *)
(***************************************************************************)
EXTENDS SessionPermissions, TLAPS

(* The maps are what the statements handled so far say.  Without the       *)
(* second part a first grant could bring defaults to a resource that has   *)
(* had a grant already; without the first the filter of Allow says nothing *)
(* of the policy.                                                          *)
DeniedIsBanned == \A r \in Resources : deniedActions[r] = Named("Deny", r)
NoEntryNoGrant == \A r \in Resources \ entries : Named("Allow", r) = {}

IInv == /\ TypeOK /\ DeniedIsBanned /\ NoEntryNoGrant
        /\ ExactBeyondDefaults /\ NothingWithheld

-----------------------------------------------------------------------------
(* A statement that is due is one of the policy's, its actions are actions *)
(* and its resource was not handled.                                       *)
LEMMA DueStatement ==
  ASSUME TypeOK, NEW i \in DOMAIN policy, NEW r \in Resources, Due(i, r)
  PROVE  policy[i].actions \subseteq Actions /\ <<i, r>> \in (DOMAIN policy) \X Resources
<1>1. policy[i] \in Statements
  BY DEF TypeOK
<1>. QED BY <1>1 DEF Statements

(* Handling a pair adds the statement's actions to what is named for the   *)
(* pair's resource, and nothing else.                                      *)
LEMMA NamedStep ==
  ASSUME TypeOK, NEW i \in DOMAIN policy, NEW r \in Resources, Due(i, r),
         done' = done \cup {<<i, r>>}, policy' = policy,
         NEW effect
  PROVE  \A q \in Resources :
           Named(effect, q)' = IF q = r /\ policy[i].effect = effect
                               THEN Named(effect, q) \cup policy[i].actions
                               ELSE Named(effect, q)
<1>1. policy[i].actions \subseteq Actions
  BY DueStatement
<1> SUFFICES ASSUME NEW q \in Resources
             PROVE  Named(effect, q)' = IF q = r /\ policy[i].effect = effect
                               THEN Named(effect, q) \cup policy[i].actions
                               ELSE Named(effect, q)
  OBVIOUS
<1>2. \A j \in Stated(effect) : <<j, q>> \in done' <=> (<<j, q>> \in done \/ (j = i /\ q = r))
  OBVIOUS
<1>3. Stated(effect)' = Stated(effect)
  BY DEF Stated
<1>4. CASE q = r /\ policy[i].effect = effect
  <2>1. i \in Stated(effect)
    BY <1>4 DEF Stated
  <2>. QED BY <1>1, <1>2, <1>3, <1>4, <2>1 DEF Named
<1>5. CASE ~(q = r /\ policy[i].effect = effect)
  <2>1. \A j \in Stated(effect) : ~(j = i /\ q = r)
    BY <1>5 DEF Stated
  <2>2. \A j \in Stated(effect) : <<j, q>> \in done' <=> <<j, q>> \in done
    BY <1>2, <2>1
  <2>3. Named(effect, q)' = Named(effect, q)
    BY <1>3, <2>2 DEF Named
  <2>. QED BY <1>5, <2>3
<1>. QED BY <1>4, <1>5

(* The default actions depend on the policy alone. *)
LEMMA DefaultsFixed ==
  ASSUME policy' = policy
  PROVE  defaultActions' = defaultActions
  BY DEF defaultActions, Applies, Stated

LEMMA InitInv == Init => IInv
<1> SUFFICES ASSUME Init PROVE IInv
  OBVIOUS
<1>1. policy \in Seq(Statements)
  <2>1. PICK n \in 0..MaxStatements : policy \in [1..n -> Statements]
    BY DEF Init
  <2>2. n \in Nat
    BY <2>1, PolicyAssumption
  <2>. QED BY <2>1, <2>2
<1>2. TypeOK
  BY <1>1 DEF Init, TypeOK
<1>3. \A r \in Resources : Named("Allow", r) = {} /\ Named("Deny", r) = {}
  BY DEF Init, Named
<1>. QED BY <1>2, <1>3 DEF Init, IInv, DeniedIsBanned, NoEntryNoGrant, ExactBeyondDefaults,
                          NothingWithheld

(* A grant keeps the maps right. *)
LEMMA AllowStep ==
  ASSUME IInv, NEW i \in DOMAIN policy, NEW r \in Resources, Allow(i, r)
  PROVE  IInv'
<1> DEFINE A == policy[i].actions
           P == defaultActions
<1>1. TypeOK /\ Due(i, r) /\ policy[i].effect = "Allow"
  BY DEF IInv, Allow
<1>2. A \subseteq Actions /\ <<i, r>> \in (DOMAIN policy) \X Resources
  BY <1>1, DueStatement
<1>3. /\ done' = done \cup {<<i, r>>} /\ policy' = policy
      /\ deniedActions' = deniedActions /\ entries' = entries \cup {r}
      /\ permissions' = [permissions EXCEPT ![r] =
           (IF r \in entries THEN permissions[r] ELSE P) \cup (A \ deniedActions[r])]
  BY DEF Allow
<1>4. P' = P
  BY <1>3, DefaultsFixed
<1>5. /\ Named("Allow", r)' = Named("Allow", r) \cup A
      /\ \A q \in Resources \ {r} : Named("Allow", q)' = Named("Allow", q)
      /\ \A q \in Resources : Named("Deny", q)' = Named("Deny", q)
  BY <1>1, <1>3, NamedStep
<1>6. P \subseteq Actions
  BY DEF defaultActions
<1>7. TypeOK'
  <2>1. permissions' \in [Resources -> SUBSET Actions]
    <3> HIDE DEF A, P
    <3>. QED BY <1>1, <1>2, <1>3, <1>6 DEF TypeOK
  <2>2. allowResources' \subseteq done'
    BY <1>1, <1>3 DEF Allow, TypeOK
  <2>3. \A q \in Resources \ entries' : permissions'[q] = {}
    BY <1>1, <1>3 DEF TypeOK
  <2>. QED BY <1>1, <1>2, <1>3, <2>1, <2>2, <2>3 DEF TypeOK
<1>8. permissions'[r] = (IF r \in entries THEN permissions[r] ELSE P) \cup (A \ deniedActions[r])
      /\ \A q \in Resources \ {r} : permissions'[q] = permissions[q]
  BY <1>1, <1>3 DEF TypeOK
<1>9. /\ \A q \in Resources : deniedActions[q] = Named("Deny", q)
      /\ \A q \in Resources \ entries : Named("Allow", q) = {} /\ permissions[q] = {}
      /\ \A q \in Resources :
           permissions[q] \ P = (Named("Allow", q) \ Named("Deny", q)) \ P
      /\ \A q \in Resources : Named("Allow", q) \ Named("Deny", q) \subseteq permissions[q]
  BY DEF IInv, DeniedIsBanned, NoEntryNoGrant, ExactBeyondDefaults, NothingWithheld, TypeOK
<1> HIDE DEF A, P
<1>10. DeniedIsBanned' /\ NoEntryNoGrant'
  BY <1>3, <1>5, <1>9 DEF DeniedIsBanned, NoEntryNoGrant
<1>11. ASSUME NEW q \in Resources
       PROVE  /\ permissions'[q] \ P = (Named("Allow", q)' \ Named("Deny", q)') \ P
              /\ Named("Allow", q)' \ Named("Deny", q)' \subseteq permissions'[q]
  <2>1. CASE q = r /\ r \in entries
    BY <1>5, <1>8, <1>9, <2>1
  <2>2. CASE q = r /\ r \notin entries
    BY <1>5, <1>8, <1>9, <2>2
  <2>3. CASE q # r
    BY <1>5, <1>8, <1>9, <2>3
  <2>. QED BY <2>1, <2>2, <2>3
<1>12. ExactBeyondDefaults' /\ NothingWithheld'
  BY <1>4, <1>11 DEF ExactBeyondDefaults, NothingWithheld, P
<1>. QED BY <1>7, <1>10, <1>12 DEF IInv

(* A ban keeps the maps right. *)
LEMMA DenyStep ==
  ASSUME IInv, NEW i \in DOMAIN policy, NEW r \in Resources, Deny(i, r)
  PROVE  IInv'
<1> DEFINE A == policy[i].actions
           P == defaultActions
<1>1. TypeOK /\ Due(i, r) /\ policy[i].effect = "Deny"
  BY DEF IInv, Deny
<1>2. A \subseteq Actions /\ <<i, r>> \in (DOMAIN policy) \X Resources
  BY <1>1, DueStatement
<1>3. /\ done' = done \cup {<<i, r>>} /\ policy' = policy
      /\ deniedActions' = [deniedActions EXCEPT ![r] = deniedActions[r] \cup A]
      /\ entries' = entries /\ allowResources' = allowResources
      /\ permissions' = IF r \in entries
                        THEN [permissions EXCEPT ![r] = permissions[r] \ deniedActions'[r]]
                        ELSE permissions
  BY DEF Deny
<1>4. P' = P
  BY <1>3, DefaultsFixed
<1>5. /\ Named("Deny", r)' = Named("Deny", r) \cup A
      /\ \A q \in Resources \ {r} : Named("Deny", q)' = Named("Deny", q)
      /\ \A q \in Resources : Named("Allow", q)' = Named("Allow", q)
  BY <1>1, <1>3, NamedStep
<1>6. /\ deniedActions'[r] = deniedActions[r] \cup A
      /\ \A q \in Resources \ {r} : deniedActions'[q] = deniedActions[q]
      /\ deniedActions' \in [Resources -> SUBSET Actions]
  <2> HIDE DEF A
  <2>. QED BY <1>1, <1>2, <1>3 DEF TypeOK
<1>7. /\ permissions'[r] = permissions[r] \ (deniedActions[r] \cup A)
      /\ \A q \in Resources \ {r} : permissions'[q] = permissions[q]
      /\ permissions' \in [Resources -> SUBSET Actions]
  <2>1. CASE r \in entries
    BY <1>1, <1>3, <1>6, <2>1 DEF TypeOK
  <2>2. CASE r \notin entries
    BY <1>1, <1>3, <2>2 DEF TypeOK
  <2>. QED BY <2>1, <2>2
<1>8. TypeOK'
  <2>1. \A q \in Resources \ entries' : permissions'[q] = {}
    BY <1>1, <1>3, <1>7 DEF TypeOK
  <2>2. done' \subseteq (DOMAIN policy') \X Resources /\ allowResources' \subseteq done'
    BY <1>1, <1>2, <1>3 DEF TypeOK
  <2>. QED BY <1>1, <1>3, <1>6, <1>7, <2>1, <2>2 DEF TypeOK
<1>9. /\ \A q \in Resources : deniedActions[q] = Named("Deny", q)
      /\ \A q \in Resources \ entries : Named("Allow", q) = {}
      /\ \A q \in Resources :
           permissions[q] \ P = (Named("Allow", q) \ Named("Deny", q)) \ P
      /\ \A q \in Resources : Named("Allow", q) \ Named("Deny", q) \subseteq permissions[q]
  BY DEF IInv, DeniedIsBanned, NoEntryNoGrant, ExactBeyondDefaults, NothingWithheld
<1> HIDE DEF A, P
<1>10. DeniedIsBanned' /\ NoEntryNoGrant'
  BY <1>3, <1>5, <1>6, <1>9 DEF DeniedIsBanned, NoEntryNoGrant
<1>11. ASSUME NEW q \in Resources
       PROVE  /\ permissions'[q] \ P = (Named("Allow", q)' \ Named("Deny", q)') \ P
              /\ Named("Allow", q)' \ Named("Deny", q)' \subseteq permissions'[q]
  <2>1. CASE q = r
    BY <1>5, <1>7, <1>9, <2>1
  <2>2. CASE q # r
    BY <1>5, <1>7, <1>9, <2>2
  <2>. QED BY <2>1, <2>2
<1>12. ExactBeyondDefaults' /\ NothingWithheld'
  BY <1>4, <1>11 DEF ExactBeyondDefaults, NothingWithheld, P
<1>. QED BY <1>8, <1>10, <1>12 DEF IInv

(* The maps are right whatever the policy and the order of its handling. *)
LEMMA Inductive == Spec => []IInv
<1>1. Init => IInv
  BY InitInv
<1>2. IInv /\ [Next]_vars => IInv'
  <2> SUFFICES ASSUME IInv, [Next]_vars PROVE IInv'
    OBVIOUS
  <2>1. CASE \E i \in DOMAIN policy, r \in Resources : Allow(i, r)
    BY <2>1, AllowStep
  <2>2. CASE \E i \in DOMAIN policy, r \in Resources : Deny(i, r)
    BY <2>2, DenyStep
  <2>3. CASE UNCHANGED vars
    <3>1. defaultActions' = defaultActions
      BY <2>3, DefaultsFixed DEF vars
    <3>2. \A r \in Resources : /\ Named("Allow", r)' = Named("Allow", r)
                             /\ Named("Deny", r)' = Named("Deny", r)
      BY <2>3 DEF vars, Named, Stated
    <3>3. TypeOK'
      BY <2>3 DEF vars, IInv, TypeOK
    <3>4. DeniedIsBanned' /\ NoEntryNoGrant'
      BY <2>3, <3>2 DEF vars, IInv, DeniedIsBanned, NoEntryNoGrant
    <3>5. ExactBeyondDefaults' /\ NothingWithheld'
      BY <2>3, <3>1, <3>2 DEF vars, IInv, ExactBeyondDefaults, NothingWithheld
    <3>. QED BY <3>3, <3>4, <3>5 DEF IInv
  <2>. QED BY <2>1, <2>2, <2>3 DEF Next
<1>. QED BY <1>1, <1>2, PTL DEF Spec

(* The maps are maps from the resources of statements to actions. *)
THEOREM TypeCorrect == Spec => []TypeOK
<1>1. IInv => TypeOK
  BY DEF IInv
<1>. QED BY <1>1, Inductive, PTL

(* For every policy, of any length, whatever the order in which the        *)
(* resources of a statement come: beyond the default actions a resource's  *)
(* permissions are what is granted on it and banned nowhere on it.         *)
THEOREM PermissionsExact == Spec => []ExactBeyondDefaults
<1>1. IInv => ExactBeyondDefaults
  BY DEF IInv
<1>. QED BY <1>1, Inductive, PTL

(* For every policy no grant that is banned nowhere is lost. *)
THEOREM GrantsListed == Spec => []NothingWithheld
<1>1. IInv => NothingWithheld
  BY DEF IInv
<1>. QED BY <1>1, Inductive, PTL
=============================================================================
