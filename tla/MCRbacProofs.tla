----------------------------- MODULE MCRbacProofs -----------------------------
(***************************************************************************)
(* What the checks of the rules engine in MCRbac establish, for policies,  *)
(* sets of calls and manifests of any size: the lemmas are about all       *)
(* permissions, calls and documents, the theorems about the inputs that    *)
(* MCRbac builds, for all values of its bounds on their number.            *)
(***************************************************************************)
EXTENDS MCRbac, RbacProofs

-----------------------------------------------------------------------------
(* The inputs.                                                             *)

\* What the inputs are: finite sets of permissions, sequences of documents.
Inputs ==
    /\ policy \subseteq Permissions
    /\ IsFiniteSet(policy)
    /\ observed \subseteq Calls
    /\ manifest \in Seq(Documents)

\* ... and that they stay so.
LEMMA InputsHold == Spec => []Inputs
<1>1. Init => Inputs
  BY FS_EmptySet DEF Init, Inputs
<1>2. Inputs /\ [Next]_vars => Inputs'
  <2> SUFFICES ASSUME Inputs, [Next]_vars
               PROVE  Inputs'
    OBVIOUS
  <2>1. CASE Grant
    <3>1. PICK p \in Permissions : policy' = policy \cup {p} /\ observed' = observed /\ manifest' = manifest
      BY <2>1 DEF Grant
    <3>2. IsFiniteSet(policy')
      BY <3>1, FS_AddElement DEF Inputs
    <3> QED
      BY <3>1, <3>2 DEF Inputs
  <2>2. CASE Observe
    BY <2>2 DEF Observe, Inputs
  <2>3. CASE AddDocument
    <3>1. PICK d \in Documents : manifest' = Append(manifest, d) /\ policy' = policy /\ observed' = observed
      BY <2>3 DEF AddDocument
    <3> HIDE DEF Documents
    <3> QED
      BY <3>1 DEF Inputs
  <2>4. CASE UNCHANGED vars
    BY <2>4 DEF vars, Inputs
  <2> QED
    BY <2>1, <2>2, <2>3, <2>4 DEF Next
<1> QED
  BY <1>1, <1>2, PTL DEF Spec

-----------------------------------------------------------------------------
(* Wildcard expansion.                                                     *)

\* A call names its group and its resource.
LEMMA CallsHaveNoWildcards ==
    ASSUME NEW e \in Calls
    PROVE  e.group # Wild /\ e.resource # Wild
BY DEF Calls, Wild

\* Expanding wildcards changes no answer about a supported call.
THEOREM ExpansionIsExact == Spec => []ExpansionKeepsAuthorization
<1>1. ExpansionKeepsAuthorization
  <2> SUFFICES ASSUME NEW e \in SupportedCalls
               PROVE  IsAuthorized(policy, e) <=> IsAuthorized(ExpandPolicy(policy), e)
    BY DEF ExpansionKeepsAuthorization
  <2>1. e \in Calls /\ IsSupportedEvent(e)
    BY DEF SupportedCalls
  <2>2. e.group # Wild /\ e.resource # Wild
    BY <2>1, CallsHaveNoWildcards
  <2> QED
    BY <2>1, <2>2, ExpansionAuthorizes
<1> QED
  BY <1>1, PTL

-----------------------------------------------------------------------------
(* Reduction and risk.                                                     *)

\* The observed-only policy is the least that authorizes the observed calls.
THEOREM ReductionIsTheLeast == Spec => []ReductionIsLeast
<1>1. ReductionIsLeast
  BY ObservedOnlyIsLeast, ObservedOnlyCovers DEF ReductionIsLeast, CanReduce
<1> QED
  BY <1>1, PTL

\* Neither narrowing a permission to a call nor dropping what no call needs
\* adds risk, and dropping keeps every observed call.
THEOREM ReducingAddsNoRisk == Spec => []ReducingNeverAddsRisk
<1>1. Inputs => ReducingNeverAddsRisk
  <2> SUFFICES ASSUME Inputs
               PROVE  ReducingNeverAddsRisk
    OBVIOUS
  <2> DEFINE rest == policy \ CandidateReductions(policy, observed)
  <2>1. ASSUME NEW p \in policy, NEW e \in observed, Matches(p, e), IsSupportedEvent(e)
        PROVE  PermissionRisk(EventPermission(e), Candidate) <= PermissionRisk(p, Resolved)
    <3>1. e.group # Wild /\ e.resource # Wild
      BY CallsHaveNoWildcards DEF Inputs
    <3> QED
      BY <2>1, <3>1, NarrowingNeverAddsRisk
  <2>2. Score(rest, Resolved) <= Score(policy, Resolved)
    BY DroppingLowersScore DEF Inputs
  <2>3. \A e \in observed : IsAuthorized(policy, e) => IsAuthorized(rest, e)
    BY DroppingKeepsCalls
  <2> QED
    BY <2>1, <2>2, <2>3 DEF ReducingNeverAddsRisk
<1> QED
  BY <1>1, InputsHold, PTL

-----------------------------------------------------------------------------
(* Resolution of a manifest.                                               *)

\* What is resolved for an account is what the API server would allow it: for
\* every manifest that the parser accepts, that has every role once and in
\* which no resource name is Python's None.
LEMMA ResolutionIsSound ==
    ASSUME NEW documents, DOMAIN documents \subseteq Nat, Parses(documents),
           NEW a, NEW e, IsAuthorized(EffectivePolicy(documents, a), e),
           \A i \in DOMAIN documents : documents[i].kind \in RoleKinds =>
               \A rule \in documents[i].rules : None \notin rule.names,
           \A i, j \in DOMAIN documents : SameRole(documents[i], documents[j]) => i = j
    PROVE  \E i, j \in DOMAIN documents : Grants(documents[i], documents[j], a, e)
<1> PICK q \in EffectivePolicy(documents, a) : Matches(q, e)
  BY DEF IsAuthorized
<1> PICK i \in BindingsOf(documents, a) : q \in BindingPermissions(documents, documents[i])
  BY DEF EffectivePolicy
<1>1. q \in BindingPermissions(documents, documents[i]) /\ Matches(q, e)
  OBVIOUS
<1> DEFINE b == documents[i]
           roles == ReferredRoles(documents, b)
           first == CHOOSE x \in roles : \A y \in roles : x <= y
<1>2. i \in DOMAIN documents /\ b.kind \in BindingKinds /\ a \in SubjectAccounts(b)
  BY DEF BindingsOf
<1>3. roles # {} /\ q \in UNION {RulePermissions(rule, BindingScope(b)) : rule \in documents[first].rules}
  BY <1>1 DEF BindingPermissions
<1>4. \A x, y \in roles : x = y
  BY DEF ReferredRoles, RefersTo, SameRole, RoleKinds
<1>5. first \in roles
  <2>1. PICK x \in roles : TRUE
    BY <1>3
  <2>2. x \in Nat
    BY DEF ReferredRoles
  <2>3. \A y \in roles : x <= y
    BY <1>4, <2>1, <2>2
  <2> QED
    BY <2>1, <2>3
<1> DEFINE role == documents[first]
<1>6. first \in DOMAIN documents /\ role.kind \in RoleKinds /\ RefersTo(b, role)
  BY <1>5 DEF ReferredRoles
<1> HIDE DEF first, roles
<1>7. PICK rule \in role.rules : q \in RulePermissions(rule, BindingScope(b))
  BY <1>3
<1>8. PICK g \in rule.groups, r \in rule.resources, v \in rule.verbs,
           n \in (IF rule.names = {} THEN {None} ELSE rule.names) :
          q = Key(g, r, v, BindingScope(b), n)
  BY <1>7 DEF RulePermissions
<1>9. /\ q.group = g /\ q.resource = r /\ q.verb = v /\ q.namespace = BindingScope(b) /\ q.name = n
  BY <1>8 DEF Key
<1>10. RuleAllows(rule, e)
  <2>1. None \notin rule.names
    BY <1>6, <1>7
  <2>2. rule.names # {} => e.verb \in ResourceNameVerbs /\ e.name \in rule.names
    BY <1>1, <1>8, <1>9, <2>1 DEF Matches
  <2>3. g \in {Wild, e.group} /\ r \in {Wild, e.resource} /\ v \in {Wild, e.verb}
    BY <1>1, <1>9 DEF Matches
  <2> QED
    BY <1>8, <2>2, <2>3 DEF RuleAllows
<1>11. b.kind = "RoleBinding" => e.namespace = b.namespace
  <2>1. IsValidDocument(b)
    BY <1>2 DEF Parses
  <2>2. b.kind = "RoleBinding" => b.namespace # None /\ q.namespace = b.namespace
    BY <1>9, <2>1 DEF IsValidDocument, BindingScope
  <2> QED
    BY <1>1, <2>2 DEF Matches
<1>12. \E s \in b.subjects : /\ s.kind = "ServiceAccount" /\ s.name = a.name
                             /\ a.namespace = IF s.namespace # None THEN s.namespace ELSE b.namespace
  <2>1. PICK s \in b.subjects : s.kind = "ServiceAccount" /\ a = Account(s.name, SubjectNamespace(b, s))
    BY <1>2 DEF SubjectAccounts
  <2> QED
    BY <2>1 DEF Account, SubjectNamespace
<1>13. role.kind = b.roleKind /\ role.name = b.roleName /\ (role.kind = "Role" => role.namespace = b.namespace)
  BY <1>6 DEF RefersTo
<1>14. Grants(b, role, a, e)
  BY <1>2, <1>7, <1>10, <1>11, <1>12, <1>13 DEF Grants
<1> QED
  BY <1>2, <1>6, <1>14

\* ... and nothing that it would allow is missed.
LEMMA ResolutionIsComplete ==
    ASSUME NEW documents, DOMAIN documents \subseteq Nat, Parses(documents),
           NEW a, a = Account(a.name, a.namespace), NEW e,
           \A i, j \in DOMAIN documents : SameRole(documents[i], documents[j]) => i = j,
           NEW i \in DOMAIN documents, NEW j \in DOMAIN documents,
           Grants(documents[i], documents[j], a, e)
    PROVE  IsAuthorized(EffectivePolicy(documents, a), e)
<1> DEFINE b == documents[i]
           role == documents[j]
           roles == ReferredRoles(documents, b)
           first == CHOOSE x \in roles : \A y \in roles : x <= y
<1>1. IsValidDocument(b) /\ b.kind \in BindingKinds
  BY DEF Parses, Grants
<1>2. b.roleKind \in RoleKinds
  BY <1>1 DEF IsValidDocument, IsValidBinding
<1>3. j \in roles
  BY <1>2 DEF ReferredRoles, RefersTo, Grants
<1>4. \A x \in roles : x = j
  BY <1>3 DEF ReferredRoles, RefersTo, SameRole
<1>5. first = j
  BY <1>3, <1>4
<1>6. PICK rule \in role.rules : RuleAllows(rule, e)
  BY DEF Grants
<1>7. PICK g \in rule.groups \cap {Wild, e.group}, r \in rule.resources \cap {Wild, e.resource},
           v \in rule.verbs \cap {Wild, e.verb} : TRUE
  BY <1>6 DEF RuleAllows
<1> DEFINE n == IF rule.names = {} THEN None ELSE e.name
           q == Key(g, r, v, BindingScope(b), n)
<1>8. q \in RulePermissions(rule, BindingScope(b))
  <2>1. n \in (IF rule.names = {} THEN {None} ELSE rule.names)
    BY <1>6 DEF RuleAllows
  <2> QED
    BY <1>7, <2>1 DEF RulePermissions
<1>9. Matches(q, e)
  <2>1. BindingScope(b) # None => BindingScope(b) = e.namespace
    BY <1>1 DEF BindingScope, Grants, BindingKinds
  <2>2. n # None => e.verb \in ResourceNameVerbs /\ e.name = n
    BY <1>6 DEF RuleAllows
  <2> HIDE DEF n
  <2> QED
    BY <1>7, <2>1, <2>2 DEF Matches, Key
<1>10. q \in BindingPermissions(documents, b)
  <2> HIDE DEF q
  <2> QED
    BY <1>3, <1>5, <1>8 DEF BindingPermissions
<1>11. i \in BindingsOf(documents, a)
  <2>1. PICK s \in b.subjects : /\ s.kind = "ServiceAccount" /\ s.name = a.name
                                /\ a.namespace = IF s.namespace # None THEN s.namespace ELSE b.namespace
    BY DEF Grants
  <2>2. a = Account(s.name, SubjectNamespace(b, s))
    BY <2>1 DEF SubjectNamespace
  <2> QED
    BY <1>1, <2>1, <2>2 DEF BindingsOf, SubjectAccounts
<1> HIDE DEF q
<1> QED
  BY <1>9, <1>10, <1>11 DEF IsAuthorized, EffectivePolicy

\* The rules of the documents name no resource Python's None.
LEMMA RulesHaveNames ==
    ASSUME NEW d \in Documents, d.kind \in RoleKinds
    PROVE  \A rule \in d.rules : None \notin rule.names
<1>1. CASE d \in RoleDocuments
  <2>1. PICK rule \in Rules : d.rules = {rule}
    BY <1>1 DEF RoleDocuments, RoleDocument
  <2>2. rule.names = {} \/ rule.names = {"a"}
    <3>1. \A groups, resources, verbs, names : Rule(groups, resources, verbs, names).names = names
      BY DEF Rule
    <3>2. \E groups, resources, verbs, names : rule = Rule(groups, resources, verbs, names) /\ (names = {} \/ names = {"a"})
      BY DEF Rules
    <3> QED
      BY <3>1, <3>2
  <2> QED
    BY <2>1, <2>2 DEF None
<1>2. CASE d \in BindingDocuments
  <2>1. d.kind \in BindingKinds
    BY <1>2 DEF BindingDocuments, BindingDocument
  <2> QED
    BY <2>1 DEF BindingKinds, RoleKinds
<1>3. CASE d \in OtherDocuments
  BY <1>3 DEF OtherDocuments, RoleKinds
<1> QED
  BY <1>1, <1>2, <1>3 DEF Documents

\* The resolver answers like the API server.
THEOREM ResolutionIsExact == Spec => []ResolvesWhatIsGranted
<1>1. Inputs => ResolvesWhatIsGranted
  <2> SUFFICES ASSUME Inputs, Parses(manifest), RolesAreUnique, NEW a \in Accounts, NEW e \in Calls
               PROVE  IsAuthorized(EffectivePolicy(manifest, a), e) <=>
                          \E i, j \in DOMAIN manifest : Grants(manifest[i], manifest[j], a, e)
    BY DEF ResolvesWhatIsGranted
  <2> HIDE DEF Documents
  <2>1. /\ DOMAIN manifest \subseteq Nat
        /\ \A i \in DOMAIN manifest : manifest[i] \in Documents
    BY DEF Inputs
  <2>2. \A i \in DOMAIN manifest : manifest[i].kind \in RoleKinds =>
            \A rule \in manifest[i].rules : None \notin rule.names
    BY <2>1, RulesHaveNames
  <2>3. \A i, j \in DOMAIN manifest : SameRole(manifest[i], manifest[j]) => i = j
    BY DEF RolesAreUnique
  <2>4. a = Account(a.name, a.namespace)
    BY DEF Accounts, Account
  <2>5. IsAuthorized(EffectivePolicy(manifest, a), e) =>
            \E i, j \in DOMAIN manifest : Grants(manifest[i], manifest[j], a, e)
    BY <2>1, <2>2, <2>3, ResolutionIsSound
  <2>6. (\E i, j \in DOMAIN manifest : Grants(manifest[i], manifest[j], a, e)) =>
            IsAuthorized(EffectivePolicy(manifest, a), e)
    BY <2>1, <2>3, <2>4, ResolutionIsComplete
  <2> QED
    BY <2>5, <2>6
<1> QED
  BY <1>1, InputsHold, PTL

-----------------------------------------------------------------------------
(* The documents generated for a policy.                                   *)

\* The rules generated for the permissions of a scope resolve to them.
LEMMA ScopeIsExact ==
    ASSUME NEW granted, NEW ns,
           \A p \in granted : p = Key(p.group, p.resource, p.verb, p.namespace, p.name)
    PROVE  UNION {RulePermissions(rule, ns) : rule \in RulesOf(InScope(granted, ns))} = InScope(granted, ns)
<1> DEFINE scoped == InScope(granted, ns)
<1>1. \A p \in scoped : p.namespace = ns /\ p = Key(p.group, p.resource, p.verb, ns, p.name)
  BY DEF InScope
<1> HIDE DEF scoped
<1>2. ASSUME NEW p \in scoped
      PROVE  p \in UNION {RulePermissions(rule, ns) : rule \in RulesOf(scoped)}
  <2>1. p \in RulePermissions(RuleOf(scoped, p), ns)
    BY <1>1, RuleYieldsPermission
  <2> QED
    BY <2>1 DEF RulesOf
<1>3. ASSUME NEW q \in UNION {RulePermissions(rule, ns) : rule \in RulesOf(scoped)}
      PROVE  q \in scoped
  <2>1. PICK p \in scoped : q \in RulePermissions(RuleOf(scoped, p), ns)
    BY DEF RulesOf
  <2> QED
    BY <1>1, <2>1, RuleYieldsNothingNew
<1> QED
  BY <1>2, <1>3 DEF scoped

\* What the parser accepts of a permission.
Parseable(p) ==
    /\ p = Key(p.group, p.resource, p.verb, p.namespace, p.name)
    /\ p.verb \in SupportedVerbs \cup {Wild}
    /\ IsSupportedResource(p.group, p.resource)

\* The rules generated for parseable permissions are valid.
LEMMA GeneratedRulesAreValid ==
    ASSUME NEW granted, \A p \in granted : Parseable(p), NEW rule \in RulesOf(granted)
    PROVE  IsValidRule(rule)
<1>1. PICK p \in granted : rule = RuleOf(granted, p)
  BY DEF RulesOf
<1>2. rule.groups = {p.group} /\ rule.resources = {p.resource}
  BY <1>1 DEF RuleOf
<1>3. p.verb \in rule.verbs
  BY <1>1 DEF RuleOf
<1>4. rule.verbs \subseteq SupportedVerbs \cup {Wild}
  BY <1>1 DEF RuleOf, Parseable
<1>5. IsSupportedResource(p.group, p.resource)
  BY DEF Parseable
<1> QED
  BY <1>2, <1>3, <1>4, <1>5 DEF IsValidRule

\* The documents of a policy whose scopes are listed once each.
LEMMA GeneratedIsExact ==
    ASSUME NEW granted, \A p \in granted : Parseable(p),
           NEW account, account = Account(account.name, account.namespace), account.namespace # None,
           NEW n \in Nat, NEW scopes \in [1 .. n -> Scopes(granted)],
           \A k, l \in 1 .. n : scopes[k] = scopes[l] => k = l,
           \A ns \in Scopes(granted) : \E k \in 1 .. n : scopes[k] = ns
    PROVE  LET documents == GeneratedManifest(granted, account, scopes)
           IN  /\ Parses(documents)
               /\ \A a : EffectivePolicy(documents, a) = IF a = account THEN granted ELSE {}
<1> DEFINE documents == GeneratedManifest(granted, account, scopes)
<1>1. Len(scopes) = n
  BY DEF Scopes
<1>2. DOMAIN documents = 1 .. 2 * n
  BY <1>1 DEF GeneratedManifest
<1>3. \A k \in 1 .. n : /\ 2 * k - 1 \in DOMAIN documents /\ 2 * k \in DOMAIN documents
                        /\ documents[2 * k - 1] = GeneratedRole(granted, scopes[k])
                        /\ documents[2 * k] = GeneratedBinding(account, scopes[k])
  <2> TAKE k \in 1 .. n
  <2>1. 2 * k - 1 \in 1 .. 2 * n /\ 2 * k \in 1 .. 2 * n
    OBVIOUS
  <2>2. (2 * k - 1) % 2 = 1 /\ (2 * k) % 2 = 0 /\ ((2 * k - 1) + 1) \div 2 = k /\ (2 * k) \div 2 = k
    OBVIOUS
  <2> QED
    BY <1>1, <1>2, <2>1, <2>2 DEF GeneratedManifest
<1>4. \A i \in DOMAIN documents : \E k \in 1 .. n : i = 2 * k - 1 \/ i = 2 * k
  <2> TAKE i \in DOMAIN documents
  <2>1. i \in Nat /\ 1 <= i /\ i <= 2 * n
    BY <1>2
  <2> DEFINE k == (i + 1) \div 2
  <2>2. k \in 1 .. n /\ (i = 2 * k - 1 \/ i = 2 * k)
    BY <2>1
  <2> QED
    BY <2>2
<1> HIDE DEF documents
<1> DEFINE Role(k) == documents[2 * k - 1]
           Binding(k) == documents[2 * k]
<1>5. \A k \in 1 .. n : /\ Role(k).kind = (IF scopes[k] = None THEN "ClusterRole" ELSE "Role")
                        /\ Role(k).name = ScopeSuffix(scopes[k])
                        /\ Role(k).namespace = scopes[k]
                        /\ Role(k).rules = RulesOf(InScope(granted, scopes[k]))
  <2>1. \A ns : /\ GeneratedRole(granted, ns).kind = (IF ns = None THEN "ClusterRole" ELSE "Role")
                /\ GeneratedRole(granted, ns).name = ScopeSuffix(ns)
                /\ GeneratedRole(granted, ns).namespace = ns
                /\ GeneratedRole(granted, ns).rules = RulesOf(InScope(granted, ns))
    BY DEF GeneratedRole, RoleDocument
  <2> QED
    BY <1>3, <2>1
<1>6. \A k \in 1 .. n : /\ Binding(k).kind = (IF scopes[k] = None THEN "ClusterRoleBinding" ELSE "RoleBinding")
                        /\ Binding(k).roleKind = (IF scopes[k] = None THEN "ClusterRole" ELSE "Role")
                        /\ Binding(k).roleName = ScopeSuffix(scopes[k])
                        /\ Binding(k).namespace = scopes[k]
                        /\ SubjectAccounts(Binding(k)) = {account}
  <2> TAKE k \in 1 .. n
  <2> DEFINE b == GeneratedBinding(account, scopes[k])
             s == [kind |-> "ServiceAccount", name |-> account.name, namespace |-> account.namespace]
  <2>1. b.subjects = {s}
    BY DEF GeneratedBinding, BindingDocument
  <2>2. s.kind = "ServiceAccount" /\ Account(s.name, SubjectNamespace(b, s)) = account
    BY DEF SubjectNamespace
  <2>3. SubjectAccounts(b) = {account}
    <3> HIDE DEF s, b
    <3> QED
      BY <2>1, <2>2 DEF SubjectAccounts
  <2>4. /\ b.kind = (IF scopes[k] = None THEN "ClusterRoleBinding" ELSE "RoleBinding")
        /\ b.roleKind = (IF scopes[k] = None THEN "ClusterRole" ELSE "Role")
        /\ b.roleName = ScopeSuffix(scopes[k]) /\ b.namespace = scopes[k]
    BY DEF GeneratedBinding, BindingDocument
  <2>5. Binding(k) = b
    BY <1>3
  <2> HIDE DEF b, s, Binding
  <2> QED
    BY <2>3, <2>4, <2>5
<1> USE DEF RoleKinds, BindingKinds
<1>7. Parses(documents)
  <2>1. ASSUME NEW k \in 1 .. n
        PROVE  IsValidDocument(Role(k))
    <3>1. \A p \in InScope(granted, scopes[k]) : Parseable(p)
      BY DEF InScope
    <3>2. \A rule \in Role(k).rules : IsValidRule(rule)
      <4> TAKE rule \in Role(k).rules
      <4>1. rule \in RulesOf(InScope(granted, scopes[k]))
        BY <1>5
      <4> QED
        BY <3>1, <4>1, GeneratedRulesAreValid
    <3> HIDE DEF Role
    <3> QED
      BY <1>5, <3>2 DEF IsValidDocument, SupportedKinds
  <2>2. ASSUME NEW k \in 1 .. n
        PROVE  IsValidDocument(Binding(k))
    <3> HIDE DEF Binding
    <3> QED
      BY <1>6 DEF IsValidDocument, IsValidBinding, SupportedKinds
  <2> QED
    BY <1>4, <2>1, <2>2 DEF Parses
<1>8. ASSUME NEW k \in 1 .. n
      PROVE  BindingPermissions(documents, documents[2 * k]) = InScope(granted, scopes[k])
  <2> DEFINE b == documents[2 * k]
             roles == ReferredRoles(documents, b)
             first == CHOOSE x \in roles : \A y \in roles : x <= y
  <2>1. 2 * k - 1 \in roles
    <3>1. RefersTo(Binding(k), Role(k))
      <4> HIDE DEF Role, Binding
      <4> QED
        BY <1>5, <1>6 DEF RefersTo
    <3>2. Role(k).kind \in RoleKinds
      BY <1>5
    <3> QED
      BY <1>3, <3>1, <3>2 DEF ReferredRoles
  <2>2. \A x \in roles : x = 2 * k - 1
    <3> TAKE x \in roles
    <3>1. x \in DOMAIN documents /\ documents[x].kind \in RoleKinds /\ RefersTo(b, documents[x])
      BY DEF ReferredRoles
    <3>2. PICK l \in 1 .. n : x = 2 * l - 1 \/ x = 2 * l
      BY <1>4, <3>1
    <3>3. x = 2 * l - 1
      <4>1. Binding(l).kind \notin RoleKinds
        BY <1>6
      <4> QED
        BY <3>1, <3>2, <4>1
    <3>4. documents[x].kind = (IF scopes[l] = None THEN "ClusterRole" ELSE "Role") /\ documents[x].namespace = scopes[l]
      BY <1>5, <3>3
    <3>5. b.roleKind = (IF scopes[k] = None THEN "ClusterRole" ELSE "Role") /\ b.namespace = scopes[k]
      BY <1>6
    <3>6. scopes[l] = scopes[k]
      BY <3>1, <3>4, <3>5 DEF RefersTo
    <3> QED
      BY <3>3, <3>6
  <2>3. first = 2 * k - 1
    BY <2>1, <2>2
  <2>4. documents[first].rules = RulesOf(InScope(granted, scopes[k]))
    BY <1>5, <2>3
  <2>5. BindingScope(b) = scopes[k]
    BY <1>6 DEF BindingScope
  <2>6. BindingPermissions(documents, b) =
            UNION {RulePermissions(rule, scopes[k]) : rule \in RulesOf(InScope(granted, scopes[k]))}
    BY <2>1, <2>4, <2>5 DEF BindingPermissions
  <2> QED
    BY <2>6, ScopeIsExact DEF Parseable
<1>9. ASSUME NEW a
      PROVE  EffectivePolicy(documents, a) = IF a = account THEN granted ELSE {}
  <2>1. \A i \in BindingsOf(documents, a) : a = account /\ \E k \in 1 .. n : i = 2 * k
    <3> TAKE i \in BindingsOf(documents, a)
    <3>1. i \in DOMAIN documents /\ documents[i].kind \in BindingKinds /\ a \in SubjectAccounts(documents[i])
      BY DEF BindingsOf
    <3>2. PICK k \in 1 .. n : i = 2 * k - 1 \/ i = 2 * k
      BY <1>4, <3>1
    <3>3. Role(k).kind \notin BindingKinds /\ SubjectAccounts(Binding(k)) = {account}
      BY <1>5, <1>6
    <3> QED
      BY <3>1, <3>2, <3>3
  <2>2. ASSUME a = account, NEW k \in 1 .. n
        PROVE  2 * k \in BindingsOf(documents, a)
    <3>1. 2 * k \in DOMAIN documents
      BY <1>3
    <3>2. Binding(k).kind \in BindingKinds /\ SubjectAccounts(Binding(k)) = {account}
      BY <1>6
    <3>3. documents[2 * k].kind \in BindingKinds /\ a \in SubjectAccounts(documents[2 * k])
      BY <2>2, <3>2
    <3> QED
      BY <3>1, <3>3 DEF BindingsOf
  <2>3. CASE a # account
    <3>1. BindingsOf(documents, a) = {}
      BY <2>1, <2>3
    <3> QED
      BY <2>3, <3>1 DEF EffectivePolicy
  <2>4. CASE a = account
    <3>1. ASSUME NEW p \in granted
          PROVE  p \in EffectivePolicy(documents, a)
      <4>1. PICK k \in 1 .. n : scopes[k] = p.namespace
        BY DEF Scopes
      <4>2. p \in BindingPermissions(documents, documents[2 * k])
        BY <1>8, <4>1 DEF InScope
      <4> QED
        BY <2>2, <2>4, <4>2 DEF EffectivePolicy
    <3>2. ASSUME NEW p \in EffectivePolicy(documents, a)
          PROVE  p \in granted
      <4>1. PICK i \in BindingsOf(documents, a) : p \in BindingPermissions(documents, documents[i])
        BY DEF EffectivePolicy
      <4>2. PICK k \in 1 .. n : i = 2 * k
        BY <2>1
      <4> QED
        BY <1>8, <4>1, <4>2 DEF InScope
    <3> QED
      BY <2>4, <3>1, <3>2
  <2> QED
    BY <2>3, <2>4
<1> QED
  BY <1>7, <1>9 DEF documents

\* A finite policy has finitely many scopes.
LEMMA ScopesAreFinite ==
    ASSUME NEW granted, IsFiniteSet(granted)
    PROVE  IsFiniteSet(Scopes(granted))
<1> DEFINE f == [p \in granted |-> p.namespace]
<1>1. f \in Surjection(granted, Scopes(granted))
  BY DEF Surjection, Scopes
<1> QED
  BY <1>1, FS_Surjection

\* SetToSeq lists a finite set without repetition.
LEMMA SetToSeqIsBijective ==
    ASSUME NEW S, IsFiniteSet(S)
    PROVE  /\ Cardinality(S) \in Nat
           /\ SetToSeq(S) \in [1 .. Cardinality(S) -> S]
           /\ \A k, l \in 1 .. Cardinality(S) : SetToSeq(S)[k] = SetToSeq(S)[l] => k = l
           /\ \A x \in S : \E k \in 1 .. Cardinality(S) : SetToSeq(S)[k] = x
<1> DEFINE n == Cardinality(S)
           f == SetToSeq(S)
<1>1. n \in Nat /\ ExistsBijection(1 .. n, S)
  BY FS_CardinalityType
<1>2. \E g \in [1 .. n -> S] : IsInjective(g)
  BY <1>1 DEF ExistsBijection, Bijection, Injection
<1>3. f \in [1 .. n -> S] /\ IsInjective(f)
  BY <1>2 DEF SetToSeq
<1>4. f \in Injection(1 .. n, S)
  BY <1>3 DEF Injection
<1>5. IsFiniteSet(1 .. n) /\ Cardinality(1 .. n) = n
  BY <1>1, FS_Interval
<1>6. f \in Surjection(1 .. n, S)
  BY <1>4, <1>5, FS_Injection
<1> HIDE DEF f
<1>7. \A x \in S : \E k \in 1 .. n : f[k] = x
  BY <1>6 DEF Surjection
<1> QED
  BY <1>1, <1>3, <1>7 DEF f, IsInjective

\* Generated documents resolve to the policy they are generated for.
THEOREM GeneratedRoundTrip == Spec => []RoundTripIsExact
<1>1. Inputs => RoundTripIsExact
  <2> SUFFICES ASSUME Inputs
               PROVE  RoundTripIsExact
    OBVIOUS
  <2> DEFINE account == Account("s", "n1")
             scopes == SetToSeq(Scopes(policy))
             n == Cardinality(Scopes(policy))
  <2>1. \A p \in policy : Parseable(p)
    <3> TAKE p \in policy
    <3>1. /\ p \in [group : {"", "apps", Wild}, resource : {"pods", "deployments", Wild},
                    verb : {"get", "create", Wild}, namespace : {None, "n1"}, name : {None, "a"}]
          /\ IsSupportedResource(p.group, p.resource)
      BY DEF Inputs, Permissions
    <3>2. p = Key(p.group, p.resource, p.verb, p.namespace, p.name)
      BY <3>1 DEF Key
    <3> QED
      BY <3>1, <3>2 DEF Parseable, SupportedVerbs
  <2>2. account = Account(account.name, account.namespace) /\ account.namespace # None
    BY DEF Account, None
  <2>3. IsFiniteSet(Scopes(policy))
    BY ScopesAreFinite DEF Inputs
  <2>4. /\ n \in Nat /\ scopes \in [1 .. n -> Scopes(policy)]
        /\ \A k, l \in 1 .. n : scopes[k] = scopes[l] => k = l
        /\ \A ns \in Scopes(policy) : \E k \in 1 .. n : scopes[k] = ns
    BY <2>3, SetToSeqIsBijective
  <2> HIDE DEF account, scopes, n
  <2>5. /\ Parses(GeneratedManifest(policy, account, scopes))
        /\ \A a : EffectivePolicy(GeneratedManifest(policy, account, scopes), a) =
                      IF a = account THEN policy ELSE {}
    BY <2>1, <2>2, <2>4, GeneratedIsExact
  <2> QED
    BY <2>5 DEF RoundTripIsExact, account, scopes
<1> QED
  BY <1>1, InputsHold, PTL

=============================================================================
