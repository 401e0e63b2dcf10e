---------------------------- MODULE RbacManifest ----------------------------
(***************************************************************************)
(* RBAC documents: what parse_rbac accepts, how resolve_effective_policy   *)
(* turns the bindings of a service account into a policy, and the          *)
(* documents that policy_to_documents generates.                           *)
(*                                                                         *)
(* A manifest is the sequence of its documents, with Lists flattened.  A   *)
(* document that is not shaped as its kind requires is rejected like one   *)
(* of an unsupported kind, so the kind stands for both.  Order and         *)
(* repetition inside a rule or a list of subjects make no difference to a  *)
(* policy, which is a set: both are sets here.                             *)
(***************************************************************************)
EXTENDS Rbac, Sequences

RoleKinds == {"Role", "ClusterRole"}
BindingKinds == {"RoleBinding", "ClusterRoleBinding"}
SupportedKinds == {"ServiceAccount"} \cup RoleKinds \cup BindingKinds

Account(name, namespace) == [name |-> name, namespace |-> namespace]

RoleDocument(kind, name, namespace, rules) ==
    [kind |-> kind, name |-> name, namespace |-> namespace, rules |-> rules]

\* Subjects are records of kind, name and namespace.
BindingDocument(kind, name, namespace, roleKind, roleName, subjects) ==
    [kind |-> kind, name |-> name, namespace |-> namespace,
     roleKind |-> roleKind, roleName |-> roleName, subjects |-> subjects]

-----------------------------------------------------------------------------
(* parse_rbac raises RbacParseError unless every document is valid.        *)

\* _rules
IsValidRule(rule) ==
    /\ rule.groups # {} /\ rule.resources # {} /\ rule.verbs # {}
    /\ rule.verbs \subseteq SupportedVerbs \cup {Wild}
    /\ \A g \in rule.groups, r \in rule.resources : IsSupportedResource(g, r)

\* A subject without namespace is one of the binding's namespace.
SubjectNamespace(binding, subject) ==
    IF subject.namespace = None THEN binding.namespace ELSE subject.namespace

\* The service accounts of a binding; other subjects are skipped.
SubjectAccounts(binding) ==
    {Account(s.name, SubjectNamespace(binding, s)) :
        s \in {x \in binding.subjects : x.kind = "ServiceAccount"}}

IsValidBinding(d) ==
    /\ d.roleKind \in RoleKinds
    /\ d.kind = "ClusterRoleBinding" => d.roleKind = "ClusterRole"
    /\ \A a \in SubjectAccounts(d) : a.namespace # None

IsValidDocument(d) ==
    /\ d.kind \in SupportedKinds
    /\ d.kind \in {"ServiceAccount", "Role", "RoleBinding"} => d.namespace # None
    /\ d.kind \in RoleKinds => \A rule \in d.rules : IsValidRule(rule)
    /\ d.kind \in BindingKinds => IsValidBinding(d)

Parses(manifest) == \A i \in DOMAIN manifest : IsValidDocument(manifest[i])

-----------------------------------------------------------------------------
(* resolve_effective_policy                                                *)

RefersTo(binding, role) ==
    /\ role.kind = binding.roleKind
    /\ role.name = binding.roleName
    /\ role.kind = "Role" => role.namespace = binding.namespace

\* The positions of the roles a binding refers to; the first one is taken.
ReferredRoles(manifest, binding) ==
    {i \in DOMAIN manifest :
        manifest[i].kind \in RoleKinds /\ RefersTo(binding, manifest[i])}

\* Mutant: a ClusterRole grants cluster-wide, whatever binds it.
BindingScopeOfRole(binding) ==
    IF binding.roleKind = "ClusterRole" THEN None ELSE binding.namespace

\* A ClusterRole that a RoleBinding refers to is scoped to its namespace.
BindingScope(binding) ==
    IF binding.kind = "ClusterRoleBinding" THEN None ELSE binding.namespace

\* A binding whose role is not in the manifest grants nothing.
BindingPermissions(manifest, binding) ==
    LET roles == ReferredRoles(manifest, binding)
        first == CHOOSE i \in roles : \A j \in roles : i <= j
    IN  IF roles = {} THEN {}
        ELSE UNION {RulePermissions(rule, BindingScope(binding)) : rule \in manifest[first].rules}

BindingsOf(manifest, account) ==
    {i \in DOMAIN manifest :
        manifest[i].kind \in BindingKinds /\ account \in SubjectAccounts(manifest[i])}

EffectivePolicy(manifest, account) ==
    UNION {BindingPermissions(manifest, manifest[i]) : i \in BindingsOf(manifest, account)}

-----------------------------------------------------------------------------
(* policy_to_documents, with the subject of the generated bindings.        *)

\* The suffix that tells the names of one policy's roles apart.
ScopeSuffix(ns) == IF ns = None THEN "cluster" ELSE ns

GeneratedRole(policy, ns) ==
    RoleDocument(IF ns = None THEN "ClusterRole" ELSE "Role", ScopeSuffix(ns), ns,
                 RulesOf(InScope(policy, ns)))

GeneratedBinding(account, ns) ==
    BindingDocument(IF ns = None THEN "ClusterRoleBinding" ELSE "RoleBinding",
                    ScopeSuffix(ns), ns,
                    IF ns = None THEN "ClusterRole" ELSE "Role", ScopeSuffix(ns),
                    {[kind |-> "ServiceAccount", name |-> account.name,
                      namespace |-> account.namespace]})

\* The scopes in the order given, which is sorted in the code.
GeneratedManifest(policy, account, scopes) ==
    [i \in 1 .. 2 * Len(scopes) |->
        IF i % 2 = 1 THEN GeneratedRole(policy, scopes[(i + 1) \div 2])
                     ELSE GeneratedBinding(account, scopes[i \div 2])]
=============================================================================
