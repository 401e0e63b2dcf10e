------------------------------- MODULE MCRbac -------------------------------
(***************************************************************************)
(* The operators of the rules engine over bounded inputs: every policy of  *)
(* at most MaxGrants permissions with every set of calls, MaxInputs of     *)
(* them together, and every manifest of at most MaxDocuments documents.    *)
(***************************************************************************)
EXTENDS RbacManifest, Risk, SequencesExt

CONSTANTS MaxGrants, MaxInputs, MaxDocuments    \* bounds on the inputs

VARIABLES policy, observed, manifest

vars == <<policy, observed, manifest>>

\* Wildcards in each field, a cluster-wide and a namespaced scope, a named
\* and an unnamed permission, a verb that carries a name and two that do not.
Permissions ==
    {p \in [group : {"", "apps", Wild}, resource : {"pods", "deployments", Wild},
            verb : {"get", "create", Wild}, namespace : {None, "n1"}, name : {None, "a"}] :
        IsSupportedResource(p.group, p.resource)}

\* Calls on two core resources and one apps resource.  A call without namespace is one
\* on a cluster-scoped path; a call without name is one on the collection.
Calls ==
    {e \in [group : {"", "apps"}, resource : {"pods", "secrets", "deployments"},
            verb : {"get", "create", "deletecollection"}, namespace : {None, "n1"}, name : {None, "a"}] :
        e.group = "apps" <=> e.resource = "deployments"}

SupportedCalls == {e \in Calls : IsSupportedEvent(e)}

Rule(groups, resources, verbs, names) ==
    [groups |-> groups, resources |-> resources, verbs |-> verbs, names |-> names]

\* A rule whose cross product spans groups, a rule with a name, and two
\* rules that the parser rejects.
Rules ==
    {Rule({"", Wild}, {"pods"}, {"get", "create"}, {}), Rule({""}, {"pods"}, {Wild}, {"a"}),
     Rule({""}, {"pods"}, {"escalate"}, {}), Rule({"apps"}, {"pods"}, {"get"}, {})}

Subject(kind, namespace) == [kind |-> kind, name |-> "s", namespace |-> namespace]

RoleDocuments ==
    {RoleDocument(kind, "r", ns, {rule}) : kind \in RoleKinds, ns \in {None, "n1", "n2"}, rule \in Rules}

BindingDocuments ==
    {BindingDocument(kind, "b", ns, roleKind, "r", {s}) :
        kind \in BindingKinds, ns \in {None, "n1", "n2"}, roleKind \in RoleKinds,
        s \in {Subject("User", None), Subject("ServiceAccount", None), Subject("ServiceAccount", "n1")}}

OtherDocuments == {[kind |-> kind, name |-> "s", namespace |-> "n1"] : kind \in {"ServiceAccount", "Secret"}}

Documents == RoleDocuments \cup BindingDocuments \cup OtherDocuments

Accounts == {Account("s", "n1"), Account("s", "n2"), Account("s", "default")}

Init == policy = {} /\ observed = {} /\ manifest = <<>>

Grant ==
    /\ observed = {} /\ manifest = <<>>
    /\ Cardinality(policy) < MaxGrants
    /\ \E p \in Permissions \ policy : policy' = policy \cup {p}
    /\ UNCHANGED <<observed, manifest>>

Observe ==
    /\ manifest = <<>>
    /\ Cardinality(policy) + Cardinality(observed) < MaxInputs
    /\ \E e \in Calls \ observed : observed' = observed \cup {e}
    /\ UNCHANGED <<policy, manifest>>

\* The parser stops at the first document it rejects.
AddDocument ==
    /\ policy = {} /\ observed = {}
    /\ Parses(manifest)
    /\ Len(manifest) < MaxDocuments
    /\ \E d \in Documents : manifest' = Append(manifest, d)
    /\ UNCHANGED <<policy, observed>>

Next == Grant \/ Observe \/ AddDocument

Spec == Init /\ [][Next]_vars

-----------------------------------------------------------------------------

\* A call is authorized by a policy exactly if it is authorized by the policy
\* with its wildcards expanded (expand_policy), on the supported calls: the
\* permission counts that the reports are made of count what is granted.
ExpansionKeepsAuthorization ==
    \A e \in SupportedCalls : IsAuthorized(policy, e) <=> IsAuthorized(ExpandPolicy(policy), e)

\* The documents generated for a policy are accepted by the parser and
\* resolve to that policy for its service account and to nothing for any
\* other: grouping verbs into rules, which grant cross products, and rules
\* into roles loses and invents nothing (policy_to_documents, parse_rbac and
\* resolve_effective_policy, as apply_policy chains them).
RoundTripIsExact ==
    LET account == Account("s", "n1")
        documents == GeneratedManifest(policy, account, SetToSeq(Scopes(policy)))
    IN  /\ Parses(documents)
        /\ \A a \in Accounts :
              EffectivePolicy(documents, a) = IF a = account THEN policy ELSE {}

\* The observed-only policy of a set of calls is the least policy for them:
\* it authorizes each of them, and whatever policy does so also authorizes
\* everything the observed-only policy authorizes (observed_only_policy).
ReductionIsLeast ==
    CanReduce(policy, observed) =>
        /\ \A e \in observed : IsAuthorized(ObservedOnlyPolicy(observed), e)
        /\ \A e \in Calls : IsAuthorized(ObservedOnlyPolicy(observed), e) => IsAuthorized(policy, e)

\* The API server's reading of a rule and of a manifest, without permissions:
\* some binding has the account as a subject and the role it refers to, in
\* its own namespace if that is a Role, has a rule for the call; a
\* RoleBinding speaks of its own namespace only.
RuleAllows(rule, e) ==
    /\ rule.groups \cap {Wild, e.group} # {}
    /\ rule.resources \cap {Wild, e.resource} # {}
    /\ rule.verbs \cap {Wild, e.verb} # {}
    /\ rule.names # {} => e.verb \in ResourceNameVerbs /\ e.name \in rule.names

Grants(binding, role, account, e) ==
    /\ binding.kind \in BindingKinds
    /\ role.kind = binding.roleKind /\ role.name = binding.roleName
    /\ role.kind = "Role" => role.namespace = binding.namespace
    /\ binding.kind = "RoleBinding" => e.namespace = binding.namespace
    /\ \E s \in binding.subjects :
          /\ s.kind = "ServiceAccount" /\ s.name = account.name
          /\ account.namespace = IF s.namespace # None THEN s.namespace ELSE binding.namespace
    /\ \E rule \in role.rules : RuleAllows(rule, e)

\* The cluster holds one role of a kind, name and namespace.
SameRole(d1, d2) ==
    /\ d1.kind \in RoleKinds /\ d1.kind = d2.kind /\ d1.name = d2.name
    /\ d1.kind = "Role" => d1.namespace = d2.namespace

RolesAreUnique ==
    \A i, j \in DOMAIN manifest : SameRole(manifest[i], manifest[j]) => i = j

\* Of a manifest that the parser accepts, resolve_effective_policy finds for
\* every service account exactly the calls that the API server would allow:
\* through a ClusterRole bound in a namespace, subjects without a namespace,
\* bindings without a role, users, and rules with names and wildcards.
ResolvesWhatIsGranted ==
    (Parses(manifest) /\ RolesAreUnique) =>
        \A a \in Accounts, e \in Calls :
            IsAuthorized(EffectivePolicy(manifest, a), e) <=>
                \E i, j \in DOMAIN manifest : Grants(manifest[i], manifest[j], a, e)

\* Reducing a policy never adds risk.  Replacing what allows a call by the
\* permission for just that call does not: the signals of a wildcard outweigh
\* those of anything it stands for (permission_risk_signals).  This is about
\* one permission: many narrow ones may score more than the one they replace.
\* Nor does dropping all candidate reductions together, after which every
\* observed call that was allowed still is (candidate_reductions).
ReducingNeverAddsRisk ==
    LET rest == policy \ CandidateReductions(policy, observed)
    IN  /\ \A p \in policy, e \in observed :
              (Matches(p, e) /\ IsSupportedEvent(e)) =>
                  PermissionRisk(EventPermission(e), Candidate) <= PermissionRisk(p, Resolved)
        /\ Score(rest, Resolved) <= Score(policy, Resolved)
        /\ \A e \in observed : IsAuthorized(policy, e) => IsAuthorized(rest, e)
=============================================================================
