-------------------------------- MODULE Rbac --------------------------------
(***************************************************************************)
(* The deterministic RBAC kernel of the rules engine: permissions, events, *)
(* authorization, the observed-only reduction, the repair of a candidate,  *)
(* the expansion of wildcards and the conversion of a policy to Role and   *)
(* binding documents and back.                                             *)
(*                                                                         *)
(* A permission and an event are records of the same five fields (the key  *)
(* of models/permission.py).  A policy is a SET of permissions: the        *)
(* constructor of models/policy.py removes duplicates by key and sorts, so *)
(* two policies with the same keys are the same policy.  The provenance of *)
(* a permission (its "source") is not part of its key and is left out.     *)
(***************************************************************************)
EXTENDS Naturals, FiniteSets

\* Python's None: a cluster-wide scope, or no resource name.
None == "<none>"

\* The wildcard of API groups, resources and verbs.
Wild == "*"

\* models/permission.py and models/event.py: the fields that make a key.
Key(group, resource, verb, namespace, name) ==
    [group |-> group, resource |-> resource, verb |-> verb,
     namespace |-> namespace, name |-> name]

-----------------------------------------------------------------------------
(* Supported vocabulary.                                                   *)

SupportedVerbs == {"get", "list", "watch", "create", "update", "patch", "delete"}

\* canonicalizer.py SUPPORTED_RESOURCES: the resources of each API group.
SupportedResources ==
    [g \in {"", "apps", "batch", "coordination.k8s.io"} |->
        CASE g = ""                    -> {"pods", "configmaps", "secrets", "services"}
          [] g = "apps"                -> {"deployments"}
          [] g = "batch"               -> {"jobs"}
          [] g = "coordination.k8s.io" -> {"leases"}]

SupportedGroups == DOMAIN SupportedResources

\* The groups a group field can stand for.
GroupsOf(group) == IF group = Wild THEN SupportedGroups ELSE {group} \cap SupportedGroups

IsSupportedResource(group, resource) ==
    \E g \in GroupsOf(group) : resource = Wild \/ resource \in SupportedResources[g]

\* The verbs whose requests carry a name that resourceNames can constrain
\* (authorization.py RESOURCE_NAME_VERBS, reducer.py RESOURCE_NAME_SAFE_VERBS).
ResourceNameVerbs == {"get", "update", "patch", "delete"}

-----------------------------------------------------------------------------
(* Authorization.                                                          *)

Matches(p, e) ==
    /\ p.group    \in {Wild, e.group}
    /\ p.resource \in {Wild, e.resource}
    /\ p.verb     \in {Wild, e.verb}
    /\ p.namespace # None => p.namespace = e.namespace
    /\ p.name # None => /\ e.verb \in ResourceNameVerbs
                        /\ e.name = p.name

IsAuthorized(policy, e) == \E p \in policy : Matches(p, e)

-----------------------------------------------------------------------------
(* Reduction and repair.                                                   *)

\* event_permission raises ValueError for any other event.
IsSupportedEvent(e) ==
    /\ e.verb \in SupportedVerbs
    /\ IsSupportedResource(e.group, e.resource)

\* Mutant: the name is dropped for every verb.
EventPermissionDroppingName(e) == Key(e.group, e.resource, e.verb, e.namespace, None)

\* The narrowest permission for a call: the name is kept only where
\* resourceNames constrains the verb.
EventPermission(e) ==
    Key(e.group, e.resource, e.verb, e.namespace,
        IF e.verb \in ResourceNameVerbs THEN e.name ELSE None)

\* observed_only_policy raises ValueError unless both conditions hold of
\* every observed call.
CanReduce(policy, observed) ==
    \A e \in observed : IsAuthorized(policy, e) /\ IsSupportedEvent(e)

ObservedOnlyPolicy(observed) == {EventPermission(e) : e \in observed}

\* Mutant: what the original policy allowed is not looked at.
CanRepairUnchecked(original, missing) == \A e \in missing : IsSupportedEvent(e)

\* repair_policy raises ValueError unless both conditions hold of every
\* missing call: it never restores only some of them.
CanRepair(original, missing) ==
    \A e \in missing : IsAuthorized(original, e) /\ IsSupportedEvent(e)

\* Mutant: every verb of the missing call's resource is restored.
RepairPolicyAnyVerb(candidate, missing) ==
    candidate \cup {[EventPermission(e) EXCEPT !.verb = Wild] : e \in missing}

RepairPolicy(candidate, missing) == candidate \cup {EventPermission(e) : e \in missing}

-----------------------------------------------------------------------------
(* Wildcard expansion.                                                     *)

\* The groups that expand_permission substitutes for a wildcard group; any
\* other group, supported or not, stands for itself.
ExpandGroups(p) ==
    IF p.group # Wild THEN {p.group}
    ELSE IF p.resource = Wild THEN SupportedGroups
    ELSE {g \in SupportedGroups : p.resource \in SupportedResources[g]}

ExpandResources(p, g) ==
    IF p.resource # Wild THEN {p.resource}
    ELSE IF g \in SupportedGroups THEN SupportedResources[g] ELSE {}

\* Mutant: a wildcard verb is expanded to the read verbs only.
ExpandReadVerbs(p) == IF p.verb = Wild THEN {"get", "list", "watch"} ELSE {p.verb}

ExpandVerbs(p) == IF p.verb = Wild THEN SupportedVerbs ELSE {p.verb}

ExpandPermission(p) ==
    UNION {{Key(g, r, v, p.namespace, p.name) :
               r \in ExpandResources(p, g), v \in ExpandVerbs(p)} : g \in ExpandGroups(p)}

ExpandPolicy(policy) == UNION {ExpandPermission(p) : p \in policy}

EffectivePermissionCount(policy) == Cardinality(ExpandPolicy(policy))

-----------------------------------------------------------------------------
(* Documents.  A policy becomes one Role and one binding per scope; a rule *)
(* lists API groups, resources, verbs and resource names, and grants their *)
(* cross product.  The subject of every generated binding is the policy's  *)
(* own service account, so subjects are left out.                          *)

Scopes(policy) == {p.namespace : p \in policy}

InScope(policy, ns) == {p \in policy : p.namespace = ns}

\* Mutant: the rules of one resource are merged across resource names.
RuleMergingNames(permissions, p) ==
    [groups |-> {p.group}, resources |-> {p.resource},
     verbs |-> {q.verb : q \in {x \in permissions : x.group = p.group /\ x.resource = p.resource}},
     names |-> {q.name : q \in {x \in permissions : x.group = p.group /\ x.resource = p.resource}}
               \ {None}]

\* generator.py _rules: the rule that holds p, with the verbs of every
\* permission that shares its group, resource and name.
RuleOf(permissions, p) ==
    [groups |-> {p.group}, resources |-> {p.resource},
     verbs |-> {q.verb : q \in {x \in permissions :
                                  /\ x.group = p.group
                                  /\ x.resource = p.resource
                                  /\ x.name = p.name}},
     names |-> {p.name} \ {None}]

RulesOf(permissions) == {RuleOf(permissions, p) : p \in permissions}

\* policy_to_documents: the Role and the binding of each scope.  They share
\* the scope, the kind and the name, so one record stands for the pair.
PolicyToDocuments(policy) ==
    {[scope |-> ns, rules |-> RulesOf(InScope(policy, ns))] : ns \in Scopes(policy)}

\* resolver.py: the cross product of a rule, in the scope of its binding.
\* An empty list of names means every name.
RulePermissions(rule, ns) ==
    {Key(g, r, v, ns, n) : g \in rule.groups, r \in rule.resources, v \in rule.verbs,
                           n \in (IF rule.names = {} THEN {None} ELSE rule.names)}

ResolveEffectivePolicy(documents) ==
    UNION {UNION {RulePermissions(rule, d.scope) : rule \in d.rules} : d \in documents}

=============================================================================
