----------------------------- MODULE RbacProofs -----------------------------
(***************************************************************************)
(* What reduction, repair, document generation, wildcard expansion and the *)
(* risk score guarantee for every policy and every call, of any size.      *)
(***************************************************************************)
EXTENDS Risk, FiniteSetTheorems, TLAPS

\* The permission that event_permission makes for a call authorizes it.
LEMMA EventPermissionMatches ==
    ASSUME NEW e
    PROVE  Matches(EventPermission(e), e)
BY DEF Matches, EventPermission, Key

\* A permission p, read as a call, is authorized only by permissions that
\* match every call p itself matches: the check of validate_candidate, which
\* treats permissions as calls, is sound for wildcards, scopes and names.
LEMMA AuthorizedPermissionIsCovered ==
    ASSUME NEW p, NEW q, NEW e, Matches(q, p), Matches(p, e)
    PROVE  Matches(q, e)
BY DEF Matches

\* A permission that matches a call matches, read as a call, the permission
\* made for that call: reduction and repair pass validate_candidate.
LEMMA MatchesEventPermission ==
    ASSUME NEW q, NEW e, Matches(q, e)
    PROVE  Matches(q, EventPermission(e))
BY DEF Matches, EventPermission, Key

\* The same for policies: an original policy that authorizes each permission
\* of a candidate authorizes every call the candidate authorizes.
THEOREM ValidationIsSound ==
    ASSUME NEW orig, NEW cand, \A p \in cand : IsAuthorized(orig, p),
           NEW e, IsAuthorized(cand, e)
    PROVE  IsAuthorized(orig, e)
<1>1. PICK p \in cand : Matches(p, e)
  BY DEF IsAuthorized
<1>2. PICK q \in orig : Matches(q, p)
  BY <1>1 DEF IsAuthorized
<1>3. Matches(q, e)
  BY <1>1, <1>2, AuthorizedPermissionIsCovered
<1> QED
  BY <1>3 DEF IsAuthorized

\* The permissions made for authorized calls pass validation.
LEMMA EventPermissionsAreValid ==
    ASSUME NEW orig, NEW events, \A e \in events : IsAuthorized(orig, e)
    PROVE  \A p \in {EventPermission(e) : e \in events} : IsAuthorized(orig, p)
<1> TAKE p \in {EventPermission(e) : e \in events}
<1>1. PICK e \in events : p = EventPermission(e)
  OBVIOUS
<1>2. PICK q \in orig : Matches(q, e)
  BY <1>1 DEF IsAuthorized
<1>3. Matches(q, p)
  BY <1>1, <1>2, MatchesEventPermission
<1> QED
  BY <1>3 DEF IsAuthorized

\* observed_only_policy returns the least policy for the observed calls:
\* every policy that authorizes them authorizes all that it authorizes.
THEOREM ObservedOnlyIsLeast ==
    ASSUME NEW policy, NEW observed, \A e \in observed : IsAuthorized(policy, e),
           NEW x, IsAuthorized(ObservedOnlyPolicy(observed), x)
    PROVE  IsAuthorized(policy, x)
<1>1. \A p \in ObservedOnlyPolicy(observed) : IsAuthorized(policy, p)
  BY EventPermissionsAreValid DEF ObservedOnlyPolicy
<1> QED
  BY <1>1, ValidationIsSound

\* ... and it authorizes the observed calls.
THEOREM ObservedOnlyCovers ==
    ASSUME NEW observed, NEW e \in observed
    PROVE  IsAuthorized(ObservedOnlyPolicy(observed), e)
BY EventPermissionMatches DEF IsAuthorized, ObservedOnlyPolicy

\* A repaired candidate authorizes the calls it was repaired for.
LEMMA RepairCovers ==
    ASSUME NEW candidate, NEW missing, NEW e \in missing
    PROVE  IsAuthorized(RepairPolicy(candidate, missing), e)
BY EventPermissionMatches DEF IsAuthorized, RepairPolicy

-----------------------------------------------------------------------------
(* Documents.                                                              *)

\* The rule generated for p, resolved in p's scope, yields p ...
LEMMA RuleYieldsPermission ==
    ASSUME NEW permissions, NEW p \in permissions,
           p = Key(p.group, p.resource, p.verb, p.namespace, p.name)
    PROVE  p \in RulePermissions(RuleOf(permissions, p), p.namespace)
<1> DEFINE rule == RuleOf(permissions, p)
<1>1. p.group \in rule.groups /\ p.resource \in rule.resources /\ p.verb \in rule.verbs
  BY DEF RuleOf
<1>2. p.name \in (IF rule.names = {} THEN {None} ELSE rule.names)
  BY DEF RuleOf
<1> QED
  BY <1>1, <1>2 DEF RulePermissions

\* ... and only permissions that are there already.
LEMMA RuleYieldsNothingNew ==
    ASSUME NEW permissions, NEW p \in permissions, NEW ns,
           \A x \in permissions : x = Key(x.group, x.resource, x.verb, ns, x.name),
           NEW q \in RulePermissions(RuleOf(permissions, p), ns)
    PROVE  q \in permissions
<1> DEFINE rule == RuleOf(permissions, p)
<1>1. PICK g \in rule.groups, r \in rule.resources, v \in rule.verbs,
           n \in (IF rule.names = {} THEN {None} ELSE rule.names) :
             q = Key(g, r, v, ns, n)
  BY DEF RulePermissions
<1>2. g = p.group /\ r = p.resource /\ n = p.name
  BY <1>1 DEF RuleOf
<1>3. PICK x \in permissions : /\ x.group = p.group /\ x.resource = p.resource
                               /\ x.name = p.name /\ x.verb = v
  BY <1>1 DEF RuleOf
<1>4. q = x
  BY <1>1, <1>2, <1>3
<1> QED
  BY <1>4

\* The documents of a policy resolve to exactly that policy, so the check of
\* apply_policy before kubectl ("deterministic round-trip") never refuses.
THEOREM RoundTrip ==
    ASSUME NEW policy,
           \A p \in policy : p = Key(p.group, p.resource, p.verb, p.namespace, p.name)
    PROVE  ResolveEffectivePolicy(PolicyToDocuments(policy)) = policy
<1> DEFINE docs == PolicyToDocuments(policy)
<1>1. ASSUME NEW p \in policy
      PROVE  p \in ResolveEffectivePolicy(docs)
  <2> DEFINE scoped == InScope(policy, p.namespace)
             d == [scope |-> p.namespace, rules |-> RulesOf(scoped)]
  <2>1. p \in scoped
    BY DEF InScope
  <2>2. d \in docs
    BY DEF PolicyToDocuments, Scopes
  <2>3. RuleOf(scoped, p) \in d.rules
    BY <2>1 DEF RulesOf
  <2>4. p \in RulePermissions(RuleOf(scoped, p), d.scope)
    BY <2>1, <1>1, RuleYieldsPermission
  <2> QED
    BY <2>2, <2>3, <2>4 DEF ResolveEffectivePolicy
<1>2. ASSUME NEW q \in ResolveEffectivePolicy(docs)
      PROVE  q \in policy
  <2>1. PICK d \in docs : \E rule \in d.rules : q \in RulePermissions(rule, d.scope)
    BY <1>2 DEF ResolveEffectivePolicy
  <2>2. PICK ns \in Scopes(policy) : d = [scope |-> ns, rules |-> RulesOf(InScope(policy, ns))]
    BY <2>1 DEF PolicyToDocuments
  <2> DEFINE scoped == InScope(policy, ns)
  <2>3. PICK p \in scoped : q \in RulePermissions(RuleOf(scoped, p), ns)
    BY <2>1, <2>2 DEF RulesOf
  <2>4. \A x \in scoped : x = Key(x.group, x.resource, x.verb, ns, x.name)
    BY DEF InScope
  <2>5. q \in scoped
    BY <2>3, <2>4, RuleYieldsNothingNew
  <2> QED
    BY <2>5 DEF InScope
<1> QED
  BY <1>1, <1>2

-----------------------------------------------------------------------------
(* Wildcard expansion.                                                     *)

\* What an expanded permission matches, the permission matches.
LEMMA ExpansionAddsNothing ==
    ASSUME NEW p, NEW q \in ExpandPermission(p), NEW e, Matches(q, e)
    PROVE  Matches(p, e)
<1>1. PICK g \in ExpandGroups(p) : \E r \in ExpandResources(p, g), v \in ExpandVerbs(p) :
          q = Key(g, r, v, p.namespace, p.name)
  BY DEF ExpandPermission
<1>2. PICK r \in ExpandResources(p, g), v \in ExpandVerbs(p) : q = Key(g, r, v, p.namespace, p.name)
  BY <1>1
<1>3. /\ q.group = g /\ q.resource = r /\ q.verb = v /\ q.namespace = p.namespace /\ q.name = p.name
  BY <1>2 DEF Key
<1>4. (p.group # Wild => g = p.group) /\ (p.resource # Wild => r = p.resource)
      /\ (p.verb # Wild => v = p.verb)
  BY DEF ExpandGroups, ExpandResources, ExpandVerbs
<1> QED
  BY <1>3, <1>4 DEF Matches

\* A call with a supported group, resource and verb that a permission matches
\* is matched by one of those it expands to.
LEMMA ExpansionLosesNothing ==
    ASSUME NEW p, NEW e, Matches(p, e), IsSupportedEvent(e), e.group # Wild, e.resource # Wild
    PROVE  \E q \in ExpandPermission(p) : Matches(q, e)
<1>1. e.group \in SupportedGroups /\ e.resource \in SupportedResources[e.group]
      /\ e.verb \in SupportedVerbs
  BY DEF IsSupportedEvent, IsSupportedResource, GroupsOf
<1>2. e.group \in ExpandGroups(p)
  BY <1>1 DEF Matches, ExpandGroups
<1>3. e.resource \in ExpandResources(p, e.group)
  BY <1>1 DEF Matches, ExpandResources
<1>4. e.verb \in ExpandVerbs(p)
  BY <1>1 DEF Matches, ExpandVerbs
<1> DEFINE q == Key(e.group, e.resource, e.verb, p.namespace, p.name)
<1>5. q \in ExpandPermission(p)
  BY <1>2, <1>3, <1>4 DEF ExpandPermission
<1>6. Matches(q, e)
  BY DEF Matches, Key
<1> QED
  BY <1>5, <1>6

\* The same for policies.
LEMMA ExpansionAuthorizes ==
    ASSUME NEW granted, NEW e, IsSupportedEvent(e), e.group # Wild, e.resource # Wild
    PROVE  IsAuthorized(granted, e) <=> IsAuthorized(ExpandPolicy(granted), e)
BY ExpansionAddsNothing, ExpansionLosesNothing DEF IsAuthorized, ExpandPolicy

-----------------------------------------------------------------------------
(* Risk.                                                                   *)

\* The permission for one call scores at most what any permission scores that
\* matches the call: the signals of wildcards, of cluster-wide scope and of
\* their provenance outweigh those of what they stand for.
THEOREM NarrowingNeverAddsRisk ==
    ASSUME NEW p, NEW e, Matches(p, e), IsSupportedEvent(e), e.group # Wild, e.resource # Wild
    PROVE  PermissionRisk(EventPermission(e), Candidate) <= PermissionRisk(p, Resolved)
<1> DEFINE q == EventPermission(e)
<1>1. /\ q.group = e.group /\ q.resource = e.resource /\ q.verb = e.verb /\ q.namespace = e.namespace
  BY DEF EventPermission, Key
<1>2. e.verb # Wild
  BY DEF IsSupportedEvent, SupportedVerbs, Wild
<1> DEFINE Verb(x) == Signal(x.verb = Wild, 20) + Signal(x.verb \in MutatingVerbs, 4)
                          + Signal(x.verb \in {"delete", Wild}, 5)
           Scope(x, provenance) == Signal(x.namespace = None, 8)
                                   + Signal(x.namespace = None /\ provenance = Resolved, 5)
           Wide(x) == Signal(x.resource = Wild \/ x.group = Wild, 25)
           Secret(x) == Signal(x.resource = "secrets",
                               IF x.verb \in {"get", "list", "watch", Wild} THEN 8 ELSE 12)
           Rights(x) == Signal(x.resource \in RbacResources, 20)
<1>3. Scope(q, Candidate) <= Scope(p, Resolved)
  BY <1>1 DEF Matches, Signal, Candidate, Resolved, None
<1>4. Verb(q) + Wide(q) + Secret(q) + Rights(q) <= Verb(p) + Wide(p) + Secret(p) + Rights(p)
  <2>1. Wide(q) = 0
    BY <1>1 DEF Signal
  <2>2. CASE p.verb = Wild
    <3>1. Verb(p) = 29 /\ Verb(q) <= 9 /\ Verb(q) \in Nat
      BY <1>1, <1>2, <2>2 DEF Signal, MutatingVerbs
    <3>2. Secret(q) + Rights(q) <= Secret(p) + Rights(p) + 20 /\ Wide(p) \in Nat
          /\ Secret(q) \in Nat /\ Rights(q) \in Nat /\ Secret(p) \in Nat /\ Rights(p) \in Nat
      BY <1>1 DEF Matches, Signal, RbacResources
    <3> HIDE DEF Verb, Secret, Rights, Wide
    <3> QED
      BY <2>1, <3>1, <3>2
  <2>3. CASE p.verb = e.verb
    <3>1. Verb(p) = Verb(q) /\ Verb(q) \in Nat
      BY <1>1, <2>3 DEF Signal
    <3>2. Secret(q) + Rights(q) <= Secret(p) + Rights(p) + Wide(p)
      BY <1>1, <2>3 DEF Matches, Signal, RbacResources
    <3>3. Secret(q) \in Nat /\ Rights(q) \in Nat /\ Secret(p) \in Nat /\ Rights(p) \in Nat /\ Wide(p) \in Nat
      BY DEF Signal
    <3> HIDE DEF Verb, Secret, Rights, Wide
    <3> QED
      BY <2>1, <3>1, <3>2, <3>3
  <2> QED
    BY <2>2, <2>3 DEF Matches
<1>5. PermissionRisk(q, Candidate) <= PermissionRisk(p, Resolved)
  BY <1>3, <1>4 DEF PermissionRisk, Signal
<1> QED
  BY <1>5

\* Dropping all candidate reductions at once keeps every observed call.
THEOREM DroppingKeepsCalls ==
    ASSUME NEW granted, NEW calls, NEW e \in calls, IsAuthorized(granted, e)
    PROVE  IsAuthorized(granted \ CandidateReductions(granted, calls), e)
BY DEF IsAuthorized, CandidateReductions

-----------------------------------------------------------------------------
(* Sums, and the score of a policy.  The library's induction theorems take *)
(* an operator; the well-foundedness of the strict subsets of a finite set *)
(* does not, and gives the induction that a fold over a set needs.         *)

\* Induction over the subsets of a finite set, of which a set of subsets has
\* all if it has every subset of which it has all smaller ones.
LEMMA SubsetInduction ==
    ASSUME NEW S, IsFiniteSet(S), NEW T,
           \A s \in SUBSET S : (\A r \in SUBSET s : r # s => r \in T) => s \in T
    PROVE  SUBSET S \subseteq T
<1> DEFINE Rest == (SUBSET S) \ T
<1>1. SUFFICES ASSUME Rest # {}
               PROVE  FALSE
  OBVIOUS
<1>2. IsWellFoundedOn(StrictSubsetOrdering(S), SUBSET S)
  BY FS_StrictSubsetOrderingWellFounded, FS_FiniteSubsetsOfFinite
<1>3. PICK s \in Rest : \A r \in Rest : <<r, s>> \notin StrictSubsetOrdering(S)
  <2>1. Rest \subseteq SUBSET S
    OBVIOUS
  <2> HIDE DEF Rest
  <2> QED
    BY <1>1, <1>2, <2>1, WFMin
<1>4. \A r \in SUBSET s : r # s => r \in T
  BY <1>3 DEF StrictSubsetOrdering
<1> QED
  BY <1>4

\* The element a sum takes first, and the sums over the subsets of a set.
First(s) == CHOOSE x \in s : TRUE

Sums(S, w) == CHOOSE g : g = [s \in SUBSET S |-> IF s = {} THEN 0 ELSE w[First(s)] + g[s \ {First(s)}]]

AreSums(S, w, g) ==
    /\ DOMAIN g = SUBSET S
    /\ g = [s \in SUBSET S |-> g[s]]
    /\ \A s \in SUBSET S : g[s] = IF s = {} THEN 0 ELSE w[First(s)] + g[s \ {First(s)}]

\* The first element is one, and what is left is less.
LEMMA FirstIsElement ==
    ASSUME NEW s, s # {}
    PROVE  First(s) \in s /\ s \ {First(s)} # s
BY DEF First

\* Sums over different sets agree on their common subsets.
LEMMA SumsAgree ==
    ASSUME NEW S, IsFiniteSet(S), NEW w, NEW A, NEW B, NEW g, NEW h,
           S \subseteq A, S \subseteq B, AreSums(A, w, g), AreSums(B, w, h)
    PROVE  \A s \in SUBSET S : g[s] = h[s]
<1> DEFINE T == {s \in SUBSET S : g[s] = h[s]}
<1>1. ASSUME NEW s \in SUBSET S, \A r \in SUBSET s : r # s => r \in T
      PROVE  s \in T
  <2>1. s # {} => g[s \ {First(s)}] = h[s \ {First(s)}]
    BY <1>1, FirstIsElement
  <2>2. g[s] = IF s = {} THEN 0 ELSE w[First(s)] + g[s \ {First(s)}]
    BY DEF AreSums
  <2>3. h[s] = IF s = {} THEN 0 ELSE w[First(s)] + h[s \ {First(s)}]
    BY DEF AreSums
  <2> QED
    BY <2>1, <2>2, <2>3
<1>2. SUBSET S \subseteq T
  <2> HIDE DEF T
  <2> QED
    BY <1>1, SubsetInduction
<1> QED
  BY <1>2

\* Sums exist.
LEMMA SumsExist ==
    ASSUME NEW S, IsFiniteSet(S), NEW w
    PROVE  \E g : AreSums(S, w, g)
<1> DEFINE T == {s \in SUBSET S : \E g : AreSums(s, w, g)}
<1>1. ASSUME NEW s \in SUBSET S, \A r \in SUBSET s : r # s => r \in T
      PROVE  s \in T
  <2> DEFINE G(r) == CHOOSE g : AreSums(r, w, g)
             Value(r) == IF r = {} THEN 0 ELSE w[First(r)] + G(r \ {First(r)})[r \ {First(r)}]
             h == [r \in SUBSET s |-> Value(r)]
  <2>1. \A r \in SUBSET s : r # s => AreSums(r, w, G(r))
    BY <1>1
  <2>2. ASSUME NEW r \in SUBSET s, r # s
        PROVE  h[r] = G(r)[r]
    <3>1. AreSums(r, w, G(r))
      BY <2>1, <2>2
    <3> DEFINE q == r \ {First(r)}
    <3>2. CASE r = {}
      <4> HIDE DEF G
      <4> QED
        BY <3>1, <3>2 DEF AreSums
    <3>3. CASE r # {}
      <4>1. q \in SUBSET s /\ q # s /\ q \subseteq r /\ q # r
        BY <2>2, <3>3, FirstIsElement
      <4>2. AreSums(q, w, G(q))
        BY <2>1, <4>1
      <4>3. IsFiniteSet(q)
        BY FS_Subset, <4>1
      <4> HIDE DEF G, q
      <4>4. G(q)[q] = G(r)[q]
        BY <3>1, <4>1, <4>2, <4>3, SumsAgree
      <4>5. h[r] = w[First(r)] + G(q)[q]
        BY <3>3 DEF q
      <4>6. G(r)[r] = w[First(r)] + G(r)[q]
        BY <3>1, <3>3 DEF AreSums, q
      <4> QED
        BY <4>4, <4>5, <4>6
    <3> QED
      BY <3>2, <3>3
  <2>3. AreSums(s, w, h)
    <3>1. ASSUME NEW r \in SUBSET s, r # {}
          PROVE  h[r] = w[First(r)] + h[r \ {First(r)}]
      <4>1. r \ {First(r)} \in SUBSET s /\ r \ {First(r)} # s
        BY <3>1, FirstIsElement
      <4>2. h[r \ {First(r)}] = G(r \ {First(r)})[r \ {First(r)}]
        BY <2>2, <4>1
      <4>3. h[r] = w[First(r)] + G(r \ {First(r)})[r \ {First(r)}]
        BY <3>1
      <4> QED
        BY <4>2, <4>3
    <3>2. h[{}] = 0
      OBVIOUS
    <3>3. DOMAIN h = SUBSET s /\ h = [r \in SUBSET s |-> h[r]]
      OBVIOUS
    <3> HIDE DEF h
    <3> QED
      BY <3>1, <3>2, <3>3 DEF AreSums
  <2> HIDE DEF h
  <2> QED
    BY <2>3
<1>2. SUBSET S \subseteq T
  <2> HIDE DEF T
  <2> QED
    BY <1>1, SubsetInduction
<1> QED
  BY <1>2

\* ... and the recursive function that a fold over a set defines is them.
LEMMA SumsAreSums ==
    ASSUME NEW S, IsFiniteSet(S), NEW w
    PROVE  AreSums(S, w, Sums(S, w))
<1> DEFINE Is(g) == g = [s \in SUBSET S |-> IF s = {} THEN 0 ELSE w[First(s)] + g[s \ {First(s)}]]
<1>1. PICK g : AreSums(S, w, g)
  BY SumsExist
<1>2. Is(g)
  BY <1>1 DEF AreSums
<1>3. Is(Sums(S, w))
  <2> HIDE DEF Is
  <2>1. Is(CHOOSE h : Is(h))
    BY <1>2
  <2> QED
    BY <2>1 DEF Sums, Is
<1> QED
  BY <1>3 DEF AreSums

\* The sum over a set.
Total(S, w) == Sums(S, w)[S]

\* A sum of naturals is a natural, whichever element is taken first, and of a
\* part of the summands at most the whole.
LEMMA SumsOfNaturals ==
    ASSUME NEW S, IsFiniteSet(S), NEW w \in [S -> Nat], NEW g, AreSums(S, w, g)
    PROVE  /\ \A s \in SUBSET S : g[s] \in Nat
           /\ \A s \in SUBSET S : \A x \in s : g[s] = w[x] + g[s \ {x}]
           /\ \A s \in SUBSET S : \A r \in SUBSET s : g[r] <= g[s]
<1>1. \A s \in SUBSET S : s # {} => /\ g[s] = w[First(s)] + g[s \ {First(s)}]
                                    /\ First(s) \in s /\ s \ {First(s)} \in SUBSET S /\ s \ {First(s)} # s
  BY FirstIsElement DEF AreSums
<1>2. g[{}] = 0
  BY DEF AreSums
<1>3. \A s \in SUBSET S : g[s] \in Nat
  <2> DEFINE T == {s \in SUBSET S : g[s] \in Nat}
  <2>1. ASSUME NEW s \in SUBSET S, \A r \in SUBSET s : r # s => r \in T
        PROVE  s \in T
    <3>1. CASE s = {}
      BY <1>2, <3>1
    <3>2. CASE s # {}
      <4> DEFINE rest == s \ {First(s)}
      <4>1. g[rest] \in Nat
        BY <1>1, <2>1, <3>2
      <4>2. w[First(s)] \in Nat
        BY <1>1, <3>2
      <4>3. g[s] = w[First(s)] + g[rest]
        BY <1>1, <3>2
      <4> HIDE DEF rest
      <4>4. g[s] \in Nat
        BY <4>1, <4>2, <4>3
      <4> QED
        BY <4>4
    <3> QED
      BY <3>1, <3>2
  <2>2. SUBSET S \subseteq T
    <3> HIDE DEF T
    <3> QED
      BY <2>1, SubsetInduction
  <2> QED
    BY <2>2
<1>4. \A s \in SUBSET S : \A x \in s : g[s] = w[x] + g[s \ {x}]
  <2> DEFINE T == {s \in SUBSET S : \A x \in s : g[s] = w[x] + g[s \ {x}]}
  <2>1. ASSUME NEW s \in SUBSET S, \A r \in SUBSET s : r # s => r \in T
        PROVE  s \in T
    <3> SUFFICES ASSUME NEW x \in s
                 PROVE  g[s] = w[x] + g[s \ {x}]
      OBVIOUS
    <3> DEFINE f == First(s)
               both == s \ {x, f}
    <3>1. g[s] = w[f] + g[s \ {f}] /\ f \in s
      BY <1>1
    <3> HIDE DEF f
    <3>2. CASE x = f
      BY <3>1, <3>2
    <3>3. CASE x # f
      <4>1. s \ {f} \in T /\ s \ {x} \in T
        BY <2>1, <3>1
      <4>2. (s \ {f}) \ {x} = both /\ (s \ {x}) \ {f} = both /\ x \in s \ {f} /\ f \in s \ {x}
        BY <3>1, <3>3
      <4>3. g[s \ {f}] = w[x] + g[both] /\ g[s \ {x}] = w[f] + g[both]
        BY <4>1, <4>2
      <4>4. w[x] \in Nat /\ w[f] \in Nat /\ g[both] \in Nat
        BY <1>3, <3>1
      <4> QED
        BY <3>1, <4>3, <4>4
    <3> QED
      BY <3>2, <3>3
  <2>2. SUBSET S \subseteq T
    <3> HIDE DEF T
    <3> QED
      BY <2>1, SubsetInduction
  <2> QED
    BY <2>2
<1>5. \A s \in SUBSET S : \A r \in SUBSET s : g[r] <= g[s]
  <2> DEFINE T == {s \in SUBSET S : \A r \in SUBSET s : g[r] <= g[s]}
  <2>1. ASSUME NEW s \in SUBSET S, \A r \in SUBSET s : r # s => r \in T
        PROVE  s \in T
    <3> SUFFICES ASSUME NEW r \in SUBSET s
                 PROVE  g[r] <= g[s]
      OBVIOUS
    <3>1. CASE r = s
      BY <1>3, <3>1
    <3>2. CASE r # s
      <4>1. PICK x \in s : x \notin r
        BY <3>2
      <4>2. s \ {x} \in T /\ r \in SUBSET (s \ {x})
        BY <2>1, <4>1
      <4>3. g[r] <= g[s \ {x}]
        BY <4>2
      <4>4. g[s] = w[x] + g[s \ {x}]
        BY <1>4
      <4>5. g[r] \in Nat /\ g[s \ {x}] \in Nat /\ w[x] \in Nat
        BY <1>3
      <4> QED
        BY <4>3, <4>4, <4>5
    <3> QED
      BY <3>1, <3>2
  <2>2. SUBSET S \subseteq T
    <3> HIDE DEF T
    <3> QED
      BY <2>1, SubsetInduction
  <2> QED
    BY <2>2
<1> QED
  BY <1>3, <1>4, <1>5

\* The points of a permission are a natural number.
LEMMA RiskIsNatural ==
    ASSUME NEW p, NEW provenance
    PROVE  PermissionRisk(p, provenance) \in Nat
<1>1. \A b \in BOOLEAN, n \in Nat : Signal(b, n) \in Nat
  BY DEF Signal
<1>2. (IF p.verb \in {"get", "list", "watch", Wild} THEN 8 ELSE 12) \in Nat
  OBVIOUS
<1>3. ASSUME NEW a \in Nat, NEW b \in Nat, NEW c \in Nat, NEW d \in Nat, NEW e \in Nat, NEW f \in Nat, NEW g \in Nat, NEW h \in Nat
      PROVE  a + b + c + d + e + f + g + h \in Nat
  OBVIOUS
<1> QED
  BY DEF PermissionRisk, Signal

\* score_policy sums the points of the permissions ...
LEMMA ScoreIsTotal ==
    ASSUME NEW S, IsFiniteSet(S), NEW w, NEW provenance, \A p \in S : w[p] = PermissionRisk(p, provenance)
    PROVE  UncappedScore(S, provenance) = Total(S, w)
<1> DEFINE Is(g) == g = [s \in SUBSET S |->
                            IF s = {} THEN 0
                            ELSE PermissionRisk(First(s), provenance) + g[s \ {First(s)}]]
           IsSum(g) == g = [s \in SUBSET S |-> IF s = {} THEN 0 ELSE w[First(s)] + g[s \ {First(s)}]]
<1>1. UncappedScore(S, provenance) = (CHOOSE g : Is(g))[S]
  BY DEF UncappedScore, MapThenSumSet, MapThenFoldSet, First
<1>2. ASSUME NEW g
      PROVE  Is(g) <=> IsSum(g)
  <2>1. \A s \in SUBSET S : s # {} => w[First(s)] = PermissionRisk(First(s), provenance)
    BY FirstIsElement
  <2> QED
    BY <2>1
<1>3. (CHOOSE g : Is(g)) = (CHOOSE g : IsSum(g))
  <2> HIDE DEF Is, IsSum
  <2> QED
    BY <1>2
<1> QED
  BY <1>1, <1>3 DEF Total, Sums

\* The cap of the score.
LEMMA CapIsMinimum ==
    ASSUME NEW n \in Nat
    PROVE  Min({100, n}) = IF n <= 100 THEN n ELSE 100
<1> DEFINE m == IF n <= 100 THEN n ELSE 100
<1>1. m \in {100, n} /\ \A y \in {100, n} : m =< y
  OBVIOUS
<1>2. \A x \in {100, n} : (\A y \in {100, n} : x =< y) => x = m
  OBVIOUS
<1> HIDE DEF m
<1> QED
  BY <1>1, <1>2 DEF Min, m

\* A part of a policy never scores more than the policy.
LEMMA DroppingLowersScore ==
    ASSUME NEW S, IsFiniteSet(S), NEW R \in SUBSET S, NEW provenance
    PROVE  Score(R, provenance) <= Score(S, provenance)
<1> DEFINE w == [p \in S |-> PermissionRisk(p, provenance)]
<1>1. w \in [S -> Nat] /\ \A p \in S : w[p] = PermissionRisk(p, provenance)
  BY RiskIsNatural
<1> HIDE DEF w
<1>2. IsFiniteSet(R)
  BY FS_Subset
<1>3. AreSums(S, w, Sums(S, w)) /\ AreSums(R, w, Sums(R, w))
  BY <1>2, SumsAreSums
<1>4. Sums(R, w)[R] = Sums(S, w)[R]
  BY <1>2, <1>3, SumsAgree
<1>5. Total(R, w) \in Nat /\ Total(S, w) \in Nat /\ Total(R, w) <= Total(S, w)
  <2>1. Sums(S, w)[R] \in Nat /\ Sums(S, w)[S] \in Nat /\ Sums(S, w)[R] <= Sums(S, w)[S]
    BY <1>1, <1>3, SumsOfNaturals
  <2> QED
    BY <1>4, <2>1 DEF Total
<1>6. UncappedScore(R, provenance) = Total(R, w) /\ UncappedScore(S, provenance) = Total(S, w)
  BY <1>1, <1>2, ScoreIsTotal
<1> QED
  BY <1>5, <1>6, CapIsMinimum DEF Score

\* The vocabulary is finite.
LEMMA SevenAreFinite ==
    ASSUME NEW a, NEW b, NEW c, NEW d, NEW e, NEW f, NEW g
    PROVE  IsFiniteSet({a, b, c, d, e, f, g})
<1>1. IsFiniteSet({a}) /\ \A S, x : IsFiniteSet(S) => IsFiniteSet(S \cup {x})
  BY FS_Singleton, FS_AddElement
<1>2. IsFiniteSet({a} \cup {b})
  BY <1>1
<1>3. IsFiniteSet({a} \cup {b} \cup {c})
  BY <1>1, <1>2
<1>4. IsFiniteSet({a} \cup {b} \cup {c} \cup {d})
  BY <1>1, <1>3
<1>5. IsFiniteSet({a} \cup {b} \cup {c} \cup {d} \cup {e})
  BY <1>1, <1>4
<1>6. IsFiniteSet({a} \cup {b} \cup {c} \cup {d} \cup {e} \cup {f})
  BY <1>1, <1>5
<1>7. IsFiniteSet({a} \cup {b} \cup {c} \cup {d} \cup {e} \cup {f} \cup {g})
  BY <1>1, <1>6
<1>8. {a, b, c, d, e, f, g} = {a} \cup {b} \cup {c} \cup {d} \cup {e} \cup {f} \cup {g}
  OBVIOUS
<1> QED
  BY <1>7, <1>8

\* A policy expands to finitely many permissions.
LEMMA ExpansionIsFinite ==
    ASSUME NEW granted, IsFiniteSet(granted)
    PROVE  IsFiniteSet(ExpandPolicy(granted))
<1>1. IsFiniteSet(SupportedGroups) /\ IsFiniteSet(SupportedVerbs)
  <2>1. SupportedGroups \subseteq {"", "", "", "", "apps", "batch", "coordination.k8s.io"}
    BY DEF SupportedGroups, SupportedResources
  <2> QED
    BY <2>1, SevenAreFinite, FS_Subset DEF SupportedVerbs
<1>2. \A g \in SupportedGroups : IsFiniteSet(SupportedResources[g])
  <2> TAKE g \in SupportedGroups
  <2>1. SupportedResources[g] \subseteq
            {"pods", "configmaps", "secrets", "services", "deployments", "jobs", "leases"}
    BY DEF SupportedGroups, SupportedResources
  <2> QED
    BY <2>1, SevenAreFinite, FS_Subset
<1>3. ASSUME NEW p
      PROVE  IsFiniteSet(ExpandPermission(p))
  <2> DEFINE Of(g) == {Key(g, r, v, p.namespace, p.name) : r \in ExpandResources(p, g), v \in ExpandVerbs(p)}
  <2>1. ASSUME NEW g
        PROVE  IsFiniteSet(Of(g))
    <3> DEFINE pairs == ExpandResources(p, g) \X ExpandVerbs(p)
               f == [x \in pairs |-> Key(g, x[1], x[2], p.namespace, p.name)]
    <3>1. IsFiniteSet(ExpandResources(p, g))
      BY <1>2, FS_Singleton, FS_EmptySet DEF ExpandResources
    <3>2. IsFiniteSet(ExpandVerbs(p))
      BY <1>1, FS_Singleton DEF ExpandVerbs
    <3>3. IsFiniteSet(pairs)
      BY <3>1, <3>2, FS_Product
    <3>4. f \in Surjection(pairs, Of(g))
      <4>1. \A x \in pairs : f[x] \in Of(g)
        OBVIOUS
      <4>2. \A q \in Of(g) : \E x \in pairs : f[x] = q
        <5> TAKE q \in Of(g)
        <5>1. PICK r \in ExpandResources(p, g), v \in ExpandVerbs(p) : q = Key(g, r, v, p.namespace, p.name)
          OBVIOUS
        <5>2. <<r, v>> \in pairs /\ f[<<r, v>>] = q
          BY <5>1
        <5> QED
          BY <5>2
      <4>3. f = [x \in pairs |-> f[x]]
        OBVIOUS
      <4> HIDE DEF pairs, f, Of
      <4> QED
        BY <4>1, <4>2, <4>3 DEF Surjection
    <3> HIDE DEF pairs, f, Of
    <3> QED
      BY <3>3, <3>4, FS_Surjection
  <2>2. IsFiniteSet(ExpandGroups(p))
    <3>1. ExpandGroups(p) = {p.group} \/ ExpandGroups(p) \subseteq SupportedGroups
      BY DEF ExpandGroups
    <3> QED
      BY <1>1, <3>1, FS_Singleton, FS_Subset
  <2>3. IsFiniteSet({Of(g) : g \in ExpandGroups(p)})
    <3> DEFINE f == [g \in ExpandGroups(p) |-> Of(g)]
    <3> HIDE DEF Of
    <3>1. f \in Surjection(ExpandGroups(p), {Of(g) : g \in ExpandGroups(p)})
      BY DEF Surjection
    <3> QED
      BY <2>2, <3>1, FS_Surjection
  <2>4. IsFiniteSet(UNION {Of(g) : g \in ExpandGroups(p)})
    <3> HIDE DEF Of
    <3> QED
      BY <2>1, <2>3, FS_UNION
  <2> QED
    BY <2>4 DEF ExpandPermission
<1>4. IsFiniteSet({ExpandPermission(p) : p \in granted})
  <2> DEFINE f == [p \in granted |-> ExpandPermission(p)]
  <2>1. f \in Surjection(granted, {ExpandPermission(p) : p \in granted})
    BY DEF Surjection
  <2> QED
    BY <2>1, FS_Surjection
<1> QED
  BY <1>3, <1>4, FS_UNION DEF ExpandPolicy

\* The permissions made for supported calls stand for themselves only.
LEMMA CallsExpandToThemselves ==
    ASSUME NEW granted,
           \A p \in granted : \E e : /\ p = EventPermission(e) /\ IsSupportedEvent(e)
                                    /\ e.group # Wild /\ e.resource # Wild
    PROVE  ExpandPolicy(granted) = granted
<1>1. ASSUME NEW p \in granted
      PROVE  ExpandPermission(p) = {p}
  <2>1. PICK e : /\ p = EventPermission(e) /\ IsSupportedEvent(e)
                 /\ e.group # Wild /\ e.resource # Wild
    OBVIOUS
  <2>2. /\ p = Key(p.group, p.resource, p.verb, p.namespace, p.name)
        /\ p.group = e.group /\ p.resource = e.resource /\ p.verb = e.verb
    BY <2>1 DEF EventPermission, Key
  <2>3. p.verb # Wild
    BY <2>1, <2>2 DEF IsSupportedEvent, SupportedVerbs, Wild
  <2>4. ExpandGroups(p) = {p.group} /\ ExpandResources(p, p.group) = {p.resource} /\ ExpandVerbs(p) = {p.verb}
    BY <2>1, <2>2, <2>3 DEF ExpandGroups, ExpandResources, ExpandVerbs
  <2>5. ExpandPermission(p) = {Key(p.group, p.resource, p.verb, p.namespace, p.name)}
    BY <2>4 DEF ExpandPermission
  <2> QED
    BY <2>2, <2>5
<1> QED
  BY <1>1 DEF ExpandPolicy

\* The score of a policy is a number from 0 to 100.
LEMMA ScoreIsNatural ==
    ASSUME NEW S, IsFiniteSet(S), NEW provenance
    PROVE  Score(S, provenance) \in 0 .. 100
<1> DEFINE w == [p \in S |-> PermissionRisk(p, provenance)]
<1>1. w \in [S -> Nat] /\ \A p \in S : w[p] = PermissionRisk(p, provenance)
  BY RiskIsNatural
<1> HIDE DEF w
<1>2. AreSums(S, w, Sums(S, w))
  BY SumsAreSums
<1>3. Total(S, w) \in Nat
  BY <1>1, <1>2, SumsOfNaturals DEF Total
<1>4. UncappedScore(S, provenance) = Total(S, w)
  BY <1>1, ScoreIsTotal
<1> QED
  BY <1>3, <1>4, CapIsMinimum DEF Score
=============================================================================
