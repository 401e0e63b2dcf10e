--------------------------- MODULE MCWorkloadGraph ---------------------------
(***************************************************************************)
(* Four calls that the rules tell apart, and three declared policies.      *)
(***************************************************************************)
EXTENDS WorkloadGraph

GetPodA     == Key("", "pods", "get", "n1", "a")       \* named
ListPods    == Key("", "pods", "list", "n1", "a")      \* a name that is dropped
GetPodB     == Key("", "pods", "get", "n1", "b")
Unsupported == Key("", "pods", "deletecollection", "n1", None)

MCEvents == {GetPodA, GetPodB, ListPods, Unsupported}

MCPolicies ==
    {{Key(Wild, Wild, Wild, None, None)},                   \* cluster-admin
     {Key("", "pods", Wild, "n1", "a")},                    \* every verb on one pod
     {Key("", "pods", "get", "n1", None), Key("", "pods", "list", "n1", None)}}
=============================================================================
