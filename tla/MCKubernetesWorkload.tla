------------------------ MODULE MCKubernetesWorkload ------------------------
(***************************************************************************)
(* Two calls in the sandbox namespace and one across namespaces.  One      *)
(* original policy is cluster-wide and allows all of them; the other has   *)
(* permissions of both scopes and does not allow the last.                 *)
(***************************************************************************)
EXTENDS KubernetesWorkload

MCEvents ==
    {Key("", "pods", "get", "n1", "a"), Key("", "pods", "list", "n1", None),
     Key("", "pods", "list", None, None)}

MCPolicies ==
    {{Key("", "pods", Wild, None, None)},
     {Key("", Wild, "get", None, None), Key("", "pods", "list", "n1", None)}}
=============================================================================
