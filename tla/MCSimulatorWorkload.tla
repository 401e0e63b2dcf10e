------------------------- MODULE MCSimulatorWorkload -------------------------
(***************************************************************************)
(* Every case over the calls and the policies of MCWorkloadGraph, and one  *)
(* call that counts as risky.                                              *)
(***************************************************************************)
EXTENDS Evaluation

MCEvents ==
    {Key("", "pods", "get", "n1", "a"), Key("", "pods", "get", "n1", "b"),
     Key("", "pods", "list", "n1", "a"), Key("", "pods", "deletecollection", "n1", None),
     Key("", "secrets", "delete", "n1", "s")}

MCPolicies ==
    {{Key(Wild, Wild, Wild, None, None)},
     {Key("", "pods", Wild, "n1", "a")},
     {Key("", "pods", "get", "n1", None), Key("", "pods", "list", "n1", None)}}
=============================================================================
