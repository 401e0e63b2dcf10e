--------------------------- MODULE MCSandboxCommand ---------------------------
(***************************************************************************)
(* Two reference services: one whose profile makes several calls, and the  *)
(* one with the rare workflow.  A record of the first may be late.         *)
(***************************************************************************)
EXTENDS SandboxCommand

MCServices == {"payment-service", "worker-service"}

MCEvents == UNION {DeclaredCalls(s) : s \in MCServices}

MCPolicies == {ReferencePolicy(s) : s \in MCServices}

MCLag == [s \in MCServices |-> IF s = "payment-service" THEN 1 ELSE 0]
=============================================================================
