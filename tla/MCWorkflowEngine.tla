-------------------------- MODULE MCWorkflowEngine --------------------------
\* Two requests for the same capsule.
EXTENDS WorkflowEngine, TLC

CONSTANTS r1, r2, c1
MCCapsuleOf == (r1 :> c1) @@ (r2 :> c1)

=============================================================================
