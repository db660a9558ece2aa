---------------------------- MODULE MCHWorkFlow -----------------------------
(* Model-checking instance of HWorkFlow: two or three tasks, one or two      *)
(* workers.  The cfg files choose which modes and policies are in use.       *)
EXTENDS HWorkFlow

CONSTANTS a, b, c

AllModes     == {"ABORT", "INTERRUPT", "SUSPEND", "CLOSE"}
AllPolicies  == {"LAZY", "EAGER"}
SubjectOfTwo == {{a, b}}
=============================================================================
