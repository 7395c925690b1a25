----------------------------- MODULE MCRuntime ------------------------------
(* The scripts come first: TLC evaluates them once then.                    *)
EXTENDS MCScripts, Calls
=============================================================================
