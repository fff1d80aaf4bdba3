---------------------------- MODULE MCFunctionReader ----------------------------
(* Instances of FunctionReader: two revisions of one function, the newer one with an attachment. *)
EXTENDS FunctionReader

MCAttached == {k \in Keys : k.revision = 2}
================================================================================
