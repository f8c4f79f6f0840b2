-------------------------- MODULE MCPipelineRunner --------------------------
(* Instances of PipelineRunner for TLC.                                      *)
EXTENDS PipelineRunner, TLC

CONSTANTS t1, t2, p1, p2

\* One task in each of two projects.
OnePerProject == (t1 :> p1) @@ (t2 :> p2)

\* Two tasks of one project.
SameProject == (t1 :> p1) @@ (t2 :> p1)

\* A task of a project and an upload without one.
WithUpload == (t1 :> p1) @@ (t2 :> None)

RequestSymmetry == Permutations(Requests)

\* Tasks of one project are alike.
TaskSymmetry == Permutations(Tasks)
=============================================================================
