---------------------------- MODULE MCPublishing ----------------------------
(* Instances of Publishing for TLC.                                         *)
EXTENDS Publishing, TLC

CONSTANTS t1, t2, fileA, fileB, r1, r2

\* Every task has a file of its own.
OwnFiles == (t1 :> fileA) @@ (t2 :> fileB)

\* One task, and a second path its publication may be sent to.
OneTask == t1 :> fileA

\* Requests and contents are compared for equality only.
Symmetry == Permutations(Requests) \cup Permutations(Contents)

\* With OwnFiles the two tasks may change places if their files do.
OwnFilesSymmetry == Symmetry \cup {(t1 :> t2) @@ (t2 :> t1) @@ (fileA :> fileB) @@ (fileB :> fileA)}
=============================================================================
