----------------------------- MODULE MCReingest -----------------------------
(***************************************************************************)
(* Small instances of Reingest: two documents, one of which comes, goes    *)
(* and changes.                                                            *)
(***************************************************************************)
EXTENDS Reingest

CONSTANTS a, b, old, new, public, internal

MCTree(atA, atB) == [p \in Paths |-> IF p = a THEN atA ELSE atB]
MCTrees == {MCTree(old, old), MCTree(new, Absent), MCTree(Absent, Absent)}
MCReleases == {[version |-> 1, trust |-> public], [version |-> 2, trust |-> internal]}
=============================================================================
