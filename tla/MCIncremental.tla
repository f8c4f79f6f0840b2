---------------------------- MODULE MCIncremental ----------------------------
(* Instances of Incremental for TLC.                                         *)
EXTENDS Incremental

En(w) == Words("en", w)
Code(body) == <<Fence("tick", 3, TRUE)>> \o body \o <<Fence("tick", 3, FALSE)>>

\* Paragraphs are changed, moved, repeated, inserted; a code block has a blank
\* line and a fence of the other kind in it; two texts leave a block open.
Articles == {
    <<En("a"), Blank, En("b")>>,
    <<En("a"), Blank, En("c")>>,
    <<En("b"), Blank, En("a"), Blank, En("c")>>,
    <<En("a"), Blank>> \o Code(<<En("b"), Blank, Fence("tilde", 3, FALSE), En("c")>>),
    <<En("a"), Blank, En("a"), Blank, En("c"), Blank, Fence("tilde", 4, FALSE), Blank, En("b")>>,
    <<En("a"), Blank, Fence("tick", 3, FALSE), En("b")>>}

ShortArticles == {
    <<En("a"), Blank, En("b")>>,
    <<En("a"), Blank, En("c")>>,
    <<En("d"), Blank, En("c")>>}

\* A translator's own paragraphs; they close the blocks they open.
Hand(w) == Words("ru", w)
Corrections == {<<Hand("x"), Blank, Hand("y")>>, <<Hand("x")>>}
=============================================================================
