----------------------------- MODULE MCSession -----------------------------
(* A small instance of Session: two layers of three experts. *)
EXTENDS Session

MCFused == <<<<0, 1>>, <<0, 2>>, <<1, 1>>>>

Pick(a, b) == [l \in Layers |-> IF l = 0 THEN a ELSE b]
MCRoutings == {Pick({0, 1}, {0, 2}), Pick({1, 2}, {0, 1, 2})}
=============================================================================
