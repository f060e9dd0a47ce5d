--------------------------- MODULE MCParentLadder ---------------------------
(***************************************************************************)
(* Instances of ParentLadder.                                              *)
(***************************************************************************)
EXTENDS ParentLadder

\* A heading of its own, a sentence, a sentence with a line before it, and a
\* paragraph that begins with a blank line.
MCPatterns == {<<"title">>, <<"prose">>, <<"title", "long">>, <<"blank", "title", "prose">>}
=============================================================================
