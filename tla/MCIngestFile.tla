---------------------------- MODULE MCIngestFile ----------------------------
(***************************************************************************)
(* IngestFile over small documents: the sizes lie around the settings.     *)
(***************************************************************************)
EXTENDS IngestFile

\* An empty slide, a divider, a slide, one that is too large, one whose title comes
\* after a table, and one that is all table.
MCSlides ==
  {[heading |-> <<>>,    body |-> <<>>,              tables |-> 0],
   [heading |-> <<"t">>, body |-> <<>>,              tables |-> 0],
   [heading |-> <<"t">>, body |-> <<"b">>,           tables |-> 0],
   [heading |-> <<"t">>, body |-> <<"b", "c", "d">>, tables |-> 0],
   [heading |-> <<>>,    body |-> <<"b">>,           tables |-> 1],
   [heading |-> <<>>,    body |-> <<>>,              tables |-> 1]}

\* Words, numbers, a row that is half empty and one that is empty altogether; whole
\* floats are in workbooks only.
MCRowPatterns == {<<"word", "word">>, <<"int", "float">>, <<"blank", "whole float">>, <<"nan", "blank">>}
=============================================================================
