------------------------- MODULE MCIngestDirectory -------------------------
(***************************************************************************)
(* IngestDirectory with a local and an online pipeline.                    *)
(***************************************************************************)
EXTENDS IngestDirectory

MCConfig == [local  |-> [counter |-> "auto", offline |-> FALSE, local |-> TRUE],
             online |-> [counter |-> "auto", offline |-> FALSE, local |-> FALSE]]

\* Entry 1 is a/x and entry 2 is a-y.
MCUriRank == <<2, 1, 3>>
=============================================================================
