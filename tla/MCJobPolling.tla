---------------------------- MODULE MCJobPolling ----------------------------
(***************************************************************************)
(* Small instances of JobPolling: the files make one chunk and two, so     *)
(* that a page of two may be too long, just filled or too short.           *)
(***************************************************************************)
EXTENDS JobPolling

MCOutcomes   == {[status |-> "done", chunks |-> TRUE], [status |-> "partial", chunks |-> FALSE]}
NoFaults     == [k \in FaultKinds |-> 0]
MCFileOrder  == SetToSeq(Files)
MCFileChunks == [f \in Files |-> IF f = MCFileOrder[1] THEN 2 ELSE 1]
=============================================================================
