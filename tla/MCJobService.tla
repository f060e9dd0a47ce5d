---------------------------- MODULE MCJobService ----------------------------
(***************************************************************************)
(* Small instances of JobService: the pipeline's outcomes, the fault       *)
(* budgets and the symmetry the configurations choose from.                *)
(***************************************************************************)
EXTENDS JobServiceInv, TLC

Done    == [status |-> "done", chunks |-> TRUE]
Partial == [status |-> "partial", chunks |-> FALSE]

MCOutcomes == {Done, Partial, Failure}
OneOutcome == {Done}

Faults(db, pool, redelivery) ==
  [k \in FaultKinds |-> CASE k = "db"   -> db
                          [] k = "pool" -> pool
                          [] OTHER      -> redelivery]
NoFaults        == Faults(0, 0, 0)
OneErrorOneKill == Faults(1, 1, 0)
OneError        == Faults(1, 0, 0)
OneKill         == Faults(0, 1, 0)
OneRedelivery   == Faults(0, 0, 1)

\* Files and workers are interchangeable: no action or invariant names one.
FileSymmetry == Permutations(Files) \cup Permutations(Workers)
=============================================================================
