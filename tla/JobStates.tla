----------------------------- MODULE JobStates -----------------------------
(***************************************************************************)
(* The persisted states of a scrape job and the transitions the store      *)
(* accepts (fixer-server, jobs/model.rs and store/sqlite.rs).              *)
(***************************************************************************)

States == {"queued", "scanning", "searching", "resolving", "awaiting",
           "planning", "writing", "completed", "failed", "cancelled",
           "interrupted"}

\* The stages a worker drives; interrupt_active leaves only these.
Working == {"scanning", "searching", "resolving"}

\* ACTIVE_STATES: opening the store turns these into "interrupted".
Active == Working \cup {"planning", "writing"}

Terminal == {"completed", "failed", "cancelled", "interrupted"}

Transitions ==
    [queued      |-> {"scanning", "cancelled"},
     scanning    |-> {"queued", "searching", "failed", "cancelled", "interrupted"},
     searching   |-> {"resolving", "failed", "cancelled", "interrupted"},
     resolving   |-> {"awaiting", "failed", "cancelled", "interrupted"},
     awaiting    |-> {"planning", "failed", "cancelled"},
     planning    |-> {"writing", "failed", "cancelled", "interrupted"},
     writing     |-> {"completed", "failed", "interrupted"},
     completed   |-> {},
     failed      |-> {},
     cancelled   |-> {},
     interrupted |-> {"queued"}]

CanTransition(from, to) == from \in States /\ to \in Transitions[from]
=============================================================================
