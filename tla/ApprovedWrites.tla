--------------------------- MODULE ApprovedWrites ---------------------------
(***************************************************************************)
(* What the job runtime promises about the media library: a job's files    *)
(* are written at most once, ever, after the job was claimed for writing,  *)
(* and the plan written is the last one approved before the claim.         *)
(***************************************************************************)
EXTENDS Naturals

CONSTANTS Jobs, Plans, None

VARIABLES
    approved,   \* the plan approved for each job, or None
    claimed,    \* the jobs whose single execution has been handed out
    written,    \* the plan whose writing began, or None
    writes      \* how many times writing began

vars == <<approved, claimed, written, writes>>

Init ==
    /\ approved = [j \in Jobs |-> None]
    /\ claimed = {}
    /\ written = [j \in Jobs |-> None]
    /\ writes = [j \in Jobs |-> 0]

\* Until the claim an approval may be replaced.
Approve(j, p) ==
    /\ j \notin claimed
    /\ approved' = [approved EXCEPT ![j] = p]
    /\ UNCHANGED <<claimed, written, writes>>

Claim(j) ==
    /\ j \notin claimed
    /\ approved[j] # None
    /\ claimed' = claimed \cup {j}
    /\ UNCHANGED <<approved, written, writes>>

Write(j) ==
    /\ j \in claimed
    /\ writes[j] = 0
    /\ written' = [written EXCEPT ![j] = approved[j]]
    /\ writes' = [writes EXCEPT ![j] = 1]
    /\ UNCHANGED <<approved, claimed>>

Next == \E j \in Jobs : (\E p \in Plans : Approve(j, p)) \/ Claim(j) \/ Write(j)

Spec == Init /\ [][Next]_vars
=============================================================================
