------------------------------ MODULE MCServer ------------------------------
(***************************************************************************)
(* Five parts of the server that share no state, checked in one run: each  *)
(* initial state belongs to one part, and only that part moves.  The       *)
(* others stay in one initial state, so that the parts add up and do not   *)
(* multiply.                                                               *)
(***************************************************************************)
EXTENDS JobEvents, Runs, Settings, JobConfig, Sessions, TLC

CONSTANTS movie, remake, video, info, poster

VARIABLE part

MCOutputs == [t \in Targets |-> IF t = movie THEN <<video, info>> ELSE <<video, poster>>]

\* Jobs that only have events, and clients that put settings, are interchangeable.
Symmetry == Permutations(EventJobs) \cup Permutations(Requests)

\* People are alike: the first tab is always the same one's.
Anyone == CHOOSE p \in People : TRUE

MCInit ==
    /\ part \in {"events", "runs", "settings", "config", "sessions"}
    /\ InitEvents /\ InitRuns /\ InitSettings /\ InitJobConfig /\ InitSessions
    \* one of the targets finds a file of people in its way, the other none; EditOutput has the rest
    /\ files = [p \in Paths |-> IF p = poster THEN Owned ELSE Absent]
    /\ part # "settings" =>
          /\ file = [plain |-> 1, token |-> None, ref |-> FALSE, old |-> None]
          /\ env = [plain |-> None, legacy |-> None, refers |-> FALSE, direct |-> None, named |-> None]
    /\ tab[CHOOSE t \in Tabs : TRUE].person = Anyone
    /\ part # "sessions" => issued = 0 /\ \A t \in Tabs : tab[t].person = Anyone

Only(name, vars) == part = name /\ UNCHANGED <<part, vars>>

MCNext ==
    \/ NextEvents /\ Only("events", <<runVars, settingsVars, jobConfigVars, sessionVars>>)
    \/ NextRuns /\ Only("runs", <<eventVars, settingsVars, jobConfigVars, sessionVars>>)
    \/ NextSettings /\ Only("settings", <<eventVars, runVars, jobConfigVars, sessionVars>>)
    \/ NextJobConfig /\ Only("config", <<eventVars, runVars, settingsVars, sessionVars>>)
    \/ NextSessions /\ Only("sessions", <<eventVars, runVars, settingsVars, jobConfigVars>>)
MCSpec == MCInit /\ [][MCNext]_<<part, eventVars, runVars, settingsVars, jobConfigVars, sessionVars>>
=============================================================================
