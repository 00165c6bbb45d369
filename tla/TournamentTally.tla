--------------------------- MODULE TournamentTally ---------------------------
(***************************************************************************)
(* What the tournament metrics promise a dashboard: a tournament is either *)
(* in flight or counted, never both; it is counted when it ends, and not   *)
(* again while it is remembered.  How many are remembered is left open.    *)
(***************************************************************************)
EXTENDS Integers

CONSTANTS Ids, Modes, Outcomes
VARIABLES inFlight, counted, runs

NoRuns == [mode \in Modes |-> [outcome \in Outcomes |-> 0]]
Init == inFlight = {} /\ counted = {} /\ runs = NoRuns

Enter(t) == t \notin counted /\ inFlight' = inFlight \cup {t} /\ UNCHANGED <<counted, runs>>

Count(t, mode, outcome) ==
    /\ t \notin counted
    /\ inFlight' = inFlight \ {t}
    /\ \E remembered \in SUBSET counted : counted' = remembered \cup {t}
    /\ runs' = [runs EXCEPT ![mode][outcome] = @ + 1]

\* The metrics live in the process.
Restart == inFlight' = {} /\ counted' = {} /\ runs' = NoRuns

Next ==
    \/ \E t \in Ids : Enter(t) \/ \E mode \in Modes, outcome \in Outcomes : Count(t, mode, outcome)
    \/ Restart

Spec == Init /\ [][Next]_<<inFlight, counted, runs>>
=============================================================================
