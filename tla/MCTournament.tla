----------------------------- MODULE MCTournament -----------------------------
(* Two tournaments, two threads; the metrics remember one tournament, so    *)
(* that the second one evicts the first.                                    *)
EXTENDS Tournament
=============================================================================
