--------------------------- MODULE MCWeatherClient ---------------------------
(***************************************************************************)
(* Values for the runs of WeatherClient.                                   *)
(***************************************************************************)
EXTENDS WeatherClient, TLC

CONSTANTS k1, k2

OneKey == {k1}
TwoKeys == {k1, k2}

\* Keys are interchangeable.
Symmetry == Permutations(TwoKeys)

\* A success and an error, both with a document.
TwoStatuses == {200, 404}
OneStatus == {200}
=============================================================================
