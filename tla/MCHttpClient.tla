----------------------------- MODULE MCHttpClient -----------------------------
(***************************************************************************)
(* Values for the runs of HttpClient: a status of each kind.               *)
(***************************************************************************)
EXTENDS HttpClient

\* Not readable, too low, a success, an error that passes for one.
SomeStatuses == {0, 100, 200, 404}
=============================================================================
