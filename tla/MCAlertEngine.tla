--------------------------- MODULE MCAlertEngine ---------------------------
(***************************************************************************)
(* Instances of AlertEngine: a fetch event that the job reports, and one   *)
(* that the job and the requests of the webhook both report.               *)
(***************************************************************************)
EXTENDS AlertEngine

MCReports == [p \in Procs |-> IF p = Job THEN Events ELSE Events \ Fetch]
=============================================================================
