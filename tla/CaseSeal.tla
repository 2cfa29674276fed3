------------------------------ MODULE CaseSeal ------------------------------
(***************************************************************************)
(* What a case knows of its seal: whether it has a job in seal_jobs,       *)
(* whether that job has its asset, and whether the case is sealed.         *)
(* SealJob has the claims, the POSTs and the worker of that job,           *)
(* CaseSession the case that asks for it; each implements this             *)
(* specification.                                                          *)
(***************************************************************************)

CONSTANT Torn  \* whether a death may fall between the job's row and the case's

VARIABLES
  job,    \* "open" stands for every status between the creation and the asset
  sealed  \* the case is sealed

Init == job = "none" /\ sealed = FALSE

\* The job is created once and never taken back.
Open == job = "none" /\ job' = "open" /\ UNCHANGED sealed

\* The asset is recorded once, and seals the case unless the process dies in between.
Mint ==
  /\ job = "open" /\ job' = "minted"
  /\ \/ sealed' = TRUE
     \/ Torn /\ UNCHANGED sealed

Next == Open \/ Mint

Spec == Init /\ [][Next]_<<job, sealed>>

=============================================================================
