------------------------------ MODULE BatchLog ------------------------------
(***************************************************************************)
(* What a batch run of the tool promises (spec sections 2 and 6): the     *)
(* simulations happen one after another and each is recorded, and the     *)
(* aggregated report, once written, holds one summary per simulation, in  *)
(* the order they ran. Nothing is simulated after the report is written.  *)
(***************************************************************************)
EXTENDS Sequences

CONSTANT Traces     \* what one simulation can produce

VARIABLES
  log,        \* the simulations so far, in order
  published,  \* the report has been written
  summary     \* the report: one summarised trace per line

absVars == <<log, published, summary>>

Init ==
  /\ log = <<>>
  /\ published = FALSE
  /\ summary = <<>>

\* One more simulation.
Record ==
  /\ ~published
  /\ \E t \in Traces : log' = Append(log, t)
  /\ UNCHANGED <<published, summary>>

\* The report summarises exactly the simulations of the batch.
Publish ==
  /\ ~published
  /\ published' = TRUE
  /\ summary' = log
  /\ UNCHANGED log

Spec == Init /\ [][Record \/ Publish]_absVars

=============================================================================
