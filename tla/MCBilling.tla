----------------------------- MODULE MCBilling -----------------------------
(* One business, two runs of the job at once, periods of two units of time. *)
EXTENDS Billing
=============================================================================
