------------------------------ MODULE MCSuite ------------------------------
(***************************************************************************)
(* Six scenarios, one of each way to run and both kinds of shared service: *)
(* calls that fill the denial window (A1, A4), one that is dispatched into *)
(* a container of another role (A3), the agent loop (A6), the raw          *)
(* connection (A9) and the cascade (A10), which meets what A6 left behind. *)
(***************************************************************************)
EXTENDS Suite

SharedWorkload == <<"A1", "A3", "A4", "A6", "A9", "A10">>
=============================================================================
