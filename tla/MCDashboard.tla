---------------------------- MODULE MCDashboard -----------------------------
(* Values for the constants of Dashboard that need an expression. *)
EXTENDS Dashboard

(* One result, then a session that is longer than a snapshot and a load. *)
MCMaxRows == <<1, 3>>
=============================================================================
