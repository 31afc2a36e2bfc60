----------------------------- MODULE MCDelivery -----------------------------
(* Values for the constants of Store and Delivery that need an expression. *)
EXTENDS Delivery

(* Only the initial, meaningless status is taken from this set: the reports
   are those the Pi makes. *)
MCReports ==
    {[mode |-> InitialMode, session |-> 0, link |-> None,
      emulation |-> CHOOSE e \in Emulations : TRUE,
      enqueued |-> 0, full |-> FALSE]}
MCCounts == {}
=============================================================================
