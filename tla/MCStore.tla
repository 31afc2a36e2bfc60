------------------------------ MODULE MCStore -------------------------------
(* Values for the constants of Store that need an expression. *)
EXTENDS Store, TLC

(* Two sessions that may or may not agree on the mode, and two states of the
   agent: on WiFi, or on LTE with its queue full. *)
MCReports ==
    {r \in [mode : Modes, session : Sessions, link : Links, emulation : Emulations,
            enqueued : {0}, full : BOOLEAN] : r.full <=> r.link = "lte"}

(* The sent counters are independent of the rest; Delivery exercises them. *)
MCCounts == {Zero}

(* Packets are interchangeable. *)
PacketSymmetry == Permutations(Packets)
=============================================================================
