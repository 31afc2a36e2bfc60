---------------------------- MODULE MCNetemAgent ----------------------------
(* Values for NetemAgent that a configuration file cannot write. *)
EXTENDS NetemAgent

MCWifiNames == <<"wlan0", "wlan1">>
MCLteNames  == <<"wwan0">>

(* An outage, a rate limit without any delay, and no impairment at all. *)
MCSettings ==
    {[outage |-> TRUE,  rate |-> 0, netem |-> 0],
     [outage |-> FALSE, rate |-> 1, netem |-> 0],
     [outage |-> FALSE, rate |-> 0, netem |-> 0]}
=============================================================================
