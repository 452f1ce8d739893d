------------------------------ MODULE MCMainLoop ------------------------------
(* The main loop of a box with a few of its timers at a time.              *)
EXTENDS MainLoop

Basic == {"send_stp", "process_eth_beacon"}
With(ts, cs, n) == [used |-> Basic \cup ts, commands |-> cs, typed |-> n]

Few == {With({"lockable_timeout"}, {"i", "t"}, 1),
        With({"noncloud_message"}, {}, 0),
        With({"ping_neighbors"}, {}, 0),
        With({"wifi_scan"}, {"i"}, 1),
        With({"print_cloud", "disable_print_cloud"}, {"d"}, 2)}
Waits == {2}
=============================================================================
