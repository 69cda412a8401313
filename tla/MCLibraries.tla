----------------------------- MODULE MCLibraries -----------------------------
(***************************************************************************)
(* The classes of Libraries for TLC: values of their constants.            *)
(***************************************************************************)
EXTENDS Libraries

\* One event at once, the other after a millisecond.
MCDelay == [e \in Events |-> IF e = "now" THEN 0 ELSE 1]

MCRepeats  == {-1, 0, 2}
MCPriority == [t \in Tasks |-> IF t = "now" THEN 2 ELSE 1]
MCMasks    == {{"in"}, {"in", "out"}}

\* A slot with two functions on one signal, a slot with two signals, a signal with two slots.
MCWiring == {<<"s1", "o1", "f">>, <<"s1", "o1", "g">>, <<"s2", "o1", "f">>, <<"s1", "o2", "f">>}

\* Each command of its own, one with words it does not take, one that is not in the table,
\* and a blank line.
Resets  == {"hot_stop", "warm_stop", "cold_stop", "hot_start", "warm_start", "cold_start",
            "hot_reset", "warm_reset", "cold_reset"}
MCLines == {<<name>> : name \in Resets}
           \cup {<<"backup">>, <<"clear_backup">>, <<"hardware_reset">>,
                 <<"hot_start", "now">>, <<"reboot">>, <<>>}
=============================================================================
