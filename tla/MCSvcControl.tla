---------------------------- MODULE MCSvcControl ----------------------------
(* Model-checking instances of SvcControl. *)
EXTENDS SvcControl

CONSTANTS c1, c2

Uninstalling ==
    {o \in Options : o.uninstall /\ o.interactive # "deny" /\
                     ~(o.reinstall /\ o.interactive = "allow")}
Installing == {o \in Options : ~o.uninstall /\ o.interactive = "ignore"}
Desktop == {o \in Options : ~o.reinstall /\ ~o.uninstall /\ o.interactive = "allow"}

\* One client with any options on a host in any state; the service may fail to
\* start.
Lone == [clients |-> {c1}, options |-> Options,
         files |-> Complete \cup {"none", "partial"},
         promptExit |-> TRUE, faults |-> {"start"}]

\* Two clients that install the service, use it and remove it.
Two == [clients |-> {c1, c2}, options |-> Uninstalling, files |-> {"none", "compat"},
        promptExit |-> TRUE, faults |-> {}]

\* Two clients that install the service while everything may fail.
Failing == [clients |-> {c1, c2}, options |-> Installing, files |-> {"none", "compat"},
            promptExit |-> FALSE, faults |-> {"call", "crash", "start"}]

LoneTwoFailing == {Lone, Two, Failing}

\* One client with --interactive, and nothing fails.
AllowDesktop == {[clients |-> {c1}, options |-> Desktop, files |-> {"new"},
                  promptExit |-> TRUE, faults |-> {}]}
=============================================================================
