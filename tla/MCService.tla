----------------------------- MODULE MCService -----------------------------
(* Model-checking instance of Service. *)
EXTENDS Service

\* Pipe numbers repeat while clients die and processes live on.
Wrap == [conns |-> 3, starts |-> 1, connSpace |-> 1, nrSpace |-> 2,
         faults |-> {}, aborts |-> FALSE]

\* Every number is the same and every call may fail.
Fail == [conns |-> 2, starts |-> 1, connSpace |-> 1, nrSpace |-> 1, aborts |-> TRUE,
         faults |-> {"CreateNamedPipe", "ConnectNamedPipe", "CreateThread",
                     "get_token", "CreateProcess"}]

\* The service is stopped and started again.
Restart == [conns |-> 2, starts |-> 2, connSpace |-> 4, nrSpace |-> 64,
            faults |-> {}, aborts |-> TRUE]

WrapFailRestart == {Wrap, Fail, Restart}
=============================================================================
