---------------------------- MODULE MCTransport ----------------------------
(* Model-checking instance of Transport. *)
EXTENDS Transport

\* Many asynchronous calls, so that mids wrap around, and all kinds of calls
\* with failures.
WrapOrFail ==
    {[callers |-> {"async"}, requests |-> 6, faults |-> {}],
     [callers |-> {"async", "sync", "trans"}, requests |-> 3, faults |-> {"dead", "bad"}]}
=============================================================================
