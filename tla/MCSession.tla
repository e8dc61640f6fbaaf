----------------------------- MODULE MCSession -----------------------------
(* Model-checking instances of WinexeSession. *)
EXTENDS WinexeSession

NoSetup == <<>>
SetSystem == <<"set">>

\* Nothing fails; an outdated service is replaced once.
Normal == {[faults |-> {}, conns |-> 2, out |-> 3]}

\* The user interrupts the command, or everything else goes wrong while an
\* outdated service is replaced, or replacing it takes two attempts.
AbortOrFail ==
    {[faults |-> {"signal"}, conns |-> 1, out |-> 1],
     [faults |-> {"disconnect", "service", "windows", "timeout"}, conns |-> 2, out |-> 0],
     [faults |-> {"windows"}, conns |-> 3, out |-> 0]}

\* The user interrupts the command while an outdated service is replaced.
AbortReplacing == {[faults |-> {"signal"}, conns |-> 2, out |-> 0]}
=============================================================================
