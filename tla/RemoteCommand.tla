--------------------------- MODULE RemoteCommand ---------------------------
(***************************************************************************)
(* What winexe promises its user: a command on another host behaves like a *)
(* local one.  Its output appears in order and is complete when winexe     *)
(* ends, winexe ends with the command's exit status, an interrupt ends the *)
(* command, and nothing else does.  Only when the connection, the service  *)
(* or winexe itself is lost may the user be told less.                     *)
(***************************************************************************)
EXTENDS Integers, Sequences

CONSTANTS Stream,       \* standard output and standard error
          ExitCode,     \* of a command that ends by itself
          AbortCode     \* of a command that was interrupted

VARIABLES command,  \* "none" (not started), "running", "exited" or "killed"
          output,   \* what the command has written to each stream
          shown,    \* what the user has seen of it
          aborted,  \* the user has interrupted the command
          lost,     \* connection, service or winexe have broken down
          status    \* the exit status of winexe; -1 while it runs

vars == <<command, output, shown, aborted, lost, status>>

RUNNING == -1

Init ==
    /\ command = "none"
    /\ output = [s \in Stream |-> <<>>]
    /\ shown = [s \in Stream |-> <<>>]
    /\ aborted = FALSE
    /\ lost = FALSE
    /\ status = RUNNING

Start ==
    /\ command = "none"
    /\ status = RUNNING \/ lost
    /\ command' = "running"
    /\ UNCHANGED <<output, shown, aborted, lost, status>>

Output(s) ==
    /\ command = "running"
    /\ output' = [output EXCEPT ![s] = Append(@, Len(@) + 1)]
    /\ UNCHANGED <<command, shown, aborted, lost, status>>

Show(s) ==
    /\ status = RUNNING
    /\ Len(shown[s]) < Len(output[s])
    /\ shown' = [shown EXCEPT ![s] = Append(@, output[s][Len(@) + 1])]
    /\ UNCHANGED <<command, output, aborted, lost, status>>

End ==
    /\ command = "running"
    /\ command' = "exited"
    /\ UNCHANGED <<output, shown, aborted, lost, status>>

Abort ==
    /\ status = RUNNING
    /\ ~aborted
    /\ aborted' = TRUE
    /\ UNCHANGED <<command, output, shown, lost, status>>

\* The command does not outlive winexe.
Kill ==
    /\ command = "running"
    /\ aborted \/ lost \/ status # RUNNING
    /\ command' = "killed"
    /\ UNCHANGED <<output, shown, aborted, lost, status>>

\* The exit codes the command can have had; an interrupt may come too late.
Result ==
    CASE command = "exited" -> {ExitCode} \cup (IF aborted THEN {AbortCode} ELSE {})
      [] command = "killed" -> {AbortCode}
      [] OTHER -> {}

\* A command that was never started has no result: 1 or 99.
Finish ==
    /\ status = RUNNING
    /\ \/ command = "none" /\ status' \in {1, 99}
       \/ shown = output /\ status' \in Result
       \/ lost /\ status' \in {1, 99} \cup Result
    /\ UNCHANGED <<command, output, shown, aborted, lost>>

Lose ==
    /\ ~lost
    /\ lost' = TRUE
    /\ status' \in {status} \cup (IF status = RUNNING THEN {1, 99} \cup Result ELSE {})
    /\ UNCHANGED <<command, output, shown, aborted>>

Next ==
    \/ Start \/ End \/ Abort \/ Kill \/ Finish \/ Lose
    \/ \E s \in Stream : Output(s) \/ Show(s)

Spec == Init /\ [][Next]_vars

\* Unless something is lost output is shown, an interrupt ends the command and
\* winexe ends after it.
Fairness ==
    /\ \A s \in Stream : WF_vars(~lost /\ Show(s))
    /\ WF_vars(~lost /\ aborted /\ Kill)
    /\ WF_vars(~lost /\ Finish)

FairSpec == Spec /\ Fairness
=============================================================================
