---------------------------- MODULE MCEventLoop ----------------------------
(* Model-checking instance of EventLoop. *)
EXTENDS EventLoop

CONSTANTS f1, f2

\* Two descriptors whose events change while epoll may fail; timed events of a
\* program with one descriptor.
FdsOrTimers ==
    {[fds |-> {f1, f2}, timers |-> 0, time |-> 1, ops |-> 2, epollFails |-> FALSE],
     [fds |-> {f1, f2}, timers |-> 0, time |-> 1, ops |-> 1, epollFails |-> TRUE],
     [fds |-> {f1}, timers |-> 3, time |-> 3, ops |-> 0, epollFails |-> FALSE]}
=============================================================================
