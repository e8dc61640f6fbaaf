----------------------------- MODULE EventLoop -----------------------------
(***************************************************************************)
(* The event loop lib/events/events_standard.c: fd events, dispatched by   *)
(* epoll or, once an epoll call has failed, by select, and timed events.   *)
(* Handlers may change, free and add any event, their own included, and    *)
(* run the loop again.  The files behind the descriptors become readable   *)
(* or fail at any time and can always be written to.                       *)
(***************************************************************************)
EXTENDS Integers, Sequences, SequencesExt, FiniteSets, FiniteSetsExt

CONSTANTS Descriptor,   \* file descriptors
          MaxTimers,    \* bound: timed events of a behaviour
          MaxTime,      \* bound: the clock
          MaxDepth,     \* bound: loops that run inside each other
          MaxOps,       \* bound: changes of fd events
          Scenarios     \* what a behaviour may have of these, see Scenario

\* One environment for a whole behaviour: the descriptors the program has, the
\* timed events and changes of fd events it makes, how long it runs, and
\* whether epoll calls may fail.
Scenario == [fds : SUBSET Descriptor, timers : 0 .. MaxTimers, time : 1 .. MaxTime,
             ops : 0 .. MaxOps, epollFails : BOOLEAN]

ASSUME DescriptorAssumption == IsFiniteSet(Descriptor)
ASSUME BoundsAssumption == {MaxTimers, MaxTime, MaxDepth, MaxOps} \subseteq Nat
ASSUME ScenariosAssumption == Scenarios \subseteq Scenario

VARIABLES env,     \* the scenario
          ev,      \* struct std_event_context
          fde,     \* the fd_event of each descriptor, see std_event_add_fd
          epoll,   \* kernel: the interest registered for each descriptor
          file,    \* kernel: what each descriptor is ready for
          now,     \* the clock
          te,      \* the timed events: at, st
          stack    \* the invocations of std_event_loop_once, innermost last

vars == <<env, ev, fde, epoll, file, now, te, stack>>

Fd == env.fds
Flags == {"read", "write"}
Listed(f) == f \in Range(ev.fd_events)

View == [ev |-> ev, fde |-> fde, epoll |-> epoll]
Become(x) == ev' = x.ev /\ fde' = x.fde /\ epoll' = x.epoll

-----------------------------------------------------------------------------
(***************************************************************************)
(* The epoll interest of an fd_event; views as results, since a call may   *)
(* fail and make the context fall back to select.                          *)
(***************************************************************************)
NoInterest == [f \in Fd |-> {}]

epoll_fallback_to_select(x) ==
    [ev |-> [x.ev EXCEPT !.epoll_fd = FALSE], fde |-> x.fde, epoll |-> NoInterest]

epoll_ctl(x, f) ==
    {[x EXCEPT !.epoll[f] = x.fde[f].flags]} \cup
    {y \in {epoll_fallback_to_select(x)} : env.epollFails}

Report(x, f) == [x EXCEPT !.fde[f].report_error = "read" \in x.fde[f].flags]

epoll_add_event(x, f) ==
    IF ~x.ev.epoll_fd THEN {x}
    ELSE IF x.fde[f].flags = {} THEN {[x EXCEPT !.fde[f].report_error = FALSE]}
    ELSE {[Report(y, f) EXCEPT !.fde[f].has_event = TRUE] : y \in epoll_ctl(x, f)}

\* Mutant: the kernel keeps the interest.
epoll_del_event_leaks(x, f) ==
    IF ~x.ev.epoll_fd THEN x
    ELSE [x EXCEPT !.fde[f].report_error = FALSE, !.fde[f].has_event = FALSE]

epoll_del_event(x, f) ==
    IF ~x.ev.epoll_fd THEN x
    ELSE [x EXCEPT !.fde[f].report_error = FALSE, !.fde[f].has_event = FALSE,
                   !.epoll[f] = IF x.fde[f].has_event THEN {} ELSE x.epoll[f]]

epoll_mod_event(x, f) == {Report(y, f) : y \in epoll_ctl(x, f)}

\* Mutant: nothing is wanted any more of a descriptor that had an error.
Wanted_no_error(x, f) == x.fde[f].flags # {} /\ ~x.fde[f].got_error

Wanted(x, f) ==
    "read" \in x.fde[f].flags \/ ("write" \in x.fde[f].flags /\ ~x.fde[f].got_error)

epoll_change_event(x, f) ==
    LET y == [x EXCEPT !.fde[f].report_error = FALSE]
    IN  IF ~x.ev.epoll_fd THEN {x}
        ELSE IF y.fde[f].has_event
        THEN IF Wanted(y, f) THEN epoll_mod_event(y, f) ELSE {epoll_del_event(y, f)}
        ELSE IF Wanted(y, f) THEN epoll_add_event(y, f) ELSE {y}

-----------------------------------------------------------------------------
(***************************************************************************)
(* What a handler may do.  A frame of the stack has the destruction_count  *)
(* it started with, the events it has still to report, and what it is      *)
(* running: an fd event, a timed event or nothing.                         *)
(***************************************************************************)
Nothing == <<"nothing">>
Top == Last(stack)
InHandler == stack # <<>> /\ Top.run # Nothing

Operation == InHandler /\ ev.ops < env.ops /\ UNCHANGED <<file, now, te, stack>>

Counted(x) == [x EXCEPT !.ev.ops = x.ev.ops + 1]

std_event_set_fd_flags(f) ==
    /\ Operation
    /\ Listed(f)
    /\ \E flags \in SUBSET Flags :
          /\ flags # fde[f].flags
          /\ \E x \in epoll_change_event([View EXCEPT !.fde[f].flags = flags], f) :
                Become(Counted(x))

\* Mutant: running loops are not told.
std_event_fd_destructor_uncounted(f) ==
    /\ Operation
    /\ Listed(f)
    /\ Become(Counted(epoll_del_event(
          [View EXCEPT !.ev.fd_events = RemoveFirst(ev.fd_events, f)], f)))

std_event_fd_destructor(f) ==
    /\ Operation
    /\ Listed(f)
    /\ Become(Counted(epoll_del_event(
          [View EXCEPT !.ev = [ev EXCEPT !.fd_events = RemoveFirst(ev.fd_events, f),
                                         !.destruction_count = ev.destruction_count + 1]], f)))

\* gen tells the fd_events of a descriptor apart (history).
std_event_add_fd(f) ==
    /\ Operation
    /\ ~Listed(f)
    /\ \E flags \in SUBSET Flags :
          LET new == [gen |-> fde[f].gen + 1, flags |-> flags, has_event |-> FALSE,
                      report_error |-> FALSE, got_error |-> FALSE]
              x == [ev |-> [ev EXCEPT !.fd_events = <<f>> \o ev.fd_events],
                    fde |-> [fde EXCEPT ![f] = new], epoll |-> epoll]
          IN  \E y \in epoll_add_event(x, f) : Become(Counted(y))

\* Mutant: the newest of several events for the same time comes first.
Before_latest(at, k) == te[k].at # 0 /\ at <= te[k].at

\* The place of a new event is in front of the first such event.
Before(at, k) == te[k].at # 0 /\ at < te[k].at

\* timeval_zero, or some time from now.
std_event_add_timed ==
    /\ InHandler
    /\ Len(te) < env.timers
    /\ \E at \in {0} \cup now + 1 .. env.time :
          LET later == {i \in DOMAIN ev.timed_events : Before(at, ev.timed_events[i])}
              i == IF later = {} THEN Len(ev.timed_events) + 1 ELSE Min(later)
          IN  /\ ev' = [ev EXCEPT !.timed_events = InsertAt(ev.timed_events, i, Len(te) + 1)]
              /\ te' = Append(te, [at |-> at, st |-> "pending"])
    /\ UNCHANGED <<fde, epoll, file, now, stack>>

\* A running event refuses (std_event_timed_deny_destructor).
std_event_timed_destructor(k) ==
    /\ InHandler
    /\ te[k].st = "pending"
    /\ te' = [te EXCEPT ![k].st = "freed"]
    /\ ev' = [ev EXCEPT !.timed_events = RemoveFirst(ev.timed_events, k)]
    /\ UNCHANGED <<fde, epoll, file, now, stack>>

-----------------------------------------------------------------------------
\* std_event_loop_wait, or a handler that waits for something.
CanLoop ==
    \/ stack = <<>> /\ ev.fd_events # <<>>
    \/ InHandler /\ Len(stack) < MaxDepth

\* Mutant: only the outermost loop looks at the timers.
TimerDue_outermost ==
    stack = <<>> /\ ev.timed_events # <<>> /\ te[Head(ev.timed_events)].at <= now

TimerDue == ev.timed_events # <<>> /\ te[Head(ev.timed_events)].at <= now

frame(todo, run) == [count |-> ev.destruction_count, todo |-> todo, run |-> run]

\* Mutant: the event is removed from the list after its handler.
std_event_loop_timer_listed ==
    /\ CanLoop
    /\ TimerDue
    /\ LET k == Head(ev.timed_events)
       IN  /\ te' = [te EXCEPT ![k].st = "running"]
           /\ stack' = Append(stack, frame(<<>>, <<"timer", k>>))
    /\ UNCHANGED <<ev, fde, epoll, file, now>>

std_event_loop_timer ==
    /\ CanLoop
    /\ TimerDue
    /\ LET k == Head(ev.timed_events)
       IN  /\ te' = [te EXCEPT ![k].st = "running"]
           /\ ev' = [ev EXCEPT !.timed_events = Tail(ev.timed_events)]
           /\ stack' = Append(stack, frame(<<>>, <<"timer", k>>))
    /\ UNCHANGED <<fde, epoll, file, now>>

event(f, what) == [fd |-> f, gen |-> fde[f].gen, what |-> what]

\* epoll_wait, in any order; errors are reported without being asked for.
epoll_event_loop ==
    /\ CanLoop /\ ~TimerDue
    /\ ev.epoll_fd
    /\ LET what(f) == IF epoll[f] = {} THEN {} ELSE file[f] \cap (epoll[f] \cup {"error"})
           ready == {f \in Fd : what(f) # {}}
       IN  /\ ready # {}
           /\ \E order \in SetToSeqs(ready) :
                 stack' = Append(stack, frame([i \in DOMAIN order |->
                                                  event(order[i], what(order[i]))], Nothing))
    /\ UNCHANGED <<ev, fde, epoll, file, now, te>>

epoll_wait_fails ==
    /\ env.epollFails
    /\ CanLoop /\ ~TimerDue
    /\ ev.epoll_fd
    /\ Become(epoll_fallback_to_select(View))
    /\ UNCHANGED <<file, now, te, stack>>

\* The order of the list.
Ascending(order) ==
    \A i, j \in DOMAIN order : i < j =>
        \E k, l \in DOMAIN ev.fd_events :
            k < l /\ ev.fd_events[k] = order[i] /\ ev.fd_events[l] = order[j]

\* select, in the order of the list; a failed descriptor is readable and
\* writable.
std_event_loop_select ==
    /\ CanLoop /\ ~TimerDue
    /\ ~ev.epoll_fd
    /\ LET what(f) == IF "error" \in file[f] THEN fde[f].flags ELSE fde[f].flags \cap file[f]
           ready == {f \in Range(ev.fd_events) : what(f) # {}}
       IN  /\ ready # {}
           /\ \E order \in SetToSeqs(ready) :
                 /\ Ascending(order)
                 /\ stack' = Append(stack, frame([i \in DOMAIN order |->
                                                     event(order[i], what(order[i]))], Nothing))
    /\ UNCHANGED <<ev, fde, epoll, file, now, te>>

Dispatching == stack # <<>> /\ Top.run = Nothing

\* The innermost loop goes on.
GoOn(todo, run) ==
    [stack EXCEPT ![Len(stack)] = [count |-> Top.count, todo |-> todo, run |-> run]]

\* An error that is not to be reported ends the interest instead.
epoll_error ==
    /\ Dispatching
    /\ LET e == Head(Top.todo)
           x == [View EXCEPT !.fde[e.fd].got_error = TRUE]
       IN  /\ "error" \in e.what
           /\ ~fde[e.fd].report_error
           /\ Become(epoll_del_event(x, e.fd))
           /\ stack' = IF Len(Top.todo) = 1 THEN Front(stack)
                       ELSE GoOn(Tail(Top.todo), Nothing)
    /\ UNCHANGED <<file, now, te>>

call_handler ==
    /\ Dispatching
    /\ LET e == Head(Top.todo)
       IN  /\ "error" \in e.what => fde[e.fd].report_error
           /\ fde' = IF "error" \in e.what
                     THEN [fde EXCEPT ![e.fd].got_error = TRUE] ELSE fde
           /\ stack' = GoOn(Tail(Top.todo), <<"fd", e.fd>>)
    /\ UNCHANGED <<ev, epoll, file, now, te>>

\* The handler of a descriptor may have read what there was.  The rest of the
\* round is given up if an fd event was destroyed meanwhile.
handler_returns ==
    /\ InHandler
    /\ LET fd == IF Top.run[1] = "fd" THEN {Top.run[2]} ELSE {}
           left == IF Top.count # ev.destruction_count THEN <<>> ELSE Top.todo
       IN  /\ \E read \in SUBSET fd :
                 file' = [f \in Fd |-> IF f \in read THEN file[f] \ {"read"} ELSE file[f]]
           /\ stack' = IF left = <<>> THEN Front(stack) ELSE GoOn(left, Nothing)
           /\ te' = IF fd = {} THEN [te EXCEPT ![Top.run[2]].st = "done"] ELSE te
    /\ UNCHANGED <<ev, fde, epoll, now>>

-----------------------------------------------------------------------------
\* The world outside.
Tick == now < env.time /\ now' = now + 1 /\ UNCHANGED <<ev, fde, epoll, file, te, stack>>

FileReady(f) ==
    /\ \E what \in {"read", "error"} \ file[f] : file' = [file EXCEPT ![f] = @ \cup {what}]
    /\ UNCHANGED <<ev, fde, epoll, now, te, stack>>

-----------------------------------------------------------------------------
\* A program starts the loop with its descriptors registered for reading, in
\* some order (one stands for all, the descriptors are alike).
Init ==
    /\ env \in Scenarios
    /\ ev = [fd_events |-> SetToSeq(Fd), timed_events |-> <<>>, destruction_count |-> 0,
             epoll_fd |-> TRUE, ops |-> 0]
    /\ fde = [f \in Fd |-> [gen |-> 1, flags |-> {"read"}, has_event |-> TRUE,
                            report_error |-> TRUE, got_error |-> FALSE]]
    /\ epoll = [f \in Fd |-> {"read"}]
    /\ file = [f \in Fd |-> {"write"}]
    /\ now = 1
    /\ te = <<>>
    /\ stack = <<>>

Handler ==
    \/ \E f \in Fd :
          std_event_set_fd_flags(f) \/ std_event_fd_destructor(f) \/ std_event_add_fd(f)
    \/ std_event_add_timed
    \/ \E k \in DOMAIN te : std_event_timed_destructor(k)

std_event_loop_once ==
    \/ std_event_loop_timer \/ epoll_event_loop \/ epoll_wait_fails
    \/ std_event_loop_select \/ epoll_error \/ call_handler

Next ==
    /\ \/ Handler \/ handler_returns \/ std_event_loop_once
       \/ Tick \/ \E f \in Fd : FileReady(f)
    /\ UNCHANGED env

Spec == Init /\ [][Next]_vars

\* The program runs the loop, handlers return, time passes.
Fairness ==
    /\ WF_vars(std_event_loop_once /\ UNCHANGED env)
    /\ WF_vars(handler_returns /\ UNCHANGED env)
    /\ WF_vars(Tick /\ UNCHANGED env)

FairSpec == Spec /\ Fairness

-----------------------------------------------------------------------------
\* The types, and that the list holds the pending timed events, each once.
TypeOK ==
    /\ env \in Scenarios
    /\ ev \in [fd_events : Seq(Fd), timed_events : Seq(DOMAIN te),
               destruction_count : Nat, epoll_fd : BOOLEAN, ops : 0 .. env.ops]
    /\ fde \in [Fd -> [gen : Nat, flags : SUBSET Flags, has_event : BOOLEAN,
                       report_error : BOOLEAN, got_error : BOOLEAN]]
    /\ epoll \in [Fd -> SUBSET Flags]
    /\ file \in [Fd -> SUBSET (Flags \cup {"error"})]
    /\ now \in 1 .. env.time
    /\ te \in Seq([at : 0 .. env.time, st : {"pending", "running", "done", "freed"}])
    /\ IsInjective(ev.timed_events)
    /\ Range(ev.timed_events) = {k \in DOMAIN te : te[k].st = "pending"}
    /\ stack \in Seq([count : Nat, todo : Seq([fd : Fd, gen : Nat, what : SUBSET (Flags \cup {"error"})]),
                      run : {Nothing} \cup ({"fd"} \X Fd) \cup ({"timer"} \X DOMAIN te)])

\* "the code that is calling the event handler needs to assume that the linked
\* list is no longer valid": no handler is called for an fd_event that a
\* handler, of this loop or of one running inside it, has freed or replaced.
NoFreedEvent ==
    Dispatching =>
        LET e == Head(Top.todo) IN Listed(e.fd) /\ fde[e.fd].gen = e.gen

\* epoll does what select would: the kernel watches exactly the flags of the
\* live events, except for a failed descriptor that is only written to; an
\* error is reported if and only if reading is wanted.
InterestMatchesFlags ==
    ev.epoll_fd =>
        \A f \in Fd :
            IF Listed(f) /\ ("read" \in fde[f].flags \/ ~fde[f].got_error)
            THEN /\ epoll[f] = fde[f].flags
                 /\ fde[f].report_error <=> "read" \in fde[f].flags
            ELSE epoll[f] = {}

Pending(k) == k \in DOMAIN te /\ te[k].st = "pending"
Started(k) == Pending(k) /\ te'[k].st = "running"

InTurn(k) ==
    /\ te[k].at <= now
    /\ \A j \in DOMAIN te : te[j].st = "pending" =>
          te[k].at < te[j].at \/ (te[k].at = te[j].at /\ k <= j)

TimerStep ==
    \A k \in DOMAIN te :
        /\ Started(k) => InTurn(k)
        /\ te[k].st # "pending" => te'[k].st \in {te[k].st, "done"}

\* Timed events run in the order of their times, those for the same time in
\* the order they were added, never early, never twice, also when handlers
\* run the loop again.
TimersInOrder == [][TimerStep]_vars

ToBeRead(f) ==
    /\ f \in Fd /\ Listed(f)
    /\ "read" \in fde[f].flags /\ file[f] \cap {"read", "error"} # {}

\* A descriptor that is to be read and stays ready, or has failed, gets its
\* handler called, whatever other events do.
ReadyIsHandled ==
    \A f \in Descriptor :
        ToBeRead(f) ~> (\E i \in DOMAIN stack : stack[i].run = <<"fd", f>>) \/ ~ToBeRead(f)

\* Every timed event runs, unless it is freed or the loop ends, also while a
\* handler waits in a loop of its own.
TimersFire ==
    \A k \in 1 .. MaxTimers : Pending(k) ~> ~Pending(k) \/ ev.fd_events = <<>>
=============================================================================
