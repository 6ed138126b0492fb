----------------------------- MODULE HttpStream -----------------------------
(***************************************************************************)
(* The streaming HTTP transport of the C ABI (crates/tswift-ffi/src/       *)
(* http.rs).  Per request the interpreter thread and the host's threads    *)
(* share a queue behind a mutex and a condition variable: the host pushes  *)
(* events at any time, next_event blocks until one arrives or the request's*)
(* deadline passes, cancel replaces what is buffered.                      *)
(*                                                                         *)
(* A step is one critical section of the queue's mutex, or what the        *)
(* interpreter does between two of them.                                   *)
(***************************************************************************)
EXTENDS Naturals, Sequences

CONSTANTS
    Task,       \* the requests of a run, each with its token and its queue
    Chunk,      \* body fragments
    MaxPush,    \* how many events the host gets into one queue
    None        \* no request

ASSUME BoundOK == MaxPush \in Nat
ASSUME NoTask == None \notin Task

VARIABLES
    tokens,     \* all_tokens: the requests whose token box is alive
    pending,    \* the requests whose handle is in the pending map
    queue,      \* QueueState.events
    terminal,   \* QueueState.terminal_pushed
    expired,    \* the deadline of the request has passed
    call,       \* the next_event call the interpreter thread is in
    issued,     \* history: the tokens ever handed to the host
    sent,       \* history: what the host got into each queue
    got,        \* history: what next_event returned for each request
    cancelled   \* history: the requests cancel was called for while pending

queueVars == <<queue, terminal>>
vars == <<tokens, pending, queue, terminal, expired, call, issued, sent, got, cancelled>>

HostEvent == {"response", "done", "failed"} \cup Chunk
HostMessage == HostEvent \cup {"malformed"}
Event == HostEvent \cup {"cancelled", "timedOut"}
Terminal == {"done", "failed", "cancelled", "timedOut"}

ASSUME ChunksDiffer == Chunk \cap ({"response"} \cup Terminal) = {}

\* The interpreter thread is outside next_event, asleep on a condition
\* variable, awake again in its wait loop, or past a wait that timed out.
Place == {"idle", "asleep", "woken", "timedOut"}
Idle == [task |-> None, at |-> "idle"]
At(t, place) == [task |-> t, at |-> place]

Init ==
    /\ tokens = {} /\ pending = {} /\ issued = {} /\ cancelled = {}
    /\ queue = [t \in Task |-> <<>>]
    /\ terminal = [t \in Task |-> FALSE]
    /\ expired = [t \in Task |-> FALSE]
    /\ call = Idle
    /\ sent = [t \in Task |-> <<>>]
    /\ got = [t \in Task |-> <<>>]
-----------------------------------------------------------------------------
(* start                                                                   *)

\* The token is registered and the handle is pending before start_fn runs.
Start(t) ==
    /\ call = Idle
    /\ t \notin issued
    /\ issued' = issued \cup {t}
    /\ tokens' = tokens \cup {t}
    /\ pending' = pending \cup {t}
    /\ UNCHANGED <<queueVars, expired, call, sent, got, cancelled>>
-----------------------------------------------------------------------------
(* tswift_http_event, on a thread of the host                              *)

\* Mutant: a message that does not parse is queued as it is.
Undecoded(m) == m

\* A message that does not parse is a failed event.
Decode(m) == IF m = "malformed" THEN "failed" ELSE m

\* Mutant: push_front.
AcceptFirst(t, e) ==
    IF terminal[t] THEN UNCHANGED queueVars
    ELSE /\ queue' = [queue EXCEPT ![t] = <<e>> \o @]
         /\ terminal' = [terminal EXCEPT ![t] = e \in Terminal]

\* Mutant: events after a terminal one are queued as well.
AcceptAlways(t, e) ==
    /\ queue' = [queue EXCEPT ![t] = Append(@, e)]
    /\ terminal' = [terminal EXCEPT ![t] = @ \/ e \in Terminal]

\* TaskQueue::push: a push after a terminal event is a no-op.
Accept(t, e) ==
    IF terminal[t] THEN UNCHANGED queueVars
    ELSE /\ queue' = [queue EXCEPT ![t] = Append(@, e)]
         /\ terminal' = [terminal EXCEPT ![t] = e \in Terminal]

\* Mutant: the push does not notify.
NotifyNobody(t) == UNCHANGED call

\* notify_one, under the lock.
Notify(t) == call' = IF call = At(t, "asleep") THEN At(t, "woken") ELSE call

\* tswift_http_event; MaxPush bounds what the host gets into one queue.
Push(t, m) ==
    /\ t \in tokens
    /\ Len(sent[t]) < MaxPush
    /\ Accept(t, Decode(m))
    /\ IF terminal[t] THEN UNCHANGED <<sent, call>>
       ELSE sent' = [sent EXCEPT ![t] = Append(@, Decode(m))] /\ Notify(t)
    /\ UNCHANGED <<tokens, pending, expired, issued, got, cancelled>>
-----------------------------------------------------------------------------
(* next_event, on the interpreter thread                                   *)

\* The deadline is fixed at start; the clock moves on by itself.
DeadlinePasses(t) ==
    /\ t \in pending
    /\ ~expired[t]
    /\ expired' = [expired EXCEPT ![t] = TRUE]
    /\ UNCHANGED <<tokens, pending, queueVars, call, issued, sent, got, cancelled>>

\* The interpreter holds the lock at the head of wait_timeout_while: it has
\* just called next_event, or its wait has ended.  A handle that is not
\* pending is answered with a failure and changes nothing.
Waiting(t) ==
    \/ call = Idle /\ t \in pending
    \/ call = At(t, "woken")

\* Mutant: the handle is not removed at the terminal event.
PendingKept(t, e) == pending

\* The handle dies with the terminal event.
PendingAfter(t, e) == IF e \in Terminal THEN pending \ {t} ELSE pending

\* An event that is there is returned, whatever the clock says.
Receive(t) ==
    /\ Waiting(t)
    /\ queue[t] # <<>>
    /\ queue' = [queue EXCEPT ![t] = Tail(@)]
    /\ got' = [got EXCEPT ![t] = Append(@, Head(queue[t]))]
    /\ pending' = PendingAfter(t, Head(queue[t]))
    /\ call' = Idle
    /\ UNCHANGED <<tokens, terminal, expired, issued, sent, cancelled>>

Sleep(t) ==
    /\ Waiting(t)
    /\ queue[t] = <<>> /\ ~expired[t]
    /\ call' = At(t, "asleep")
    /\ UNCHANGED <<tokens, pending, queueVars, expired, issued, sent, got, cancelled>>

\* Mutant: the wait has no timeout.
NeverFires(t) ==
    /\ call = At(t, "asleep") /\ queue[t] # <<>>
    /\ call' = At(t, "woken")
    /\ UNCHANGED <<tokens, pending, queueVars, expired, issued, sent, got, cancelled>>

TimerFires(t) ==
    /\ call = At(t, "asleep")
    /\ expired[t]
    /\ call' = At(t, "woken")
    /\ UNCHANGED <<tokens, pending, queueVars, expired, issued, sent, got, cancelled>>

\* A condition variable may wake its waiter for no reason.
SpuriousWake(t) ==
    /\ call = At(t, "asleep")
    /\ ~expired[t]
    /\ call' = At(t, "woken")
    /\ UNCHANGED <<tokens, pending, queueVars, expired, issued, sent, got, cancelled>>

\* Mutant: any wait that ends with an empty queue is a timeout.
QueueEmpty(t) == queue[t] = <<>>

OutOfTime(t) == queue[t] = <<>> /\ expired[t]

\* The wait timed out and the lock is released with nothing to return: from
\* here the host may push once more before the queue is closed.
GiveUp(t) ==
    /\ Waiting(t)
    /\ OutOfTime(t)
    /\ call' = At(t, "timedOut")
    /\ UNCHANGED <<tokens, pending, queueVars, expired, issued, sent, got, cancelled>>

\* The timeout is returned even if the host's terminal event slipped in.
TimeOut(t) ==
    /\ call = At(t, "timedOut")
    /\ Accept(t, "timedOut")
    /\ pending' = pending \ {t}
    /\ got' = [got EXCEPT ![t] = Append(@, "timedOut")]
    /\ call' = Idle
    /\ UNCHANGED <<tokens, expired, issued, sent, cancelled>>
-----------------------------------------------------------------------------
(* cancel, and the end of the run                                          *)

\* TaskQueue::force_cancel: the first terminal event stays, with all that is
\* buffered before it; otherwise a cancelled one replaces the buffer.
ForceCancel(t) ==
    IF terminal[t] THEN UNCHANGED queueVars
    ELSE /\ queue' = [queue EXCEPT ![t] = <<"cancelled">>]
         /\ terminal' = [terminal EXCEPT ![t] = TRUE]

Cancel(t) ==
    /\ call = Idle
    /\ t \in pending
    /\ ForceCancel(t)
    /\ cancelled' = cancelled \cup {t}
    /\ UNCHANGED <<tokens, pending, expired, call, issued, sent, got>>

\* The handler is dropped with the run's interpreter: every token box is
\* freed.  The context, and the host's threads, live on.
EndRun ==
    /\ call = Idle
    /\ tokens' = {}
    /\ pending' = {}
    /\ UNCHANGED <<queueVars, expired, call, issued, sent, got, cancelled>>
-----------------------------------------------------------------------------
NextEvent(t) == Receive(t) \/ Sleep(t) \/ GiveUp(t) \/ TimeOut(t)

Next ==
    \/ \E t \in Task : Start(t) \/ Cancel(t) \/ NextEvent(t)
    \/ \E t \in Task : DeadlinePasses(t) \/ TimerFires(t) \/ SpuriousWake(t)
    \/ \E t \in Task, m \in HostMessage : Push(t, m)
    \/ EndRun

Spec == Init /\ [][Next]_vars

\* A call that has begun runs on, and the clock does too; the host and the
\* program need do nothing.
Fairness ==
    \A t \in Task :
        /\ WF_vars(call # Idle /\ NextEvent(t))
        /\ WF_vars(TimerFires(t))
        /\ WF_vars(DeadlinePasses(t))

LiveSpec == Spec /\ Fairness
-----------------------------------------------------------------------------
(* Properties                                                              *)

\* The type of every variable; in particular only decoded events are queued.
TypeOK ==
    /\ tokens \subseteq Task /\ pending \subseteq Task
    /\ issued \subseteq Task /\ cancelled \subseteq Task
    /\ queue \in [Task -> Seq(Event)]
    /\ terminal \in [Task -> BOOLEAN]
    /\ expired \in [Task -> BOOLEAN]
    /\ call \in [task : Task \cup {None}, at : Place]
    /\ sent \in [Task -> Seq(HostEvent)]
    /\ got \in [Task -> Seq(Event)]

TerminalAt(s, i) == i \in DOMAIN s /\ s[i] \in Terminal

\* terminal_pushed is exact while the handle is pending: a terminal event is
\* the last of the queue, and the queue is closed if and only if one waits
\* in it.  So a poll after cancel, or after the host's last event, finds its
\* terminal event without waiting for the deadline.
TerminalAwaits ==
    \A t \in Task :
        /\ \A i \in DOMAIN queue[t] : queue[t][i] \in Terminal => i = Len(queue[t])
        /\ t \in pending => (terminal[t] <=> TerminalAt(queue[t], Len(queue[t])))

\* next_event returns nothing after a terminal event, and a handle that has
\* returned one is not pending.
NothingAfterTerminal ==
    \A t \in Task : \A i \in DOMAIN got[t] :
        got[t][i] \in Terminal => i = Len(got[t]) /\ t \notin pending

\* What next_event returned is what the host pushed, in order and without a
\* gap, up to a failure this side made up.
EventsInOrder ==
    \A t \in Task : \A i \in DOMAIN got[t] :
        \/ i \in DOMAIN sent[t] /\ got[t][i] = sent[t][i]
        \/ got[t][i] \in {"cancelled", "timedOut"}

\* The interpreter never sleeps on a queue that holds an event.
NoLostWakeup ==
    \A t \in Task : call = At(t, "asleep") => queue[t] = <<>>

\* A timeout is reported only after the request's own deadline, and a
\* cancellation only if the program asked for one.
NoEarlyFailure ==
    \A t \in Task : \A i \in DOMAIN got[t] :
        /\ got[t][i] = "timedOut" => expired[t]
        /\ got[t][i] = "cancelled" => t \in cancelled

\* A next_event call returns, whatever the host does or fails to do.
PollReturns == call # Idle ~> call = Idle
=============================================================================
