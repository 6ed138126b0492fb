----------------------------- MODULE EventStream -----------------------------
(***************************************************************************)
(* What the HTTP transport seam promises the interpreter about a request   *)
(* in flight (HttpEvent and HttpTransport, crates/tswift-core/src/http.rs):*)
(* one response first, then body chunks, then one terminal event, after    *)
(* which the handle is dead.  Nothing about queues, threads or deadlines.  *)
(***************************************************************************)
EXTENDS Sequences

CONSTANTS
    Task,     \* requests
    Chunk     \* body fragments

VARIABLES
    open,     \* the handles that still owe an event
    got       \* the events next_event has returned for each request

vars == <<open, got>>

Failure == {"failed", "cancelled", "timedOut"}
Terminal == {"done"} \cup Failure
Event == {"response"} \cup Chunk \cup Terminal

\* The events the contract allows after those already returned.
Allowed(seen) ==
    IF seen = <<>> THEN {"response"} \cup Failure ELSE Chunk \cup Terminal

Init ==
    /\ open = {}
    /\ got = [t \in Task |-> <<>>]

Start(t) ==
    /\ t \notin open /\ got[t] = <<>>
    /\ open' = open \cup {t}
    /\ UNCHANGED got

Next(t, e) ==
    /\ t \in open
    /\ e \in Allowed(got[t])
    /\ got' = [got EXCEPT ![t] = Append(@, e)]
    /\ open' = IF e \in Terminal THEN open \ {t} ELSE open

\* The transport is dropped with the run it served.
Drop ==
    /\ open' = {}
    /\ UNCHANGED got

Step ==
    \/ \E t \in Task : Start(t)
    \/ \E t \in Task, e \in Event : Next(t, e)
    \/ Drop

Spec == Init /\ [][Step]_vars
=============================================================================
