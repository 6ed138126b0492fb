--------------------------- MODULE PolledTransport ---------------------------
(***************************************************************************)
(* The transports whose next_event does the waiting itself: the default    *)
(* start, next_event and cancel of the seam, over a one-shot perform       *)
(* (crates/tswift-core/src/http.rs), and NetTransport of the command line  *)
(* (crates/tswift-cli/src/nethttp.rs), which reads the body as it is polled.*)
(*                                                                         *)
(* The interpreter keeps to the callers' side of the seam: it polls and    *)
(* cancels handles that still owe an event.                                *)
(***************************************************************************)
EXTENDS Naturals, Sequences

CONSTANTS
    Task,    \* requests
    Chunk,   \* body fragments
    MaxBody  \* fragments of a streamed body (bounds the model)

\* A fragment is not mistaken for an event of another sort.
ChunksDiffer == Chunk \cap {"response", "done", "failed", "cancelled", "timedOut"} = {}

VARIABLES
    backend, \* "oneShot" or "net"
    pending, \* DEFAULT_PENDING or NetTransport.pending, by handle
    got      \* history: what next_event returned for each request

vars == <<backend, pending, got>>

Terminal == {"done", "failed", "cancelled"}

Put(t, e) == [h \in DOMAIN pending \cup {t} |-> IF h = t THEN e ELSE pending[h]]
Drop(t) == [h \in DOMAIN pending \ {t} |-> pending[h]]
Returns(t, e) == got' = [got EXCEPT ![t] = Append(@, e)]
-----------------------------------------------------------------------------
(* SingleShotEvents: the events that are left                              *)

\* Mutant: the body comes before the status.
BodyFirst ==
    {<<"failed">>, <<"response", "done">>} \cup {<<c, "response", "done">> : c \in Chunk}

\* from_outcome: a failure, or a response with or without a body.
Outcomes ==
    {<<"failed">>, <<"response", "done">>} \cup {<<"response", c, "done">> : c \in Chunk}

\* perform runs here; without a transport there is no handle.
StartOneShot(t) ==
    /\ backend = "oneShot"
    /\ \E events \in Outcomes : pending' = Put(t, events)

\* A terminal event removes the entry.
PollOneShot(t) ==
    /\ backend = "oneShot"
    /\ LET e == Head(pending[t]) IN
          /\ Returns(t, e)
          /\ pending' = IF e \in Terminal THEN Drop(t) ELSE Put(t, Tail(pending[t]))

CancelOneShot(t) ==
    /\ backend = "oneShot"
    /\ pending' = Put(t, <<"cancelled">>)
-----------------------------------------------------------------------------
(* NetTransport: the state of the stream                                   *)

\* The headers are there when start returns; a failed connection is its error.
StartNet(t) ==
    /\ backend = "net"
    /\ pending' = Put(t, "pendingResponse")

PollNet(t) ==
    /\ backend = "net"
    /\ \/ /\ pending[t] = "cancelled"
          /\ Returns(t, "cancelled")
          /\ pending' = Drop(t)
       \/ /\ pending[t] = "pendingResponse"
          /\ Returns(t, "response")
          /\ pending' = Put(t, "reading")
       \* The next bytes, the end of the body, or an I/O error.
       \/ /\ pending[t] = "reading"
          /\ \/ Len(got[t]) <= MaxBody /\ (\E c \in Chunk : Returns(t, c)) /\ UNCHANGED pending
             \/ \E e \in {"done", "failed"} : Returns(t, e) /\ pending' = Drop(t)

CancelNet(t) ==
    /\ backend = "net"
    /\ pending' = Put(t, "cancelled")
-----------------------------------------------------------------------------
Start(t) ==
    /\ t \notin DOMAIN pending /\ got[t] = <<>>
    /\ StartOneShot(t) \/ StartNet(t)
    /\ UNCHANGED <<backend, got>>

Poll(t) ==
    /\ t \in DOMAIN pending
    /\ PollOneShot(t) \/ PollNet(t)
    /\ UNCHANGED backend

Cancel(t) ==
    /\ t \in DOMAIN pending
    /\ CancelOneShot(t) \/ CancelNet(t)
    /\ UNCHANGED <<backend, got>>

Init ==
    /\ backend \in {"oneShot", "net"}
    /\ pending = << >>
    /\ got = [t \in Task |-> <<>>]

Next == \E t \in Task : Start(t) \/ Poll(t) \/ Cancel(t)

Spec == Init /\ [][Next]_vars
-----------------------------------------------------------------------------
\* The handles that owe an event are the entries.
Seam == INSTANCE EventStream WITH open <- DOMAIN pending
=============================================================================
