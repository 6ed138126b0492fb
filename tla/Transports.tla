----------------------------- MODULE Transports -----------------------------
(***************************************************************************)
(* The transport a run of the interpreter is given: the host's, of the C   *)
(* ABI, or one that waits in its own next_event.  The interpreter sees the *)
(* same handles and events of each.                                        *)
(***************************************************************************)
EXTENDS HttpStream

CONSTANT MaxBody   \* fragments of a body streamed by the command line (bounds the model)

VARIABLES
    backend,   \* the transport of this run
    entries,   \* what a transport that is polled holds, by handle
    answers,   \* what its next_event has returned
    orderly    \* history: the host's events have kept to the order of the seam

Polled == INSTANCE PolledTransport WITH pending <- entries, got <- answers
PolledVars == <<entries, answers>>
RunVars == <<vars, backend, PolledVars, orderly>>

\* What a host that keeps to the order sends after what it has sent.
InOrder(before) ==
    CASE before = <<>> -> {"response", "failed"}
      [] before # <<>> /\ before[Len(before)] \in Terminal -> {}
      [] OTHER -> Chunk \cup {"done", "failed"}

KeepsOrder ==
    \A t \in Task : sent'[t] # sent[t] => sent'[t][Len(sent'[t])] \in InOrder(sent[t])

RunInit ==
    /\ Init
    /\ backend \in {"host", "oneShot", "net"}
    /\ entries = << >>
    /\ answers = [t \in Task |-> <<>>]
    /\ orderly = TRUE

RunNext ==
    \/ backend = "host" /\ Next /\ orderly' = (orderly /\ KeepsOrder) /\ UNCHANGED <<backend, PolledVars>>
    \/ backend # "host" /\ Polled!Next /\ UNCHANGED <<vars, orderly>>

RunSpec == RunInit /\ [][RunNext]_RunVars /\ Fairness
-----------------------------------------------------------------------------
\* The seam's contract, with the handles and the events of each transport.
Seam == INSTANCE EventStream
            WITH open <- IF backend = "host" THEN pending ELSE DOMAIN entries,
                 got <- IF backend = "host" THEN got ELSE answers

\* Every step of a transport is one the seam allows, whatever happens on its
\* host's threads, as long as the host's events come in order.
ImplementsSeam ==
    Seam!Init /\ [][orderly' => [Seam!Step]_(Seam!vars)]_RunVars
=============================================================================
