----------------------------- MODULE UrlSession -----------------------------
(***************************************************************************)
(* URLSession tasks and the event driver under them (crates/               *)
(* tswift-foundation/src/urlsession.rs).  resume() runs a whole request on *)
(* the caller's stack and calls the program back in the middle of it: the  *)
(* delegate's methods between two events, the completion handler after the *)
(* last.  There the program may do anything: cancel and resume this task   *)
(* or another, answer an old completion handler, cancel its Swift task,    *)
(* trap.  So the state is a stack of requests in progress.                 *)
(*                                                                         *)
(* A step is one event taken from the transport with what the driver does  *)
(* about it, or one thing the program does between two of those.           *)
(***************************************************************************)
EXTENDS Naturals, Sequences

CONSTANTS
    DataTask,    \* tasks made by dataTask(with:completionHandler:)
    AsyncTask,   \* tasks data(from:) and upload(for:from:) make for the delegate
    MaxDepth,    \* how deep the program nests requests
    MaxEvents,   \* how many events of a request come before its last
    MaxBuffered, \* how many events a transport delivers between cancel and the last
    MaxDrain     \* MAX_DRAIN_EVENTS

ASSUME BoundOK ==
    /\ MaxDepth \in Nat /\ MaxEvents \in Nat /\ MaxBuffered \in Nat
    /\ MaxDrain \in Nat \ {0}
ASSUME TasksDiffer == DataTask \cap AsyncTask = {}

VARIABLES
    methods,   \* the delegate methods the session's delegate implements
    state,     \* URLSessionTask.State of each task
    flag,      \* the tasks whose _cancelled is set
    stack,     \* the requests in progress, the innermost last
    slot,      \* response_disposition and its token, of the interpreter
    open,      \* the transport handles that still owe an event
    swift,     \* the enclosing Swift task is cancelled
    trapped,   \* a trap is on its way up the stack
    requests,  \* history: how many requests each task has started
    results    \* history: what each task's completion handler was given

vars == <<methods, state, flag, stack, slot, open, swift, trapped, requests, results>>

Task == DataTask \cup AsyncTask
Method == {"response", "data", "complete"}
State == {"suspended", "running", "canceling", "completed"}
Outcome == {"success", "failed", "bad", "cancelled", "refused", "trapped"}
Disposition == {"allow", "cancel"}

\* One call of resume() or data(from:).  A frame polls the transport, or is
\* inside the delegate method or the completion handler its field at names;
\* alone says that no other response callback began during its own.
NewFrame(t, via) ==
    [task |-> t, via |-> via, at |-> "poll", handle |-> <<t, requests[t] + 1>>,
     seen |-> FALSE, left |-> MaxEvents, heard |-> <<>>, outcome |-> "success",
     token |-> 0, told |-> "none", allow |-> TRUE, alone |-> TRUE]

Top == stack[Len(stack)]
Below == SubSeq(stack, 1, Len(stack) - 1)
At(place) == stack # <<>> /\ Top.at = place

\* The program runs at top level, or in a callback.
InScript == ~trapped /\ ~At("poll")

Init ==
    /\ methods \in SUBSET Method
    /\ state = [t \in Task |-> "suspended"]
    /\ flag = {} /\ open = {}
    /\ stack = <<>>
    /\ slot = [token |-> 0, value |-> "none"]
    /\ swift = FALSE /\ trapped = FALSE
    /\ requests = [t \in Task |-> 0]
    /\ results = [t \in Task |-> <<>>]
-----------------------------------------------------------------------------
(* The end of a request                                                    *)

\* Mutant: the handle is left to itself.
NotDrained(h) == {open}

\* http_cancel, then events are dropped up to the last one, or to the limit:
\* n of them were buffered before the last.
Drained(h) == {IF n < MaxDrain THEN open \ {h} ELSE open : n \in 0..MaxBuffered}

\* Mutant: a failed request leaves the task running.
CompletedOnSuccess(t, outcome) ==
    IF outcome = "success" THEN [state EXCEPT ![t] = "completed"] ELSE state

Completed(t, outcome) == [state EXCEPT ![t] = "completed"]

\* The driver's locals are gone when the completion handler runs.
InHandler(f, outcome) ==
    [f EXCEPT !.at = "handler", !.outcome = outcome, !.left = 0, !.heard = <<>>, !.token = 0]

\* resume() completes the task and calls the completion handler, which also
\* gets the traps of the delegate; data(from:) passes the error on.
Settle(below, f, outcome) ==
    IF f.via = "data"
    THEN /\ stack' = below
         /\ trapped' = (outcome = "trapped")
         /\ UNCHANGED <<state, results>>
    ELSE /\ state' = Completed(f.task, outcome)
         /\ trapped' = FALSE
         /\ IF f.task \in DataTask
            THEN /\ stack' = Append(below, InHandler(f, outcome))
                 /\ results' = [results EXCEPT ![f.task] = Append(@, outcome)]
            ELSE stack' = below /\ UNCHANGED results

\* Calling the delegate method m, in the middle of a request.
Call(f, m) ==
    /\ stack' = Append(Below, [f EXCEPT !.at = m, !.heard = Append(@, m)])
    /\ UNCHANGED <<state, results, trapped>>

\* didCompleteWithError, if the delegate has it, before the result is settled.
Complete(f, outcome) ==
    IF "complete" \in methods
    THEN Call([f EXCEPT !.outcome = outcome], "complete")
    ELSE Settle(Below, f, outcome)

\* Mutant: a cancelled Swift task is not noticed between two events.
PollOn(f) ==
    /\ stack' = Append(Below, [f EXCEPT !.at = "poll"])
    /\ UNCHANGED <<state, results, trapped, open>>

\* An event that was not the last is dealt with: the Swift task's own
\* cancellation is looked at, then the next event is asked for.
Proceed(f) ==
    IF swift
    THEN open' \in Drained(f.handle) /\ Complete(f, "cancelled")
    ELSE PollOn(f)
-----------------------------------------------------------------------------
(* The program                                                             *)

\* Mutant: resume() on a running task starts the request again.
NotCompleted(t) == state[t] # "completed"

Resumable(t) == state[t] \in {"suspended", "canceling"}

\* run_event_driver, from the first look at the Swift task to http_start.
Run(t, via) ==
    IF swift
    THEN /\ Settle(stack, NewFrame(t, via), "cancelled")
         /\ UNCHANGED <<open, requests>>
    ELSE \/ \E outcome \in {"failed", "trapped"} :
               /\ Settle(stack, NewFrame(t, via), outcome)
               /\ UNCHANGED <<open, requests>>
         \/ /\ stack' = Append(stack, NewFrame(t, via))
            /\ open' = open \cup {<<t, requests[t] + 1>>}
            /\ requests' = [requests EXCEPT ![t] = @ + 1]
            /\ state' = IF via = "resume" THEN [state EXCEPT ![t] = "running"] ELSE state
            /\ UNCHANGED <<results, trapped>>

\* The program has no other reference to the task of a data(from:) than the
\* one its delegate is given.
Resume(t) ==
    /\ InScript /\ Len(stack) < MaxDepth
    /\ t \in AsyncTask => requests[t] > 0
    /\ Resumable(t)
    /\ IF t \in flag
       THEN Settle(stack, NewFrame(t, "resume"), "cancelled") /\ UNCHANGED <<open, requests>>
       ELSE Run(t, "resume")
    /\ UNCHANGED <<methods, flag, slot, swift>>

Data(t) ==
    /\ InScript /\ Len(stack) < MaxDepth
    /\ t \in AsyncTask /\ requests[t] = 0
    /\ Run(t, "data")
    /\ UNCHANGED <<methods, flag, slot, swift>>

Cancel(t) ==
    /\ InScript
    /\ t \in AsyncTask => requests[t] > 0
    /\ state[t] \notin {"canceling", "completed"}
    /\ flag' = flag \cup {t}
    /\ state' = [state EXCEPT ![t] = "canceling"]
    /\ UNCHANGED <<methods, stack, slot, open, swift, trapped, requests, results>>

CancelSwift ==
    /\ InScript
    /\ swift' = TRUE
    /\ UNCHANGED <<methods, state, flag, stack, slot, open, trapped, requests, results>>

\* The completion handler of a response callback may be kept and called at
\* any time; only the newest one writes the slot.
Dispose(token, d) ==
    /\ InScript
    /\ slot' = IF token = slot.token THEN [slot EXCEPT !.value = d] ELSE slot
    /\ stack' = [i \in DOMAIN stack |->
                    IF stack[i].token = token /\ stack[i].at = "response"
                    THEN [stack[i] EXCEPT !.told = d] ELSE stack[i]]
    /\ UNCHANGED <<methods, state, flag, open, swift, trapped, requests, results>>
-----------------------------------------------------------------------------
(* The driver: one event                                                   *)

Polling == ~trapped /\ At("poll")

\* Mutant: a new response callback leaves the answer to an older one there.
AnswerKept == [slot EXCEPT !.token = @ + 1]

\* allocate_response_disposition_closure
Allocated == [token |-> slot.token + 1, value |-> "none"]

\* Mutant: a second response is taken like the first.
AnyResponse == TRUE

FirstResponse == ~Top.seen

GetResponse ==
    /\ Polling /\ Top.left > 0
    /\ FirstResponse
    /\ LET f == [Top EXCEPT !.seen = TRUE, !.left = @ - 1] IN
       IF "response" \in methods
       THEN /\ Call([f EXCEPT !.token = slot.token + 1], "response")
            /\ slot' = Allocated
            /\ UNCHANGED open
       ELSE Proceed(f) /\ UNCHANGED slot
    /\ UNCHANGED <<methods, flag, swift, requests>>

GetChunk ==
    /\ Polling /\ Top.left > 0
    /\ Top.seen
    /\ LET f == [Top EXCEPT !.left = @ - 1] IN
       IF "data" \in methods THEN Call(f, "data") /\ UNCHANGED open ELSE Proceed(f)
    /\ UNCHANGED <<methods, flag, slot, swift, requests>>

\* A second response, or a chunk before the first.
GetMalformed ==
    /\ Polling /\ Top.left > 0
    /\ open' \in Drained(Top.handle)
    /\ Settle(Below, Top, "bad")
    /\ UNCHANGED <<methods, flag, slot, swift, requests>>

\* The last event; success without a response is malformed.
GetLast(outcome) ==
    /\ Polling
    /\ open' = open \ {Top.handle}
    /\ IF outcome = "success" /\ ~Top.seen
       THEN Settle(Below, Top, "bad")
       ELSE Complete(Top, outcome)
    /\ UNCHANGED <<methods, flag, slot, swift, requests>>
-----------------------------------------------------------------------------
(* The end of a callback                                                   *)

\* take_response_disposition, and what follows from it.
ResponseReturns ==
    /\ InScript /\ At("response")
    /\ LET f == [Top EXCEPT !.allow = slot.value # "cancel", !.alone = (Top.token = slot.token)] IN
       IF f.allow
       THEN Proceed(f)
       ELSE /\ Complete(f, "refused")
            /\ IF "complete" \in methods THEN UNCHANGED open ELSE open' \in Drained(f.handle)
    /\ slot' = [slot EXCEPT !.value = "none"]
    /\ UNCHANGED <<methods, flag, swift, requests>>

DataReturns ==
    /\ InScript /\ At("data")
    /\ Proceed(Top)
    /\ UNCHANGED <<methods, flag, slot, swift, requests>>

\* A trap in one of these two ends the request.
EventCallbackTraps ==
    /\ At("response") \/ At("data")
    /\ open' \in Drained(Top.handle)
    /\ Settle(Below, Top, "trapped")
    /\ UNCHANGED <<methods, flag, slot, swift, requests>>

\* didCompleteWithError returns or traps, which makes no difference.
CompleteReturns ==
    /\ At("complete")
    /\ IF Top.outcome = "refused" THEN open' \in Drained(Top.handle) ELSE UNCHANGED open
    /\ Settle(Below, Top, Top.outcome)
    /\ UNCHANGED <<methods, flag, slot, swift, requests>>

\* The completion handler returns, or passes a trap on to the caller of
\* resume().
HandlerReturns(trap) ==
    /\ At("handler")
    /\ trapped => trap
    /\ stack' = Below
    /\ trapped' = trap
    /\ UNCHANGED <<methods, state, flag, slot, open, swift, requests, results>>
-----------------------------------------------------------------------------
Program ==
    \/ \E t \in Task : Resume(t) \/ Data(t) \/ Cancel(t)
    \/ CancelSwift
    \/ \E token \in 1..slot.token, d \in Disposition : Dispose(token, d)

Driver ==
    \/ GetResponse \/ GetChunk \/ GetMalformed
    \/ \E outcome \in {"success", "failed"} : GetLast(outcome)

CallbackEnds ==
    \/ ResponseReturns \/ DataReturns \/ EventCallbackTraps \/ CompleteReturns
    \/ \E trap \in BOOLEAN : HandlerReturns(trap)

Next == Program \/ Driver \/ CallbackEnds

Spec == Init /\ [][Next]_vars

\* The driver runs on, the transport delivers a last event, and the program
\* returns from its callbacks.
LiveSpec == Spec /\ WF_vars(Driver) /\ WF_vars(CallbackEnds)
-----------------------------------------------------------------------------
(* Properties                                                              *)

Frames == {stack[i] : i \in DOMAIN stack}

\* The drain-or-cancel invariant of ADR-0011: an open handle belongs to a
\* request in progress, and so none is left when the outermost one is over,
\* however the requests were nested, cancelled or trapped.
HandlesDrained ==
    \A h \in open : \E f \in Frames : f.handle = h /\ f.at # "handler"

\* What a delegate hears of one request: one response callback at most, data
\* only after it, and nothing after didCompleteWithError.
CallbackOrder ==
    \A f \in Frames : \A j \in DOMAIN f.heard :
        /\ \A i \in 1..(j - 1) : f.heard[i] # "complete" /\ f.heard[j] # "response"
        /\ f.heard[j] = "data" /\ "response" \in methods => f.heard[1] = "response"

\* A running task is being driven: no path out of the driver, a trap three
\* requests up included, leaves a task in that state.
RunningIsDriven ==
    \A t \in Task : state[t] = "running" =>
        \E f \in Frames : f.task = t /\ f.via = "resume" /\ f.at # "handler"

\* Once the Swift task is cancelled no request is asked for a further event,
\* except to drain it.
CancelledStopsPolling ==
    At("poll") => ~swift

\* A completion handler is called once, unless its task was cancelled, and
\* never more than twice.
SecondResultNeedsCancel ==
    \A t \in Task : Len(results[t]) <= IF t \in flag THEN 2 ELSE 1

\* The request is refused if and only if the last answer of its own delegate
\* callback was to cancel (urlsession.rs:728), answers to older callbacks that
\* come late notwithstanding: unless a request nested in the callback had a
\* response callback too, since there is one slot.
DispositionHonoured ==
    \A f \in Frames :
        f.seen /\ f.at # "response" /\ f.outcome # "trapped" /\ f.alone => f.allow = (f.told # "cancel")

\* A task whose resume() went as far as the transport completes.
ResumedCompletes ==
    \A t \in DataTask : requests[t] > 0 ~> state[t] = "completed"
=============================================================================
