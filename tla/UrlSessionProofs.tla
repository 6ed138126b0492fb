--------------------------- MODULE UrlSessionProofs ---------------------------
(* What the driver of URLSession requests promises a program, for any tasks, *)
(* any nesting of requests in callbacks, and any cancels, answers and traps. *)
EXTENDS UrlSession, SequenceTheorems, TLAPS

Frame ==
    [task : Task, via : {"resume", "data"}, at : {"poll", "handler"} \cup Method,
     handle : Task \X Nat, seen : BOOLEAN, left : Nat, heard : Seq(Method), outcome : Outcome,
     token : Nat, told : Disposition \cup {"none"}, allow : BOOLEAN, alone : BOOLEAN]

TypeInv ==
    /\ methods \subseteq Method
    /\ state \in [Task -> State]
    /\ flag \subseteq Task
    /\ stack \in Seq(Frame)
    /\ slot \in [token : Nat, value : Disposition \cup {"none"}]
    /\ requests \in [Task -> Nat]
    /\ results \in [Task -> Seq(Outcome)]
    /\ trapped \in BOOLEAN
-----------------------------------------------------------------------------
(* The stack of requests                                                   *)

\* What is left when the innermost request is gone.
LEMMA BelowIs ==
    ASSUME stack \in Seq(Frame), stack # <<>>
    PROVE  /\ Below \in Seq(Frame)
           /\ Len(Below) = Len(stack) - 1
           /\ \A i \in 1..Len(Below) : Below[i] = stack[i]
           /\ Len(stack) \in Nat \ {0} /\ Top = stack[Len(stack)] /\ Top \in Frame
<1> DEFINE n == Len(stack) - 1
<1>1. /\ Len(stack) \in Nat \ {0} /\ n \in Nat /\ n <= Len(stack)
      /\ 1 \in Int /\ n \in Int /\ \A i \in 1..n : stack[i] \in Frame
  OBVIOUS
<1>2. Top = stack[Len(stack)] /\ Top \in Frame
  BY DEF Top
<1> HIDE DEF n
<1>3. Len(SubSeq(stack, 1, n)) = n /\ \A i \in 1..n : SubSeq(stack, 1, n)[i] = stack[i]
  BY <1>1
<1>4. SubSeq(stack, 1, n) \in Seq(Frame)
  BY <1>1, SubSeqProperties, ZenonT(20)
<1>5. Below = SubSeq(stack, 1, n)
  BY DEF Below, n
<1>6. Below \in Seq(Frame) /\ Len(Below) = n /\ \A i \in 1..n : Below[i] = stack[i]
  BY <1>3, <1>4, <1>5, Zenon
<1> QED BY <1>1, <1>2, <1>6 DEF n

\* A request that starts or moves on is the last of the stack.
LEMMA Appended ==
    ASSUME NEW s \in Seq(Frame), NEW f \in Frame
    PROVE  /\ Append(s, f) \in Seq(Frame) /\ Append(s, f) # <<>>
           /\ Len(Append(s, f)) = Len(s) + 1
           /\ Append(s, f)[Len(s) + 1] = f
           /\ \A i \in 1..Len(s) : Append(s, f)[i] = s[i]
           /\ DOMAIN Append(s, f) = 1..(Len(s) + 1) /\ DOMAIN s = 1..Len(s) /\ Len(s) \in Nat
OBVIOUS
-----------------------------------------------------------------------------
(* What a step does to the innermost request                               *)

SameRequest(f, g) == f.task = g.task /\ f.via = g.via /\ f.handle = g.handle

\* It moves on, in the driver or in a callback.
Moves(f) ==
    /\ stack # <<>> /\ Top.at # "handler"
    /\ f \in Frame /\ f.at # "handler" /\ SameRequest(f, Top)
    /\ f.at = "poll" => ~swift
    /\ stack' = Append(Below, f)
    /\ UNCHANGED <<state, results, trapped>>

\* It is over with an outcome.
Ends(f, outcome) ==
    /\ stack # <<>> /\ Top.at # "handler"
    /\ f \in Frame /\ f.at # "handler" /\ SameRequest(f, Top)
    /\ outcome \in Outcome
    /\ Settle(Below, f, outcome)

MovesOrEnds == \E f \in Frame : Moves(f) \/ \E outcome \in Outcome : Ends(f, outcome)

RequestSteps ==
    \/ GetResponse \/ GetChunk \/ GetMalformed \/ GetLast("success") \/ GetLast("failed")
    \/ ResponseReturns \/ DataReturns \/ EventCallbackTraps \/ CompleteReturns

\* The frame a step starts from, with what the step wrote to it first.
Current(f) ==
    stack # <<>> /\ f \in Frame /\ Top.at # "handler" /\ f.at = Top.at /\ SameRequest(f, Top)

LEMMA CallMoves ==
    ASSUME TypeInv, NEW f \in Frame, Current(f), NEW m \in Method, Call(f, m)
    PROVE  Moves([f EXCEPT !.at = m, !.heard = Append(@, m)])
<1> DEFINE g == [f EXCEPT !.at = m, !.heard = Append(@, m)]
<1>1. Append(f.heard, m) \in Seq(Method)
  BY DEF Frame
<1>2. m # "handler" /\ m # "poll"
  BY DEF Method
<1>3. g \in Frame
  BY <1>1 DEF Frame
<1>4. g.at # "handler" /\ g.at # "poll" /\ SameRequest(g, Top)
  BY <1>2 DEF Current, Frame, SameRequest
<1> QED BY <1>3, <1>4 DEF Moves, Call, Current

LEMMA PollOnMoves ==
    ASSUME TypeInv, NEW f \in Frame, Current(f), PollOn(f), ~swift
    PROVE  Moves([f EXCEPT !.at = "poll"])
<1> DEFINE g == [f EXCEPT !.at = "poll"]
<1>1. g \in Frame /\ g.at # "handler" /\ SameRequest(g, Top)
  BY DEF Frame, Current, SameRequest
<1> QED BY <1>1 DEF Moves, PollOn, Current

LEMMA CompleteMovesOrEnds ==
    ASSUME TypeInv, NEW f \in Frame, Current(f), NEW outcome \in Outcome, Complete(f, outcome)
    PROVE  MovesOrEnds
<1>1. CASE "complete" \in methods
  <2> DEFINE g == [f EXCEPT !.outcome = outcome]
  <2>1. g \in Frame /\ Current(g)
    BY DEF Frame, Current, SameRequest
  <2>2. Call(g, "complete")
    BY <1>1 DEF Complete
  <2> QED BY <2>1, <2>2, CallMoves DEF MovesOrEnds, Method, Moves
<1>2. CASE "complete" \notin methods
  BY <1>2 DEF Complete, MovesOrEnds, Ends, Current
<1> QED BY <1>1, <1>2

LEMMA ProceedMovesOrEnds ==
    ASSUME TypeInv, NEW f \in Frame, Current(f), Proceed(f)
    PROVE  MovesOrEnds
<1>1. CASE swift
  BY <1>1, CompleteMovesOrEnds DEF Proceed, Outcome
<1>2. CASE ~swift
  BY <1>2, PollOnMoves DEF Proceed, MovesOrEnds, Moves
<1> QED BY <1>1, <1>2

\* The frame of a request that is not in its completion handler.
LEMMA TopIsCurrent ==
    ASSUME TypeInv, NEW place \in {"poll", "response", "data", "complete"}, At(place)
    PROVE  Top \in Frame /\ Current(Top) /\ stack # <<>> /\ Top.at = place
BY BelowIs DEF TypeInv, At, Current, SameRequest

\* What a step writes to the frame before it calls the delegate or looks at
\* the Swift task: the response is there, a callback has its token, a chunk is
\* there, the callback's answer is taken.
Responded == [Top EXCEPT !.seen = TRUE, !.left = @ - 1]
Asking == [Responded EXCEPT !.token = slot.token + 1]
Delivered == [Top EXCEPT !.left = @ - 1]
Decided == [Top EXCEPT !.allow = slot.value # "cancel", !.alone = (Top.token = slot.token)]

LEMMA GetResponseIs ==
    ASSUME TypeInv, GetResponse
    PROVE  /\ Top \in Frame /\ Current(Top) /\ Top.at = "poll" /\ ~Top.seen
           /\ Responded \in Frame /\ Current(Responded)
           /\ Asking \in Frame /\ Current(Asking)
           /\ \/ /\ "response" \in methods /\ Call(Asking, "response")
                 /\ slot' = Allocated /\ open' = open
              \/ "response" \notin methods /\ Proceed(Responded) /\ slot' = slot
<1>1. Top \in Frame /\ Current(Top) /\ Top.left > 0 /\ Top.at = "poll"
  BY TopIsCurrent DEF GetResponse, Polling
<1>2. Responded \in Frame /\ Current(Responded)
  <2>1. Top.left - 1 \in Nat
    BY <1>1 DEF Frame
  <2>2. Responded \in Frame
    BY <1>1, <2>1 DEF Frame, Responded
  <2> QED BY <1>1, <2>2 DEF Frame, Responded, Current, SameRequest
<1>3. Asking \in Frame /\ Current(Asking)
  <2>1. slot.token + 1 \in Nat
    BY DEF TypeInv
  <2>2. Asking \in Frame
    BY <1>2, <2>1 DEF Frame, Asking
  <2> QED BY <1>2, <2>2 DEF Frame, Asking, Current, SameRequest
<1>4. ~Top.seen
  BY DEF GetResponse, FirstResponse
<1>5. \/ /\ "response" \in methods /\ Call(Asking, "response")
         /\ slot' = Allocated /\ open' = open
      \/ "response" \notin methods /\ Proceed(Responded) /\ slot' = slot
  BY DEF GetResponse, Responded, Asking
<1> QED BY <1>1, <1>2, <1>3, <1>4, <1>5

LEMMA GetChunkIs ==
    ASSUME TypeInv, GetChunk
    PROVE  /\ Top \in Frame /\ Current(Top) /\ Top.at = "poll" /\ Top.seen
           /\ Delivered \in Frame /\ Current(Delivered) /\ slot' = slot
           /\ \/ Call(Delivered, "data") /\ open' = open
              \/ Proceed(Delivered)
<1>1. Top \in Frame /\ Current(Top) /\ Top.left > 0 /\ Top.at = "poll"
  BY TopIsCurrent DEF GetChunk, Polling
<1>2. Delivered \in Frame /\ Current(Delivered)
  BY <1>1 DEF Frame, Delivered, Current, SameRequest
<1> QED BY <1>1, <1>2 DEF GetChunk, Delivered

LEMMA ResponseReturnsIs ==
    ASSUME TypeInv, ResponseReturns
    PROVE  /\ Top \in Frame /\ Current(Top) /\ Top.at = "response"
           /\ Decided \in Frame /\ Current(Decided)
           /\ slot' = [slot EXCEPT !.value = "none"]
           /\ \/ Proceed(Decided)
              \/ /\ Complete(Decided, "refused")
                 /\ IF "complete" \in methods THEN UNCHANGED open
                    ELSE open' \in Drained(Decided.handle)
<1>1. Top \in Frame /\ Current(Top) /\ Top.at = "response"
  BY TopIsCurrent DEF ResponseReturns
<1>2. Decided \in Frame /\ Current(Decided)
  BY <1>1 DEF Frame, Decided, Current, SameRequest
<1> QED BY <1>1, <1>2 DEF ResponseReturns, Decided

\* Whatever the transport delivers and whichever callback ends, the innermost
\* request moves on or is over.
LEMMA RequestStepIs ==
    ASSUME TypeInv, RequestSteps
    PROVE  MovesOrEnds /\ UNCHANGED <<methods, flag, swift, requests>>
<1> USE DEF Outcome
<1>1. CASE GetResponse
  BY <1>1, GetResponseIs, CallMoves, ProceedMovesOrEnds DEF GetResponse, MovesOrEnds, Moves, Method
<1>2. CASE GetChunk
  BY <1>2, GetChunkIs, CallMoves, ProceedMovesOrEnds DEF GetChunk, MovesOrEnds, Moves, Method
<1>3. CASE GetMalformed
  BY <1>3, TopIsCurrent DEF GetMalformed, Polling, MovesOrEnds, Ends, Current
<1>4. ASSUME NEW outcome \in {"success", "failed"}, GetLast(outcome)
      PROVE  MovesOrEnds /\ UNCHANGED <<methods, flag, swift, requests>>
  <2>1. Top \in Frame /\ Current(Top)
    BY <1>4, TopIsCurrent DEF GetLast, Polling
  <2>2. CASE outcome = "success" /\ ~Top.seen
    BY <1>4, <2>1, <2>2 DEF GetLast, MovesOrEnds, Ends, Current
  <2>3. CASE ~(outcome = "success" /\ ~Top.seen)
    BY <1>4, <2>1, <2>3, CompleteMovesOrEnds DEF GetLast
  <2> QED BY <1>4, <2>2, <2>3 DEF GetLast
<1>5. CASE ResponseReturns
  BY <1>5, ResponseReturnsIs, ProceedMovesOrEnds, CompleteMovesOrEnds DEF ResponseReturns
<1>6. CASE DataReturns
  BY <1>6, TopIsCurrent, ProceedMovesOrEnds DEF DataReturns
<1>7. CASE EventCallbackTraps
  BY <1>7, TopIsCurrent DEF EventCallbackTraps, MovesOrEnds, Ends, Current
<1>8. CASE CompleteReturns
  <2>1. Top \in Frame /\ Current(Top) /\ Top.outcome \in Outcome
    BY <1>8, TopIsCurrent DEF CompleteReturns, Frame
  <2> QED BY <1>8, <2>1 DEF CompleteReturns, MovesOrEnds, Ends, Current
<1> QED BY <1>1, <1>2, <1>3, <1>4, <1>5, <1>6, <1>7, <1>8 DEF RequestSteps
-----------------------------------------------------------------------------
(* A request begins                                                        *)

\* On the transport, above whatever callback it was made in.
Starts(t, via) ==
    /\ ~swift
    /\ via = "resume" => t \notin flag
    /\ stack' = Append(stack, NewFrame(t, via))
    /\ open' = open \cup {<<t, requests[t] + 1>>}
    /\ requests' = [requests EXCEPT ![t] = @ + 1]
    /\ state' = IF via = "resume" THEN [state EXCEPT ![t] = "running"] ELSE state
    /\ UNCHANGED <<results, trapped>>

\* Or it is over before the transport knows of it.
Refused(t, via) ==
    /\ \E outcome \in Outcome : Settle(stack, NewFrame(t, via), outcome)
    /\ UNCHANGED <<open, requests>>

Requested(t, via) ==
    /\ InScript
    /\ via = "resume" => Resumable(t)
    /\ via = "data" => t \in AsyncTask
    /\ Starts(t, via) \/ Refused(t, via)
    /\ UNCHANGED <<methods, flag, slot, swift>>

LEMMA RequestBegins ==
    ASSUME NEW t \in Task, Resume(t) \/ Data(t)
    PROVE  \E via \in {"resume", "data"} : Requested(t, via)
<1>1. CASE Resume(t)
  <2>1. Starts(t, "resume") \/ Refused(t, "resume")
    BY <1>1 DEF Resume, Run, Starts, Refused, Outcome
  <2> QED BY <1>1, <2>1 DEF Resume, Requested
<1>2. CASE Data(t)
  <2>1. Starts(t, "data") \/ Refused(t, "data")
    BY <1>2 DEF Data, Run, Starts, Refused, Outcome
  <2> QED BY <1>2, <2>1 DEF Data, Requested
<1> QED BY <1>1, <1>2

\* The events a new request has before its last are as many as MaxEvents says.
LEMMA NewFrameTyped ==
    ASSUME TypeInv, BoundOK, NEW t \in Task, NEW via \in {"resume", "data"}
    PROVE  /\ NewFrame(t, via) \in Frame
           /\ NewFrame(t, via).at = "poll" /\ NewFrame(t, via).handle = <<t, requests[t] + 1>>
           /\ NewFrame(t, via).task = t /\ NewFrame(t, via).via = via
<1>1. requests[t] + 1 \in Nat /\ << >> \in Seq(Method)
  BY DEF TypeInv
<1> QED BY <1>1 DEF NewFrame, Frame, BoundOK, Outcome

LEMMA InHandlerTyped ==
    ASSUME NEW f \in Frame, NEW outcome \in Outcome
    PROVE  InHandler(f, outcome) \in Frame /\ InHandler(f, outcome).at = "handler"
<1>1. << >> \in Seq(Method)
  OBVIOUS
<1> QED BY <1>1 DEF InHandler, Frame

\* The task of a settled resume() is completed, and a completion handler gets
\* one result, in the frame where it runs.
LEMMA SettleIs ==
    ASSUME TypeInv, NEW below \in Seq(Frame), NEW f \in Frame, NEW outcome \in Outcome,
           Settle(below, f, outcome)
    PROVE  /\ \/ stack' = below
              \/ /\ stack' = Append(below, InHandler(f, outcome))
                 /\ InHandler(f, outcome) \in Frame /\ InHandler(f, outcome).at = "handler"
           /\ stack' \in Seq(Frame) /\ trapped' \in BOOLEAN
           /\ state' = IF f.via = "resume" THEN [state EXCEPT ![f.task] = "completed"] ELSE state
           /\ results' = IF f.via = "resume" /\ f.task \in DataTask
                         THEN [results EXCEPT ![f.task] = Append(@, outcome)] ELSE results
           /\ state' \in [Task -> State] /\ results' \in [Task -> Seq(Outcome)]
<1>1. f.task \in Task /\ f.via \in {"resume", "data"}
  BY DEF Frame
<1>2. InHandler(f, outcome) \in Frame /\ InHandler(f, outcome).at = "handler"
  BY InHandlerTyped
<1>3. CASE f.via = "data"
  BY <1>3 DEF Settle, TypeInv
<1>4. CASE f.via = "resume"
  <2>1. state' = [state EXCEPT ![f.task] = "completed"] /\ state' \in [Task -> State]
    BY <1>1, <1>4 DEF Settle, Completed, TypeInv, State
  <2>2. trapped' = FALSE
    BY <1>4 DEF Settle
  <2>3. CASE f.task \in DataTask
    <3>1. /\ stack' = Append(below, InHandler(f, outcome))
          /\ results' = [results EXCEPT ![f.task] = Append(@, outcome)]
      BY <1>4, <2>3 DEF Settle
    <3>2. Append(results[f.task], outcome) \in Seq(Outcome)
      BY <1>1 DEF TypeInv
    <3>3. results' \in [Task -> Seq(Outcome)]
      BY <3>1, <3>2 DEF TypeInv
    <3>4. stack' \in Seq(Frame)
      BY <1>2, <3>1, Appended
    <3> QED BY <1>2, <1>4, <2>1, <2>2, <2>3, <3>1, <3>3, <3>4
  <2>4. CASE f.task \notin DataTask
    <3>1. stack' = below /\ results' = results
      BY <1>4, <2>4 DEF Settle
    <3> QED BY <1>4, <2>1, <2>2, <2>4, <3>1 DEF TypeInv
  <2> QED BY <2>3, <2>4
<1> QED BY <1>1, <1>3, <1>4

\* A late answer writes the frame whose callback it answers.
LEMMA DisposeIs ==
    ASSUME TypeInv, NEW token, NEW d \in Disposition, Dispose(token, d)
    PROVE  /\ stack' \in Seq(Frame) /\ Len(stack') = Len(stack)
           /\ DOMAIN stack' = DOMAIN stack /\ DOMAIN stack = 1..Len(stack)
           /\ \A i \in DOMAIN stack :
                 stack'[i] = IF stack[i].token = token /\ stack[i].at = "response"
                             THEN [stack[i] EXCEPT !.told = d] ELSE stack[i]
<1> DEFINE g(i) == IF stack[i].token = token /\ stack[i].at = "response"
                   THEN [stack[i] EXCEPT !.told = d] ELSE stack[i]
<1>1. stack' = [i \in DOMAIN stack |-> g(i)]
  BY DEF Dispose
<1>2. DOMAIN stack = 1..Len(stack) /\ Len(stack) \in Nat
  BY DEF TypeInv
<1>3. ASSUME NEW i \in DOMAIN stack PROVE g(i) \in Frame
  <2>1. stack[i] \in Frame
    BY <1>3 DEF TypeInv
  <2> QED BY <2>1 DEF Frame
<1> HIDE DEF g
<1>4. stack' \in [1..Len(stack) -> Frame]
  BY <1>1, <1>2, <1>3
<1>5. stack' \in Seq(Frame)
  BY <1>2, <1>4, SeqDef
<1>6. Len(stack') = Len(stack)
  BY <1>2, <1>4, <1>5, LenProperties
<1> QED BY <1>1, <1>2, <1>5, <1>6 DEF g

\* What a step can be.
LEMMA NextIs ==
    ASSUME Next
    PROVE  \/ \E t \in Task, via \in {"resume", "data"} : Requested(t, via)
           \/ \E t \in Task : Cancel(t)
           \/ CancelSwift
           \/ \E token \in 1..slot.token, d \in Disposition : Dispose(token, d)
           \/ RequestSteps
           \/ \E trap \in BOOLEAN : HandlerReturns(trap)
BY RequestBegins DEF Next, Program, Driver, CallbackEnds, RequestSteps
-----------------------------------------------------------------------------
(* Types                                                                   *)

LEMMA TypeStep == BoundOK /\ TypeInv /\ [Next]_vars => TypeInv'
<1> SUFFICES ASSUME BoundOK, TypeInv, [Next]_vars PROVE TypeInv'
  OBVIOUS
<1>1. ASSUME NEW t \in Task, NEW via \in {"resume", "data"}, Requested(t, via)
      PROVE  TypeInv'
  <2>1. CASE Starts(t, via)
    <3>1. stack' \in Seq(Frame)
      BY <2>1, NewFrameTyped, Appended DEF Starts, TypeInv
    <3>2. requests' \in [Task -> Nat] /\ state' \in [Task -> State]
      BY <2>1 DEF Starts, TypeInv, State
    <3> QED BY <1>1, <2>1, <3>1, <3>2 DEF Starts, Requested, TypeInv
  <2>2. CASE Refused(t, via)
    <3>1. PICK outcome \in Outcome : Settle(stack, NewFrame(t, via), outcome)
      BY <2>2 DEF Refused
    <3>2. /\ stack' \in Seq(Frame) /\ trapped' \in BOOLEAN
          /\ state' \in [Task -> State] /\ results' \in [Task -> Seq(Outcome)]
      BY <3>1, NewFrameTyped, SettleIs DEF TypeInv
    <3> QED BY <1>1, <2>2, <3>2 DEF Requested, Refused, TypeInv
  <2> QED BY <1>1, <2>1, <2>2 DEF Requested
<1>2. ASSUME NEW t \in Task, Cancel(t) PROVE TypeInv'
  BY <1>2 DEF Cancel, TypeInv, State
<1>3. CASE CancelSwift
  BY <1>3 DEF CancelSwift, TypeInv
<1>4. ASSUME NEW token \in 1..slot.token, NEW d \in Disposition, Dispose(token, d)
      PROVE  TypeInv'
  <2>1. stack' \in Seq(Frame)
    BY <1>4, DisposeIs
  <2>2. slot' \in [token : Nat, value : Disposition \cup {"none"}]
    BY <1>4 DEF Dispose, TypeInv
  <2> QED BY <1>4, <2>1, <2>2 DEF Dispose, TypeInv
<1>5. CASE RequestSteps
  <2>1. MovesOrEnds /\ UNCHANGED <<methods, flag, swift, requests>>
    BY <1>5, RequestStepIs
  <2>2. slot' \in {slot, Allocated, [slot EXCEPT !.value = "none"]}
    BY <1>5 DEF RequestSteps, GetResponse, GetChunk, GetMalformed, GetLast, ResponseReturns,
                DataReturns, EventCallbackTraps, CompleteReturns
  <2>3. slot' \in [token : Nat, value : Disposition \cup {"none"}]
    BY <2>2 DEF Allocated, TypeInv
  <2>4. /\ stack' \in Seq(Frame) /\ trapped' \in BOOLEAN
        /\ state' \in [Task -> State] /\ results' \in [Task -> Seq(Outcome)]
    <3>1. ASSUME NEW f \in Frame, Moves(f) PROVE <2>4
      BY <3>1, BelowIs, Appended DEF Moves, TypeInv
    <3>2. ASSUME NEW f \in Frame, NEW outcome \in Outcome, Ends(f, outcome) PROVE <2>4
      <4>1. Below \in Seq(Frame) /\ Settle(Below, f, outcome)
        BY <3>2, BelowIs DEF Ends, TypeInv
      <4> QED BY <4>1, SettleIs
    <3> QED BY <2>1, <3>1, <3>2 DEF MovesOrEnds
  <2> QED BY <2>1, <2>3, <2>4 DEF TypeInv
<1>6. ASSUME NEW trap \in BOOLEAN, HandlerReturns(trap) PROVE TypeInv'
  BY <1>6, BelowIs DEF HandlerReturns, At, TypeInv
<1>7. CASE UNCHANGED vars
  BY <1>7 DEF vars, TypeInv
<1> QED BY <1>1, <1>2, <1>3, <1>4, <1>5, <1>6, <1>7, NextIs

LEMMA TypeInit == Init => TypeInv
<1> SUFFICES ASSUME Init PROVE TypeInv
  OBVIOUS
<1>1. << >> \in Seq(Frame) /\ << >> \in Seq(Outcome)
  OBVIOUS
<1> QED BY <1>1 DEF Init, TypeInv, State

\* The stack keeps its type, whatever the program and the transport do.
THEOREM Types == Spec => []TypeInv
BY TypeInit, TypeStep, BoundOK, PTL DEF Spec
-----------------------------------------------------------------------------
(* The frames after a step                                                 *)

LEMMA AtIs ==
    ASSUME TypeInv, NEW place, At(place)
    PROVE  Len(stack) \in 1..Len(stack) /\ stack[Len(stack)].at = place
<1>1. stack # <<>> /\ Top.at = place
  BY DEF At
<1> QED BY <1>1, BelowIs DEF TypeInv

\* The first n frames stay as they are.
Stay(n) == \A i \in 1..n : stack'[i] = stack[i]

LEMMA StartsIs ==
    ASSUME TypeInv, BoundOK, NEW t \in Task, NEW via \in {"resume", "data"}, Starts(t, via)
    PROVE  /\ Len(stack') = Len(stack) + 1 /\ Stay(Len(stack))
           /\ stack'[Len(stack) + 1] = NewFrame(t, via)
<1> DEFINE g == NewFrame(t, via)
<1>1. g \in Frame /\ stack' = Append(stack, g)
  BY NewFrameTyped DEF Starts
<1> HIDE DEF g
<1>2. /\ Len(stack') = Len(stack) + 1 /\ stack'[Len(stack) + 1] = g
      /\ \A i \in 1..Len(stack) : stack'[i] = stack[i]
  BY <1>1, Appended DEF TypeInv
<1> QED BY <1>2 DEF g, Stay

LEMMA MovesIs ==
    ASSUME TypeInv, NEW f \in Frame, Moves(f)
    PROVE  /\ Len(stack) \in Nat \ {0} /\ Len(stack') = Len(stack) /\ Stay(Len(stack) - 1)
           /\ stack'[Len(stack)] = f
<1>1. /\ Below \in Seq(Frame) /\ Len(Below) = Len(stack) - 1 /\ Len(stack) \in Nat \ {0}
      /\ \A i \in 1..Len(Below) : Below[i] = stack[i]
  BY BelowIs DEF Moves, TypeInv
<1>2. /\ Len(stack') = Len(Below) + 1 /\ stack'[Len(Below) + 1] = f
      /\ \A i \in 1..Len(Below) : stack'[i] = Below[i]
  BY <1>1, Appended DEF Moves
<1>3. Len(Below) + 1 = Len(stack)
  BY <1>1
<1> QED BY <1>1, <1>2, <1>3 DEF Stay

\* A settled request leaves the stack, or its completion handler is on it.
LEMMA SettledFrames ==
    ASSUME TypeInv, NEW below \in Seq(Frame), NEW f \in Frame, NEW outcome \in Outcome,
           Settle(below, f, outcome)
    PROVE  \/ stack' = below
           \/ /\ Len(stack') = Len(below) + 1
              /\ stack'[Len(below) + 1] = InHandler(f, outcome)
              /\ InHandler(f, outcome).at = "handler"
              /\ \A i \in 1..Len(below) : stack'[i] = below[i]
<1> DEFINE g == InHandler(f, outcome)
<1>1. \/ stack' = below
      \/ stack' = Append(below, g) /\ g \in Frame /\ g.at = "handler"
  BY SettleIs
<1> HIDE DEF g
<1>2. CASE stack' = Append(below, g) /\ g \in Frame /\ g.at = "handler"
  BY <1>2, Appended DEF g
<1> QED BY <1>1, <1>2

LEMMA RefusedIs ==
    ASSUME TypeInv, BoundOK, NEW t \in Task, NEW via \in {"resume", "data"}, Refused(t, via)
    PROVE  \/ stack' = stack
           \/ /\ Len(stack') = Len(stack) + 1 /\ Stay(Len(stack))
              /\ stack'[Len(stack) + 1].at = "handler"
              /\ \E outcome \in Outcome :
                    stack'[Len(stack) + 1] = InHandler(NewFrame(t, via), outcome)
<1>1. PICK outcome \in Outcome : Settle(stack, NewFrame(t, via), outcome)
  BY DEF Refused
<1>2. NewFrame(t, via) \in Frame /\ stack \in Seq(Frame)
  BY NewFrameTyped DEF TypeInv
<1> QED BY <1>1, <1>2, SettledFrames DEF Stay

LEMMA EndsIs ==
    ASSUME TypeInv, NEW f \in Frame, NEW outcome \in Outcome, Ends(f, outcome)
    PROVE  /\ Len(stack) \in Nat \ {0} /\ Stay(Len(stack) - 1)
           /\ \/ Len(stack') = Len(stack) - 1
              \/ /\ Len(stack') = Len(stack)
                 /\ stack'[Len(stack)] = InHandler(f, outcome)
                 /\ stack'[Len(stack)].at = "handler"
<1>1. /\ Below \in Seq(Frame) /\ Len(Below) = Len(stack) - 1 /\ Len(stack) \in Nat \ {0}
      /\ \A i \in 1..Len(Below) : Below[i] = stack[i]
  BY BelowIs DEF Ends, TypeInv
<1>2. Settle(Below, f, outcome)
  BY DEF Ends
<1>3. CASE stack' = Below
  BY <1>1, <1>3 DEF Stay
<1>4. CASE /\ Len(stack') = Len(Below) + 1
           /\ stack'[Len(Below) + 1] = InHandler(f, outcome)
           /\ InHandler(f, outcome).at = "handler"
           /\ \A i \in 1..Len(Below) : stack'[i] = Below[i]
  <2>1. Len(Below) + 1 = Len(stack)
    BY <1>1
  <2> QED BY <1>1, <1>4, <2>1 DEF Stay
<1> QED BY <1>1, <1>2, <1>3, <1>4, SettledFrames

LEMMA HandlerReturnsIs ==
    ASSUME TypeInv, NEW trap, HandlerReturns(trap)
    PROVE  /\ Len(stack) \in Nat \ {0} /\ Len(stack') = Len(stack) - 1 /\ Stay(Len(stack) - 1)
           /\ stack[Len(stack)].at = "handler"
<1>1. stack # <<>> /\ Top.at = "handler" /\ stack' = Below
  BY DEF HandlerReturns, At
<1> QED BY <1>1, BelowIs DEF Stay, TypeInv

LEMMA DisposedFrames ==
    ASSUME TypeInv, NEW token, NEW d \in Disposition, Dispose(token, d)
    PROVE  /\ Len(stack') = Len(stack)
           /\ \A i \in 1..Len(stack) :
                 /\ SameRequest(stack'[i], stack[i])
                 /\ stack'[i].at = stack[i].at /\ stack'[i].outcome = stack[i].outcome
<1>1. Len(stack') = Len(stack) /\ DOMAIN stack = 1..Len(stack)
  BY DisposeIs
<1>2. ASSUME NEW i \in 1..Len(stack)
      PROVE  /\ SameRequest(stack'[i], stack[i])
             /\ stack'[i].at = stack[i].at /\ stack'[i].outcome = stack[i].outcome
  <2>1. stack[i] \in Frame
    BY DEF TypeInv
  <2>2. stack'[i] \in {stack[i], [stack[i] EXCEPT !.told = d]}
    BY <1>1, DisposeIs
  <2> QED BY <2>1, <2>2 DEF Frame, SameRequest
<1> QED BY <1>1, <1>2
-----------------------------------------------------------------------------
(* Cancelling the Swift task                                               *)

\* Only the innermost request polls, and only while nothing has cancelled the
\* Swift task; a request around it is inside a callback.
PollInv ==
    \A i \in 1..Len(stack) : stack[i].at = "poll" => i = Len(stack) /\ ~swift

LEMMA PollStep == BoundOK /\ TypeInv /\ PollInv /\ [Next]_vars => PollInv'
<1> SUFFICES ASSUME BoundOK, TypeInv, PollInv, [Next]_vars PROVE PollInv'
  OBVIOUS
<1> USE DEF PollInv
<1>1. stack \in Seq(Frame) /\ Len(stack) \in Nat
  BY DEF TypeInv
<1>2. ASSUME InScript, NEW i \in 1..Len(stack) PROVE stack[i].at # "poll"
  <2>1. stack # <<>> /\ Top = stack[Len(stack)]
    BY <1>1, <1>2 DEF Top
  <2> QED BY <1>2, <2>1 DEF InScript, At
<1>3. ASSUME NEW t \in Task, NEW via \in {"resume", "data"}, Requested(t, via)
      PROVE  PollInv'
  <2>1. CASE Starts(t, via)
    BY <1>1, <1>2, <1>3, <2>1, StartsIs DEF Requested, Starts, Stay
  <2>2. CASE Refused(t, via)
    BY <1>1, <1>2, <1>3, <2>2, RefusedIs DEF Requested, Stay
  <2> QED BY <1>3, <2>1, <2>2 DEF Requested
<1>4. ASSUME NEW t \in Task, Cancel(t) PROVE PollInv'
  BY <1>4 DEF Cancel
<1>5. CASE CancelSwift
  BY <1>2, <1>5 DEF CancelSwift
<1>6. ASSUME NEW token \in 1..slot.token, NEW d \in Disposition, Dispose(token, d)
      PROVE  PollInv'
  BY <1>6, DisposedFrames DEF Dispose
<1>7. CASE RequestSteps
  <2>1. MovesOrEnds /\ swift' = swift
    BY <1>7, RequestStepIs
  <2>2. ASSUME NEW f \in Frame, Moves(f) PROVE PollInv'
    <3>1. f.at = "poll" => ~swift
      BY <2>2 DEF Moves
    <3> QED BY <2>1, <2>2, <3>1, MovesIs DEF Stay
  <2>3. ASSUME NEW f \in Frame, NEW outcome \in Outcome, Ends(f, outcome) PROVE PollInv'
    BY <2>1, <2>3, EndsIs DEF Stay
  <2> QED BY <2>1, <2>2, <2>3 DEF MovesOrEnds
<1>8. ASSUME NEW trap \in BOOLEAN, HandlerReturns(trap) PROVE PollInv'
  BY <1>8, HandlerReturnsIs DEF HandlerReturns, Stay
<1>9. CASE UNCHANGED vars
  BY <1>9 DEF vars
<1> QED BY <1>3, <1>4, <1>5, <1>6, <1>7, <1>8, <1>9, NextIs

\* Once the enclosing Swift task is cancelled no request in progress is asked
\* for a further event, the requests around a callback included: each looks at
\* the cancellation before it polls (urlsession.rs, run_event_driver).
THEOREM CancelledStops == Spec => []CancelledStopsPolling
<1>1. Init => PollInv
  BY DEF Init, PollInv
<1>2. TypeInv /\ PollInv => CancelledStopsPolling
  BY AtIs DEF PollInv, CancelledStopsPolling
<1> QED BY <1>1, <1>2, TypeInit, TypeStep, BoundOK, PollStep, PTL DEF Spec
-----------------------------------------------------------------------------
(* Running tasks and their results                                         *)

\* The frame i drives a resume() of the task t.
Drives(i, t) ==
    stack[i].task = t /\ stack[i].via = "resume" /\ stack[i].at # "handler"

\* A task is driven by one frame at most: by one while it runs, and after a
\* cancel only if it has not finished twice.
ResultOK(t) ==
    /\ \A i, j \in 1..Len(stack) : Drives(i, t) /\ Drives(j, t) => i = j
    /\ state[t] = "suspended" => \A i \in 1..Len(stack) : ~Drives(i, t)
    /\ state[t] = "running" => \E i \in 1..Len(stack) : Drives(i, t)
    /\ state[t] = "canceling" => t \in flag
    /\ state[t] # "completed" => Len(results[t]) = 0
    /\ state[t] = "completed" =>
          \A i \in 1..Len(stack) : Drives(i, t) => t \in flag /\ Len(results[t]) <= 1
    /\ Len(results[t]) <= IF t \in flag THEN 2 ELSE 1

ResultInv == \A t \in Task : ResultOK(t)

\* A begun resume() is driven by its own frame.
LEMMA StartDrives ==
    ASSUME TypeInv, BoundOK, NEW t \in Task, NEW via \in {"resume", "data"}, Starts(t, via),
           NEW u \in Task
    PROVE  \A i \in 1..Len(stack') :
              Drives(i, u)' <=>
                 (i \in 1..Len(stack) /\ Drives(i, u))
                   \/ (i = Len(stack) + 1 /\ via = "resume" /\ u = t)
<1>1. /\ Len(stack') = Len(stack) + 1 /\ Stay(Len(stack)) /\ Len(stack) \in Nat
      /\ stack'[Len(stack) + 1] = NewFrame(t, via)
  BY StartsIs DEF TypeInv
<1>2. /\ NewFrame(t, via).task = t /\ NewFrame(t, via).via = via
      /\ NewFrame(t, via).at = "poll"
  BY NewFrameTyped
<1> QED BY <1>1, <1>2 DEF Drives, Stay

\* A request over before it began is driven by none.
LEMMA RefusedDrives ==
    ASSUME TypeInv, BoundOK, NEW t \in Task, NEW via \in {"resume", "data"}, Refused(t, via),
           NEW u \in Task
    PROVE  /\ 1..Len(stack) \subseteq 1..Len(stack')
           /\ \A i \in 1..Len(stack') : Drives(i, u)' <=> i \in 1..Len(stack) /\ Drives(i, u)
<1>1. Len(stack) \in Nat
  BY DEF TypeInv
<1> QED BY <1>1, RefusedIs DEF Drives, Stay

LEMMA MoveDrives ==
    ASSUME TypeInv, NEW f \in Frame, Moves(f), NEW u \in Task
    PROVE  Len(stack') = Len(stack) /\ \A i \in 1..Len(stack) : Drives(i, u)' <=> Drives(i, u)
<1>1. SameRequest(f, stack[Len(stack)]) /\ stack[Len(stack)].at # "handler" /\ f.at # "handler"
  BY BelowIs DEF Moves, TypeInv
<1> QED BY <1>1, MovesIs DEF Drives, Stay, SameRequest

\* The frame of a request that ends drives its task until then.
LEMMA EndDrives ==
    ASSUME TypeInv, NEW f \in Frame, NEW outcome \in Outcome, Ends(f, outcome), NEW u \in Task
    PROVE  /\ Len(stack) \in Nat \ {0} /\ Len(stack') \in {Len(stack) - 1, Len(stack)}
           /\ \A i \in 1..Len(stack') : Drives(i, u)' <=> i # Len(stack) /\ Drives(i, u)
           /\ Drives(Len(stack), u) <=> f.via = "resume" /\ f.task = u
<1>1. SameRequest(f, stack[Len(stack)]) /\ stack[Len(stack)].at # "handler"
  BY BelowIs DEF Ends, TypeInv
<1>2. Drives(Len(stack), u) <=> f.via = "resume" /\ f.task = u
  BY <1>1 DEF Drives, SameRequest
<1> QED BY <1>2, EndsIs DEF Drives, Stay

\* The state and the results of the task that a request settles, for a
\* resume() of t; every other task keeps its own.
SettledTask(t) ==
    /\ state' = [state EXCEPT ![t] = "completed"]
    /\ \A u \in Task \ {t} : Len(results'[u]) = Len(results[u])
    /\ Len(results'[t]) \in {Len(results[t]), Len(results[t]) + 1}

LEMMA SettleResults ==
    ASSUME TypeInv, NEW below \in Seq(Frame), NEW f \in Frame, NEW outcome \in Outcome,
           Settle(below, f, outcome)
    PROVE  IF f.via = "resume" THEN SettledTask(f.task) ELSE UNCHANGED <<state, results>>
<1>1. CASE f.via = "resume"
  <2>1. f.task \in Task /\ results \in [Task -> Seq(Outcome)]
    BY DEF Frame, TypeInv
  <2>2. Len(Append(results[f.task], outcome)) = Len(results[f.task]) + 1
    BY <2>1
  <2>3. /\ state' = [state EXCEPT ![f.task] = "completed"]
        /\ results' \in {[results EXCEPT ![f.task] = Append(@, outcome)], results}
    BY <1>1, SettleIs
  <2> QED BY <1>1, <2>1, <2>2, <2>3 DEF SettledTask
<1>2. CASE f.via # "resume"
  BY <1>2, SettleIs
<1> QED BY <1>1, <1>2

LEMMA ResultStep == BoundOK /\ TypeInv /\ ResultInv /\ [Next]_vars => ResultInv'
<1> SUFFICES ASSUME BoundOK, TypeInv, ResultInv, [Next]_vars, NEW u \in Task
             PROVE  ResultOK(u)'
  BY DEF ResultInv
<1>0. /\ Len(stack) \in Nat /\ state \in [Task -> State] /\ Len(results[u]) \in Nat
      /\ ResultOK(u)
  BY DEF TypeInv, ResultInv
<1>1. ASSUME NEW t \in Task, NEW via \in {"resume", "data"}, Requested(t, via)
      PROVE  ResultOK(u)'
  <2>1. CASE Starts(t, via)
    <3>1. \A i \in 1..Len(stack') :
             Drives(i, u)' <=>
                (i \in 1..Len(stack) /\ Drives(i, u))
                  \/ (i = Len(stack) + 1 /\ via = "resume" /\ u = t)
      BY <2>1, StartDrives
    <3>2. Len(stack') = Len(stack) + 1
      BY <2>1, StartsIs
    <3>3. CASE via = "resume" /\ u = t
      <4>1. state[u] = "suspended" /\ state'[u] = "running" /\ results' = results /\ flag' = flag
        BY <1>0, <1>1, <2>1, <3>3 DEF Starts, Requested, Resumable, ResultOK
      <4> QED BY <1>0, <3>1, <3>2, <3>3, <4>1 DEF ResultOK
    <3>4. CASE ~(via = "resume" /\ u = t)
      <4>1. state'[u] = state[u] /\ results' = results /\ flag' = flag
        BY <1>0, <1>1, <2>1, <3>4 DEF Starts, Requested
      <4> QED BY <1>0, <3>1, <3>2, <3>4, <4>1 DEF ResultOK
    <3> QED BY <3>3, <3>4
  <2>2. CASE Refused(t, via)
    <3>1. /\ 1..Len(stack) \subseteq 1..Len(stack')
          /\ \A i \in 1..Len(stack') : Drives(i, u)' <=> i \in 1..Len(stack) /\ Drives(i, u)
      BY <2>2, RefusedDrives
    <3>2. IF via = "resume" THEN SettledTask(t) ELSE UNCHANGED <<state, results>>
      <4> DEFINE f == NewFrame(t, via)
      <4>1. f \in Frame /\ f.task = t /\ f.via = via /\ stack \in Seq(Frame)
        BY NewFrameTyped DEF TypeInv
      <4>2. \E outcome \in Outcome : Settle(stack, f, outcome)
        BY <2>2 DEF Refused
      <4> HIDE DEF f
      <4> QED BY <4>1, <4>2, SettleResults
    <3>3. flag' = flag /\ (via = "resume" => Resumable(t))
      BY <1>1 DEF Requested
    <3> QED BY <1>0, <3>1, <3>2, <3>3 DEF ResultOK, SettledTask, Resumable
  <2> QED BY <1>1, <2>1, <2>2 DEF Requested
<1>2. ASSUME NEW t \in Task, Cancel(t) PROVE ResultOK(u)'
  BY <1>0, <1>2 DEF Cancel, ResultOK, Drives, State
<1>3. CASE CancelSwift
  BY <1>0, <1>3 DEF CancelSwift, ResultOK, Drives
<1>4. ASSUME NEW token \in 1..slot.token, NEW d \in Disposition, Dispose(token, d)
      PROVE  ResultOK(u)'
  <2>1. Len(stack') = Len(stack) /\ \A i \in 1..Len(stack) : Drives(i, u)' <=> Drives(i, u)
    BY <1>4, DisposedFrames DEF Drives, SameRequest
  <2> QED BY <1>0, <1>4, <2>1 DEF Dispose, ResultOK
<1>5. CASE RequestSteps
  <2>1. MovesOrEnds /\ flag' = flag
    BY <1>5, RequestStepIs
  <2>2. ASSUME NEW f \in Frame, Moves(f) PROVE ResultOK(u)'
    <3>1. Len(stack') = Len(stack) /\ \A i \in 1..Len(stack) : Drives(i, u)' <=> Drives(i, u)
      BY <2>2, MoveDrives
    <3>2. UNCHANGED <<state, results>>
      BY <2>2 DEF Moves
    <3> QED BY <1>0, <2>1, <3>1, <3>2 DEF ResultOK
  <2>3. ASSUME NEW f \in Frame, NEW outcome \in Outcome, Ends(f, outcome) PROVE ResultOK(u)'
    <3>1. /\ Len(stack) \in Nat \ {0} /\ Len(stack') \in {Len(stack) - 1, Len(stack)}
          /\ \A i \in 1..Len(stack') : Drives(i, u)' <=> i # Len(stack) /\ Drives(i, u)
          /\ Drives(Len(stack), u) <=> f.via = "resume" /\ f.task = u
      BY <2>3, EndDrives
    <3>2. IF f.via = "resume" THEN SettledTask(f.task) ELSE UNCHANGED <<state, results>>
      BY <2>3, BelowIs, SettleResults DEF Ends, TypeInv
    <3>3. CASE f.via = "resume" /\ f.task = u
      <4>1. state'[u] = "completed" /\ Len(results'[u]) \in {Len(results[u]), Len(results[u]) + 1}
        BY <1>0, <3>2, <3>3 DEF SettledTask
      <4>2. \A i \in 1..Len(stack') : ~Drives(i, u)'
        BY <1>0, <3>1, <3>3 DEF ResultOK
      <4> QED BY <1>0, <2>1, <3>1, <3>3, <4>1, <4>2 DEF ResultOK
    <3>4. CASE ~(f.via = "resume" /\ f.task = u)
      <4>1. state'[u] = state[u] /\ Len(results'[u]) = Len(results[u])
        BY <1>0, <2>3, <3>2, <3>4 DEF SettledTask
      <4>2. ~Drives(Len(stack), u)
        BY <3>1, <3>4
      <4> QED BY <1>0, <2>1, <3>1, <4>1, <4>2 DEF ResultOK
    <3> QED BY <3>3, <3>4
  <2> QED BY <2>1, <2>2, <2>3 DEF MovesOrEnds
<1>6. ASSUME NEW trap \in BOOLEAN, HandlerReturns(trap) PROVE ResultOK(u)'
  <2>1. /\ Len(stack) \in Nat \ {0} /\ Len(stack') = Len(stack) - 1 /\ Stay(Len(stack) - 1)
        /\ ~Drives(Len(stack), u)
    BY <1>6, HandlerReturnsIs DEF Drives
  <2>2. \A i \in 1..Len(stack') : Drives(i, u)' <=> Drives(i, u)
    BY <2>1 DEF Drives, Stay
  <2> QED BY <1>0, <1>6, <2>1, <2>2 DEF HandlerReturns, ResultOK
<1>7. CASE UNCHANGED vars
  BY <1>0, <1>7 DEF vars, ResultOK, Drives
<1> QED BY <1>1, <1>2, <1>3, <1>4, <1>5, <1>6, <1>7, NextIs

LEMMA ResultInit == Init => ResultInv
BY DEF Init, ResultInv, ResultOK, Drives

\* A task in the state running is being driven: whatever throws, and however
\* far up the stack the trap goes, resume() leaves it completed
\* (urlsession.rs, resume and run_event_driver).
THEOREM Running == Spec => []RunningIsDriven
<1>1. TypeInv /\ ResultInv => RunningIsDriven
  <2> SUFFICES ASSUME TypeInv, ResultInv, NEW t \in Task, state[t] = "running"
               PROVE  \E f \in Frames : f.task = t /\ f.via = "resume" /\ f.at # "handler"
    BY DEF RunningIsDriven
  <2>1. PICK i \in 1..Len(stack) : Drives(i, t)
    BY DEF ResultInv, ResultOK
  <2>2. stack[i] \in Frames
    <3>1. DOMAIN stack = 1..Len(stack)
      BY DEF TypeInv
    <3> QED BY <3>1 DEF Frames
  <2> QED BY <2>1, <2>2 DEF Drives
<1> QED BY <1>1, ResultInit, TypeInit, TypeStep, BoundOK, ResultStep, PTL DEF Spec

\* A completion handler is called once, or twice if its task was cancelled
\* while a request of it was in progress and resumed before that ended: never
\* more often (urlsession.rs, resume and cancel).
THEOREM Results == Spec => []SecondResultNeedsCancel
<1>1. ResultInv => SecondResultNeedsCancel
  BY DEF ResultInv, ResultOK, SecondResultNeedsCancel
<1> QED BY <1>1, ResultInit, TypeInit, TypeStep, BoundOK, ResultStep, PTL DEF Spec
-----------------------------------------------------------------------------
(* Handles                                                                 *)

\* A request has a handle of its own number; an open one belongs to a request
\* in progress, and the last event has been taken, or the handle drained,
\* before didCompleteWithError unless the request was refused.
OwnHandles ==
    \A i \in 1..Len(stack) : stack[i].at # "handler" =>
       \E n \in 1..requests[stack[i].task] : stack[i].handle = <<stack[i].task, n>>
ClosedFirst ==
    \A i \in 1..Len(stack) :
       stack[i].at = "complete" /\ stack[i].outcome # "refused" => stack[i].handle \notin open
OpenHeld ==
    \A h \in open : \E i \in 1..Len(stack) : stack[i].handle = h /\ stack[i].at # "handler"

HandleInv == OwnHandles /\ ClosedFirst /\ OpenHeld

\* The innermost request moves on, or is over with its handle closed.
Closes ==
    /\ open' \subseteq open
    /\ \E f \in Frame :
          \/ /\ Moves(f)
             /\ f.at = "complete" /\ f.outcome # "refused" => f.handle \notin open'
          \/ /\ f.handle \notin open'
             /\ \E outcome \in Outcome : Ends(f, outcome)

\* http_cancel and the drain that follows: a transport that delivers fewer
\* events than MAX_DRAIN_EVENTS before its last is drained to the end.
LEMMA DrainCloses ==
    ASSUME BoundOK, MaxBuffered < MaxDrain, NEW h, open' \in Drained(h)
    PROVE  open' = open \ {h}
BY DEF Drained, BoundOK

LEMMA CompleteCloses ==
    ASSUME TypeInv, NEW f \in Frame, Current(f), NEW outcome \in Outcome, Complete(f, outcome),
           open' \subseteq open,
           f.handle \notin open' \/ (outcome = "refused" /\ "complete" \in methods)
    PROVE  Closes
<1>1. CASE "complete" \in methods
  <2> DEFINE g == [f EXCEPT !.outcome = outcome]
             called == [g EXCEPT !.at = "complete", !.heard = Append(@, "complete")]
  <2>1. g \in Frame /\ Current(g)
    BY DEF Frame, Current, SameRequest
  <2>2. Call(g, "complete")
    BY <1>1 DEF Complete
  <2>3. Moves(called)
    BY <2>1, <2>2, CallMoves DEF Method
  <2>4. called.outcome = outcome /\ called.handle = f.handle
    BY DEF Frame
  <2>5. called \in Frame
    BY <2>3 DEF Moves
  <2> HIDE DEF g, called
  <2> QED BY <2>3, <2>4, <2>5 DEF Closes
<1>2. CASE "complete" \notin methods
  BY <1>2 DEF Complete, Closes, Ends, Current
<1> QED BY <1>1, <1>2

LEMMA PollOnCloses ==
    ASSUME TypeInv, NEW f \in Frame, Current(f), PollOn(f), ~swift
    PROVE  Closes
<1> DEFINE g == [f EXCEPT !.at = "poll"]
<1>1. Moves(g) /\ open' = open
  BY PollOnMoves DEF PollOn
<1>2. g.at = "poll" /\ g \in Frame
  BY DEF Frame
<1> HIDE DEF g
<1> QED BY <1>1, <1>2 DEF Closes

LEMMA ProceedCloses ==
    ASSUME BoundOK, MaxBuffered < MaxDrain, TypeInv, NEW f \in Frame, Current(f), Proceed(f)
    PROVE  Closes
<1>1. CASE swift
  <2>1. open' = open \ {f.handle}
    BY <1>1, DrainCloses DEF Proceed
  <2> QED BY <1>1, <2>1, CompleteCloses DEF Proceed, Outcome
<1>2. CASE ~swift
  BY <1>2, PollOnCloses DEF Proceed
<1> QED BY <1>1, <1>2

LEMMA CallCloses ==
    ASSUME TypeInv, NEW f \in Frame, Current(f), NEW m \in {"response", "data"}, Call(f, m),
           open' = open
    PROVE  Closes
<1> DEFINE g == [f EXCEPT !.at = m, !.heard = Append(@, m)]
<1>1. Moves(g)
  BY CallMoves DEF Method
<1>2. g.at # "complete" /\ g \in Frame
  BY <1>1 DEF Frame, Moves
<1> HIDE DEF g
<1> QED BY <1>1, <1>2 DEF Closes

\* The end of a request without didCompleteWithError.
LEMMA EndCloses ==
    ASSUME TypeInv, Top \in Frame, Current(Top), NEW outcome \in Outcome,
           Settle(Below, Top, outcome), open' \subseteq open, Top.handle \notin open'
    PROVE  Closes
BY DEF Closes, Ends, Current

LEMMA RequestStepCloses ==
    ASSUME BoundOK, MaxBuffered < MaxDrain, TypeInv, HandleInv, RequestSteps
    PROVE  Closes
<1> USE DEF Outcome
<1>1. CASE GetResponse
  BY <1>1, GetResponseIs, CallCloses, ProceedCloses
<1>2. CASE GetChunk
  BY <1>2, GetChunkIs, CallCloses, ProceedCloses
<1>3. CASE GetMalformed
  <2>1. Top \in Frame /\ Current(Top)
    BY <1>3, TopIsCurrent DEF GetMalformed, Polling
  <2>2. Settle(Below, Top, "bad") /\ open' = open \ {Top.handle}
    BY <1>3, DrainCloses DEF GetMalformed
  <2> QED BY <2>1, <2>2, EndCloses
<1>4. ASSUME NEW outcome \in {"success", "failed"}, GetLast(outcome)
      PROVE  Closes
  <2>1. Top \in Frame /\ Current(Top)
    BY <1>4, TopIsCurrent DEF GetLast, Polling
  <2>2. open' = open \ {Top.handle}
    BY <1>4 DEF GetLast
  <2>3. Settle(Below, Top, "bad") \/ Complete(Top, outcome)
    BY <1>4 DEF GetLast
  <2> QED BY <2>1, <2>2, <2>3, EndCloses, CompleteCloses
<1>5. CASE ResponseReturns
  <2>1. CASE Proceed(Decided)
    BY <1>5, <2>1, ResponseReturnsIs, ProceedCloses
  <2>2. CASE /\ Complete(Decided, "refused")
             /\ IF "complete" \in methods THEN UNCHANGED open
                ELSE open' \in Drained(Decided.handle)
    BY <1>5, <2>2, ResponseReturnsIs, DrainCloses, CompleteCloses
  <2> QED BY <1>5, <2>1, <2>2, ResponseReturnsIs
<1>6. CASE DataReturns
  BY <1>6, TopIsCurrent, ProceedCloses DEF DataReturns
<1>7. CASE EventCallbackTraps
  <2>1. Top \in Frame /\ Current(Top)
    BY <1>7, TopIsCurrent DEF EventCallbackTraps
  <2>2. Settle(Below, Top, "trapped") /\ open' = open \ {Top.handle}
    BY <1>7, DrainCloses DEF EventCallbackTraps
  <2> QED BY <2>1, <2>2, EndCloses
<1>8. CASE CompleteReturns
  <2>1. Top \in Frame /\ Current(Top) /\ Top.outcome \in Outcome
    BY <1>8, TopIsCurrent DEF CompleteReturns, Frame
  <2>2. Top.outcome # "refused" => Top.handle \notin open
    <3>1. Len(stack) \in 1..Len(stack) /\ stack[Len(stack)].at = "complete"
      BY <1>8, AtIs DEF CompleteReturns
    <3>2. Top = stack[Len(stack)]
      BY DEF Top
    <3> QED BY <3>1, <3>2 DEF HandleInv, ClosedFirst
  <2>3. open' \subseteq open /\ Top.handle \notin open'
    BY <1>8, <2>2, DrainCloses DEF CompleteReturns
  <2>4. Settle(Below, Top, Top.outcome)
    BY <1>8 DEF CompleteReturns
  <2> QED BY <2>1, <2>3, <2>4, EndCloses
<1> QED BY <1>1, <1>2, <1>3, <1>4, <1>5, <1>6, <1>7, <1>8 DEF RequestSteps

\* A new request has a handle no other request had.
LEMMA StartHandles ==
    ASSUME BoundOK, TypeInv, HandleInv, NEW t \in Task, NEW via \in {"resume", "data"},
           Starts(t, via)
    PROVE  HandleInv'
<1> DEFINE h == <<t, requests[t] + 1>>
<1>1. /\ Len(stack') = Len(stack) + 1 /\ Stay(Len(stack)) /\ Len(stack) \in Nat
      /\ stack'[Len(stack) + 1] = NewFrame(t, via)
  BY StartsIs DEF TypeInv
<1>2. /\ NewFrame(t, via).task = t /\ NewFrame(t, via).handle = h
      /\ NewFrame(t, via).at = "poll"
  BY NewFrameTyped
<1>3. open' = open \cup {h} /\ requests' = [requests EXCEPT ![t] = @ + 1]
  BY DEF Starts
<1>4. requests \in [Task -> Nat]
  BY DEF TypeInv
<1>5. ASSUME NEW i \in 1..Len(stack), stack[i].at # "handler"
      PROVE  /\ stack[i].handle # h
             /\ \E n \in 1..requests'[stack[i].task] : stack[i].handle = <<stack[i].task, n>>
  <2>1. PICK n \in 1..requests[stack[i].task] : stack[i].handle = <<stack[i].task, n>>
    BY <1>5 DEF HandleInv, OwnHandles
  <2>2. stack[i].task \in Task
    <3>1. stack[i] \in Frame
      BY DEF TypeInv
    <3> QED BY <3>1 DEF Frame
  <2>3. n \in 1..requests'[stack[i].task]
    BY <1>3, <1>4, <2>1, <2>2
  <2>4. n # requests[t] + 1 \/ stack[i].task # t
    BY <1>4, <2>1
  <2> QED BY <2>1, <2>3, <2>4
<1>6. \E n \in 1..requests'[t] : h = <<t, n>>
  BY <1>3, <1>4
<1> HIDE DEF h
<1>7. OwnHandles'
  BY <1>1, <1>2, <1>5, <1>6 DEF Stay, OwnHandles
<1>8. ClosedFirst'
  BY <1>1, <1>2, <1>3, <1>5 DEF Stay, HandleInv, ClosedFirst
<1>9. OpenHeld'
  <2> SUFFICES ASSUME NEW g \in open'
               PROVE  \E i \in 1..Len(stack') : stack'[i].handle = g /\ stack'[i].at # "handler"
    BY DEF OpenHeld
  <2>1. CASE g = h
    BY <1>1, <1>2, <2>1
  <2>2. CASE g \in open
    <3>1. PICK i \in 1..Len(stack) : stack[i].handle = g /\ stack[i].at # "handler"
      BY <2>2 DEF HandleInv, OpenHeld
    <3>2. stack'[i] = stack[i] /\ i \in 1..Len(stack')
      BY <1>1 DEF Stay
    <3> QED BY <3>1, <3>2
  <2> QED BY <1>3, <2>1, <2>2
<1> QED BY <1>7, <1>8, <1>9 DEF HandleInv

\* A request that ends takes its handle with it.
LEMMA CloseHandles ==
    ASSUME TypeInv, HandleInv, Closes, requests' = requests
    PROVE  HandleInv'
<1>1. open' \subseteq open
  BY DEF Closes
<1>2. ASSUME NEW f \in Frame, Moves(f),
             f.at = "complete" /\ f.outcome # "refused" => f.handle \notin open'
      PROVE  HandleInv'
  <2>1. /\ Len(stack) \in Nat \ {0} /\ Len(stack') = Len(stack) /\ Stay(Len(stack) - 1)
        /\ stack'[Len(stack)] = f
    BY <1>2, MovesIs
  <2>2. SameRequest(f, stack[Len(stack)]) /\ stack[Len(stack)].at # "handler" /\ f.at # "handler"
    BY <1>2, BelowIs DEF Moves, TypeInv
  <2>3. \A i \in 1..Len(stack) :
           /\ SameRequest(stack'[i], stack[i])
           /\ (stack'[i].at = "handler" <=> stack[i].at = "handler")
           /\ stack'[i] = f \/ stack'[i] = stack[i]
    BY <2>1, <2>2 DEF Stay, SameRequest
  <2>4. OwnHandles'
    BY <2>1, <2>3 DEF HandleInv, OwnHandles, SameRequest
  <2>5. ClosedFirst'
    BY <1>1, <1>2, <2>1, <2>3 DEF HandleInv, ClosedFirst
  <2>6. OpenHeld'
    BY <1>1, <2>1, <2>3 DEF HandleInv, OpenHeld, SameRequest
  <2> QED BY <2>4, <2>5, <2>6 DEF HandleInv
<1>3. ASSUME NEW f \in Frame, NEW outcome \in Outcome, Ends(f, outcome), f.handle \notin open'
      PROVE  HandleInv'
  <2>1. /\ Len(stack) \in Nat \ {0} /\ Len(stack') \in {Len(stack) - 1, Len(stack)}
        /\ Stay(Len(stack) - 1)
        /\ Len(stack') = Len(stack) => stack'[Len(stack)].at = "handler"
    BY <1>3, EndsIs
  <2>2. stack[Len(stack)].handle = f.handle
    BY <1>3, BelowIs DEF Ends, SameRequest, TypeInv
  <2>3. \A i \in 1..Len(stack') :
           \/ i \in 1..(Len(stack) - 1) /\ stack'[i] = stack[i]
           \/ stack'[i].at = "handler"
    BY <2>1 DEF Stay
  <2>4. ASSUME NEW h \in open'
        PROVE  \E i \in 1..Len(stack') : stack'[i].handle = h /\ stack'[i].at # "handler"
    <3>1. PICK i \in 1..Len(stack) : stack[i].handle = h /\ stack[i].at # "handler"
      BY <1>1, <2>4 DEF HandleInv, OpenHeld
    <3>2. i # Len(stack)
      BY <1>3, <2>2, <3>1
    <3> QED BY <2>1, <3>1, <3>2 DEF Stay
  <2>5. OwnHandles'
    BY <2>1, <2>3 DEF HandleInv, OwnHandles
  <2>6. ClosedFirst'
    BY <1>1, <2>1, <2>3 DEF HandleInv, ClosedFirst
  <2> QED BY <2>4, <2>5, <2>6 DEF HandleInv, OpenHeld
<1> QED BY <1>2, <1>3 DEF Closes

LEMMA HandleStep ==
    BoundOK /\ MaxBuffered < MaxDrain /\ TypeInv /\ HandleInv /\ [Next]_vars => HandleInv'
<1> SUFFICES ASSUME BoundOK, MaxBuffered < MaxDrain, TypeInv, HandleInv, [Next]_vars
             PROVE  HandleInv'
  OBVIOUS
<1>0. Len(stack) \in Nat
  BY DEF TypeInv
<1>1. ASSUME NEW t \in Task, NEW via \in {"resume", "data"}, Requested(t, via)
      PROVE  HandleInv'
  <2>1. CASE Refused(t, via)
    <3>1. \/ stack' = stack
          \/ /\ Len(stack') = Len(stack) + 1 /\ Stay(Len(stack))
             /\ stack'[Len(stack) + 1].at = "handler"
      BY <2>1, RefusedIs
    <3>2. UNCHANGED <<open, requests>>
      BY <2>1 DEF Refused
    <3>3. \A i \in 1..Len(stack) : i \in 1..Len(stack') /\ stack'[i] = stack[i]
      BY <1>0, <3>1 DEF Stay
    <3>4. \A i \in 1..Len(stack') : i \in 1..Len(stack) \/ stack'[i].at = "handler"
      BY <1>0, <3>1
    <3>5. OwnHandles'
      BY <3>2, <3>3, <3>4 DEF HandleInv, OwnHandles
    <3>6. ClosedFirst'
      BY <3>2, <3>3, <3>4 DEF HandleInv, ClosedFirst
    <3>7. OpenHeld'
      BY <3>2, <3>3, <3>4 DEF HandleInv, OpenHeld
    <3> QED BY <3>5, <3>6, <3>7 DEF HandleInv
  <2> QED BY <1>1, <2>1, StartHandles DEF Requested
<1>2. ASSUME NEW t \in Task, Cancel(t) PROVE HandleInv'
  BY <1>2 DEF Cancel, HandleInv, OwnHandles, ClosedFirst, OpenHeld
<1>3. CASE CancelSwift
  BY <1>3 DEF CancelSwift, HandleInv, OwnHandles, ClosedFirst, OpenHeld
<1>4. ASSUME NEW token \in 1..slot.token, NEW d \in Disposition, Dispose(token, d)
      PROVE  HandleInv'
  <2>1. UNCHANGED <<open, requests>>
    BY <1>4 DEF Dispose
  <2> QED BY <1>4, <2>1, DisposedFrames
     DEF HandleInv, OwnHandles, ClosedFirst, OpenHeld, SameRequest
<1>5. CASE RequestSteps
  BY <1>5, RequestStepIs, RequestStepCloses, CloseHandles
<1>6. ASSUME NEW trap \in BOOLEAN, HandlerReturns(trap) PROVE HandleInv'
  <2>1. /\ Len(stack) \in Nat \ {0} /\ Len(stack') = Len(stack) - 1 /\ Stay(Len(stack) - 1)
        /\ stack[Len(stack)].at = "handler"
    BY <1>6, HandlerReturnsIs
  <2>2. UNCHANGED <<open, requests>>
    BY <1>6 DEF HandlerReturns
  <2>3. \A i \in 1..Len(stack') : i \in 1..Len(stack) /\ stack'[i] = stack[i]
    BY <2>1 DEF Stay
  <2>4. \A i \in 1..Len(stack) : i \in 1..Len(stack') \/ stack[i].at = "handler"
    BY <2>1
  <2> QED BY <2>2, <2>3, <2>4 DEF HandleInv, OwnHandles, ClosedFirst, OpenHeld
<1>7. CASE UNCHANGED vars
  BY <1>7 DEF vars, HandleInv, OwnHandles, ClosedFirst, OpenHeld
<1> QED BY <1>1, <1>2, <1>3, <1>4, <1>5, <1>6, <1>7, NextIs

\* Over a transport that ends a cancelled request within MAX_DRAIN_EVENTS, an
\* open handle belongs to a request in progress: none is leaked, however the
\* requests are nested, cancelled, refused or trapped (ADR-0011).
THEOREM Drains == MaxBuffered < MaxDrain => (Spec => []HandlesDrained)
<1> SUFFICES ASSUME MaxBuffered < MaxDrain PROVE Spec => []HandlesDrained
  OBVIOUS
<1>1. Init => HandleInv
  BY DEF Init, HandleInv, OwnHandles, ClosedFirst, OpenHeld
<1>2. TypeInv /\ HandleInv => HandlesDrained
  BY DEF TypeInv, HandleInv, OpenHeld, HandlesDrained, Frames
<1>3. TypeInv /\ HandleInv /\ [Next]_vars => HandleInv'
  BY HandleStep, BoundOK
<1>4. TypeInv /\ [Next]_vars => TypeInv'
  BY TypeStep, BoundOK
<1> QED BY <1>1, <1>2, <1>3, <1>4, TypeInit, PTL DEF Spec
-----------------------------------------------------------------------------
(* What a delegate hears                                                   *)

InDriver == {"poll", "response", "data"}

\* The callbacks of one request so far.
InOrder(f) ==
    \A j \in DOMAIN f.heard :
        /\ \A i \in 1..(j - 1) : f.heard[i] # "complete" /\ f.heard[j] # "response"
        /\ f.heard[j] = "data" /\ "response" \in methods => f.heard[1] = "response"

\* While the driver goes on, none was the last, and the first was for the
\* response if one has come.
HeardOK(f) ==
    /\ InOrder(f)
    /\ f.at \in InDriver =>
        /\ \A i \in DOMAIN f.heard : f.heard[i] # "complete"
        /\ ~f.seen => f.heard = <<>>
        /\ f.seen /\ "response" \in methods => f.heard # <<>> /\ f.heard[1] = "response"

HeardInv == \A i \in 1..Len(stack) : HeardOK(stack[i])

\* The innermost request has heard what it may, or is over.
HeardNext ==
    \E f \in Frame :
       \/ Moves(f) /\ HeardOK(f)
       \/ \E outcome \in Outcome : Ends(f, outcome)

LEMMA HeardAppend ==
    ASSUME NEW s \in Seq(Method), NEW m \in Method
    PROVE  /\ Append(s, m) \in Seq(Method) /\ Append(s, m) # <<>>
           /\ DOMAIN Append(s, m) = 1..(Len(s) + 1) /\ DOMAIN s = 1..Len(s) /\ Len(s) \in Nat
           /\ Append(s, m)[Len(s) + 1] = m
           /\ \A i \in 1..Len(s) : Append(s, m)[i] = s[i]
OBVIOUS

\* A delegate that hears one thing more.
LEMMA CallHeard ==
    ASSUME NEW f \in Frame, HeardOK(f), f.at \in InDriver, NEW m \in {"data", "complete"},
           m = "data" => f.seen,
           NEW g, g = [f EXCEPT !.at = m, !.heard = Append(@, m)]
    PROVE  HeardOK(g)
<1> DEFINE n == Len(f.heard)
<1>1. /\ g.at = m /\ g.seen = f.seen /\ f.heard \in Seq(Method)
      /\ DOMAIN g.heard = 1..(n + 1) /\ DOMAIN f.heard = 1..n /\ n \in Nat /\ g.heard # <<>>
      /\ g.heard[n + 1] = m /\ \A i \in 1..n : g.heard[i] = f.heard[i]
  <2>1. m \in Method
    BY DEF Method
  <2>2. g.at = m /\ g.heard = Append(f.heard, m) /\ g.seen = f.seen /\ f.heard \in Seq(Method)
    BY <2>1 DEF Frame
  <2>3. /\ Append(f.heard, m) # <<>> /\ DOMAIN Append(f.heard, m) = 1..(n + 1)
        /\ DOMAIN f.heard = 1..n /\ n \in Nat
        /\ Append(f.heard, m)[n + 1] = m /\ \A i \in 1..n : Append(f.heard, m)[i] = f.heard[i]
    BY <2>1, <2>2, HeardAppend
  <2> QED BY <2>2, <2>3
<1>2. \A i \in 1..n : f.heard[i] # "complete"
  BY <1>1 DEF HeardOK
<1>3. f.seen /\ "response" \in methods => 1 \in 1..n /\ g.heard[1] = "response"
  <2> SUFFICES ASSUME f.seen, "response" \in methods
               PROVE  1 \in 1..n /\ g.heard[1] = "response"
    OBVIOUS
  <2>1. f.heard # <<>> /\ f.heard[1] = "response"
    BY DEF HeardOK
  <2>2. 1 \in 1..n
    BY <1>1, <2>1
  <2> QED BY <1>1, <2>1, <2>2
<1>4. InOrder(g)
  <2> SUFFICES ASSUME NEW j \in 1..(n + 1)
               PROVE  /\ \A i \in 1..(j - 1) : g.heard[i] # "complete" /\ g.heard[j] # "response"
                      /\ g.heard[j] = "data" /\ "response" \in methods => g.heard[1] = "response"
    BY <1>1 DEF InOrder
  <2>1. CASE j = n + 1
    BY <1>1, <1>2, <1>3, <2>1
  <2>2. CASE j \in 1..n
    <3>1. 1 \in 1..n /\ \A i \in 1..(j - 1) : i \in 1..n
      BY <1>1, <2>2
    <3>2. /\ \A i \in 1..(j - 1) : f.heard[i] # "complete" /\ f.heard[j] # "response"
          /\ f.heard[j] = "data" /\ "response" \in methods => f.heard[1] = "response"
      BY <1>1, <2>2 DEF HeardOK, InOrder
    <3> QED BY <1>1, <2>2, <3>1, <3>2
  <2> QED BY <1>1, <2>1, <2>2
<1>5. CASE m = "complete"
  BY <1>1, <1>4, <1>5 DEF HeardOK, InDriver
<1>6. CASE m = "data"
  <2>1. \A i \in DOMAIN g.heard : g.heard[i] # "complete"
    BY <1>1, <1>2, <1>6
  <2> QED BY <1>1, <1>3, <1>4, <1>6, <2>1 DEF HeardOK
<1> QED BY <1>5, <1>6

LEMMA CompleteHeard ==
    ASSUME TypeInv, NEW f \in Frame, Current(f), HeardOK(f), f.at \in InDriver,
           NEW outcome \in Outcome, Complete(f, outcome)
    PROVE  HeardNext
<1>1. CASE "complete" \in methods
  <2> DEFINE g == [f EXCEPT !.outcome = outcome]
             called == [g EXCEPT !.at = "complete", !.heard = Append(@, "complete")]
  <2>1. g \in Frame /\ Current(g) /\ g.at = f.at
    BY DEF Frame, Current, SameRequest
  <2>2. HeardOK(g)
    <3>1. g.heard = f.heard /\ g.at = f.at /\ g.seen = f.seen
      BY DEF Frame
    <3> QED BY <3>1 DEF HeardOK, InOrder
  <2>3. Call(g, "complete")
    BY <1>1 DEF Complete
  <2>4. Moves(called)
    BY <2>1, <2>3, CallMoves DEF Method
  <2> HIDE DEF g
  <2>5. HeardOK(called)
    BY <2>1, <2>2, CallHeard
  <2>6. called \in Frame
    BY <2>4 DEF Moves
  <2> HIDE DEF called
  <2> QED BY <2>4, <2>5, <2>6 DEF HeardNext
<1>2. CASE "complete" \notin methods
  BY <1>2 DEF Complete, HeardNext, Ends, Current
<1> QED BY <1>1, <1>2

LEMMA ProceedHeard ==
    ASSUME TypeInv, NEW f \in Frame, Current(f), HeardOK(f), f.at \in InDriver, Proceed(f)
    PROVE  HeardNext
<1>1. CASE swift
  BY <1>1, CompleteHeard DEF Proceed, Outcome
<1>2. CASE ~swift
  <2> DEFINE g == [f EXCEPT !.at = "poll"]
  <2>1. Moves(g)
    BY <1>2, PollOnMoves DEF Proceed
  <2>2. g.heard = f.heard /\ g.at = "poll" /\ g.seen = f.seen /\ g \in Frame
    BY DEF Frame
  <2> HIDE DEF g
  <2>3. HeardOK(g)
    BY <2>2 DEF HeardOK, InOrder, InDriver
  <2> QED BY <2>1, <2>2, <2>3 DEF HeardNext
<1> QED BY <1>1, <1>2

LEMMA RequestStepHeard ==
    ASSUME TypeInv, HeardInv, RequestSteps
    PROVE  HeardNext
<1> USE DEF Outcome
<1>0. ASSUME NEW place \in {"poll", "response", "data", "complete"}, At(place)
      PROVE  Top \in Frame /\ Current(Top) /\ Top.at = place /\ HeardOK(Top)
  <2>1. Len(stack) \in 1..Len(stack) /\ Top = stack[Len(stack)]
    BY <1>0, AtIs DEF Top
  <2> QED BY <1>0, <2>1, TopIsCurrent DEF HeardInv
<1>1. CASE GetResponse
  <2>1. /\ Top \in Frame /\ Top.at = "poll" /\ ~Top.seen /\ HeardOK(Top)
        /\ Responded \in Frame /\ Current(Responded)
        /\ Asking \in Frame /\ Current(Asking)
        /\ \/ "response" \in methods /\ Call(Asking, "response")
           \/ "response" \notin methods /\ Proceed(Responded)
    BY <1>0, <1>1, GetResponseIs DEF GetResponse, Polling
  <2>2. Top.heard = <<>> /\ Top.heard \in Seq(Method)
    BY <2>1 DEF HeardOK, InDriver, Frame
  <2>3. CASE "response" \in methods /\ Call(Asking, "response")
    <3> DEFINE g == [Asking EXCEPT !.at = "response", !.heard = Append(@, "response")]
    <3>1. Moves(g) /\ g \in Frame
      BY <2>1, <2>3, CallMoves DEF Method, Moves
    <3>2. Asking.heard = <<>> /\ Asking.seen
      BY <2>1, <2>2 DEF Asking, Responded, Frame
    <3>3. g.at = "response" /\ g.heard = <<"response">> /\ g.seen
      <4>1. g.at = "response" /\ g.heard = Append(Asking.heard, "response") /\ g.seen = Asking.seen
        BY <2>1 DEF Frame, Method
      <4>2. Append(<< >>, "response") = <<"response">>
        OBVIOUS
      <4> HIDE DEF g
      <4> QED BY <3>2, <4>1, <4>2
    <3> HIDE DEF g
    <3>4. DOMAIN g.heard = {1} /\ g.heard[1] = "response" /\ g.heard # <<>>
      BY <3>3
    <3>5. HeardOK(g)
      BY <3>3, <3>4 DEF HeardOK, InOrder
    <3> QED BY <3>1, <3>5 DEF HeardNext
  <2>4. CASE "response" \notin methods /\ Proceed(Responded)
    <3>1. Responded.heard = <<>> /\ Responded.at = "poll" /\ Responded.seen
      BY <2>1, <2>2 DEF Responded, Frame
    <3>2. HeardOK(Responded)
      BY <2>4, <3>1 DEF HeardOK, InOrder
    <3> QED BY <2>1, <2>4, <3>1, <3>2, ProceedHeard DEF InDriver
  <2> QED BY <2>1, <2>3, <2>4
<1>2. CASE GetChunk
  <2>1. /\ Top \in Frame /\ Top.at = "poll" /\ Top.seen /\ HeardOK(Top)
        /\ Delivered \in Frame /\ Current(Delivered)
        /\ Call(Delivered, "data") \/ Proceed(Delivered)
    BY <1>0, <1>2, GetChunkIs DEF GetChunk, Polling
  <2>2. Delivered.heard = Top.heard /\ Delivered.at = "poll" /\ Delivered.seen
    BY <2>1 DEF Delivered, Frame
  <2>3. HeardOK(Delivered)
    BY <2>1, <2>2 DEF HeardOK, InOrder
  <2>4. CASE Call(Delivered, "data")
    <3> DEFINE g == [Delivered EXCEPT !.at = "data", !.heard = Append(@, "data")]
    <3>1. Moves(g) /\ g \in Frame
      BY <2>1, <2>4, CallMoves DEF Method, Moves
    <3>2. HeardOK(g)
      BY <2>1, <2>2, <2>3, CallHeard DEF InDriver
    <3> HIDE DEF g
    <3> QED BY <3>1, <3>2 DEF HeardNext
  <2>5. CASE Proceed(Delivered)
    BY <2>1, <2>2, <2>3, <2>5, ProceedHeard DEF InDriver
  <2> QED BY <2>1, <2>4, <2>5
<1>3. CASE GetMalformed \/ EventCallbackTraps \/ CompleteReturns
  <2>1. \E place \in {"poll", "response", "data", "complete"} : At(place)
    BY <1>3 DEF GetMalformed, Polling, EventCallbackTraps, CompleteReturns
  <2>2. Top \in Frame /\ Current(Top) /\ Top.outcome \in Outcome
    BY <1>0, <2>1 DEF Frame
  <2>3. \E outcome \in Outcome : Settle(Below, Top, outcome)
    BY <1>3, <2>2 DEF GetMalformed, EventCallbackTraps, CompleteReturns
  <2> QED BY <2>2, <2>3 DEF HeardNext, Ends, Current
<1>4. ASSUME NEW outcome \in {"success", "failed"}, GetLast(outcome)
      PROVE  HeardNext
  <2>1. Top \in Frame /\ Current(Top) /\ Top.at = "poll" /\ HeardOK(Top)
    BY <1>0, <1>4 DEF GetLast, Polling
  <2>2. Settle(Below, Top, "bad") \/ Complete(Top, outcome)
    BY <1>4 DEF GetLast
  <2>3. CASE Settle(Below, Top, "bad")
    BY <2>1, <2>3 DEF HeardNext, Ends, Current
  <2> QED BY <2>1, <2>2, <2>3, CompleteHeard DEF InDriver
<1>5. CASE ResponseReturns
  <2>1. /\ Top \in Frame /\ Top.at = "response" /\ HeardOK(Top)
        /\ Decided \in Frame /\ Current(Decided)
        /\ Proceed(Decided) \/ Complete(Decided, "refused")
    BY <1>0, <1>5, ResponseReturnsIs DEF ResponseReturns
  <2>2. Decided.heard = Top.heard /\ Decided.at = Top.at /\ Decided.seen = Top.seen
    BY <2>1 DEF Decided, Frame
  <2>3. HeardOK(Decided)
    BY <2>1, <2>2 DEF HeardOK, InOrder
  <2> QED BY <2>1, <2>2, <2>3, ProceedHeard, CompleteHeard DEF InDriver
<1>6. CASE DataReturns
  BY <1>0, <1>6, ProceedHeard DEF DataReturns, InDriver
<1> QED BY <1>1, <1>2, <1>3, <1>4, <1>5, <1>6 DEF RequestSteps

LEMMA HeardStep == BoundOK /\ TypeInv /\ HeardInv /\ [Next]_vars => HeardInv'
<1> SUFFICES ASSUME BoundOK, TypeInv, HeardInv, [Next]_vars PROVE HeardInv'
  OBVIOUS
<1>0. Len(stack) \in Nat
  BY DEF TypeInv
<1>1. methods' = methods
  BY RequestStepIs, NextIs DEF Requested, Cancel, CancelSwift, Dispose, HandlerReturns, vars
<1>2. \A f : HeardOK(f)' <=> HeardOK(f)
  BY <1>1 DEF HeardOK, InOrder
<1>3. ASSUME NEW t \in Task, NEW via \in {"resume", "data"}, NEW outcome
      PROVE  HeardOK(NewFrame(t, via)) /\ HeardOK(InHandler(NewFrame(t, via), outcome))
  <2>1. NewFrame(t, via).heard = <<>> /\ ~NewFrame(t, via).seen
    BY DEF NewFrame
  <2>2. /\ InHandler(NewFrame(t, via), outcome).heard = <<>>
        /\ InHandler(NewFrame(t, via), outcome).at = "handler"
    BY DEF NewFrame, InHandler
  <2> QED BY <2>1, <2>2 DEF HeardOK, InOrder, InDriver
<1>4. ASSUME NEW t \in Task, NEW via \in {"resume", "data"}, Requested(t, via)
      PROVE  HeardInv'
  <2>1. CASE Starts(t, via)
    BY <1>0, <1>2, <1>3, <2>1, StartsIs DEF HeardInv, Stay
  <2>2. CASE Refused(t, via)
    BY <1>0, <1>2, <1>3, <2>2, RefusedIs DEF HeardInv, Stay
  <2> QED BY <1>4, <2>1, <2>2 DEF Requested
<1>5. ASSUME NEW t \in Task, Cancel(t) PROVE HeardInv'
  BY <1>2, <1>5 DEF Cancel, HeardInv
<1>6. CASE CancelSwift
  BY <1>2, <1>6 DEF CancelSwift, HeardInv
<1>7. ASSUME NEW token \in 1..slot.token, NEW d \in Disposition, Dispose(token, d)
      PROVE  HeardInv'
  <2>1. ASSUME NEW i \in 1..Len(stack) PROVE HeardOK(stack'[i])
    <3>1. stack[i] \in Frame /\ HeardOK(stack[i])
      BY DEF TypeInv, HeardInv
    <3>2. stack'[i] \in {stack[i], [stack[i] EXCEPT !.told = d]}
      BY <1>7, DisposeIs
    <3>3. /\ stack'[i].heard = stack[i].heard /\ stack'[i].at = stack[i].at
          /\ stack'[i].seen = stack[i].seen
      BY <3>1, <3>2 DEF Frame
    <3> QED BY <3>1, <3>3 DEF HeardOK, InOrder
  <2>2. Len(stack') = Len(stack)
    BY <1>7, DisposedFrames
  <2> QED BY <1>2, <2>1, <2>2 DEF HeardInv
<1>8. CASE RequestSteps
  <2>1. PICK f \in Frame :
           \/ Moves(f) /\ HeardOK(f)
           \/ \E outcome \in Outcome : Ends(f, outcome)
    BY <1>8, RequestStepHeard DEF HeardNext
  <2>2. CASE Moves(f) /\ HeardOK(f)
    BY <1>2, <2>2, MovesIs DEF HeardInv, Stay
  <2>3. ASSUME NEW outcome \in Outcome, Ends(f, outcome) PROVE HeardInv'
    <3>1. HeardOK(InHandler(f, outcome))
      <4>1. InHandler(f, outcome).heard = <<>> /\ InHandler(f, outcome).at = "handler"
        BY DEF InHandler, Frame
      <4> QED BY <4>1 DEF HeardOK, InOrder, InDriver
    <3> QED BY <1>2, <2>3, <3>1, EndsIs DEF HeardInv, Stay
  <2> QED BY <2>1, <2>2, <2>3
<1>9. ASSUME NEW trap \in BOOLEAN, HandlerReturns(trap) PROVE HeardInv'
  BY <1>2, <1>9, HandlerReturnsIs DEF HeardInv, Stay
<1>10. CASE UNCHANGED vars
  BY <1>2, <1>10 DEF vars, HeardInv
<1> QED BY <1>4, <1>5, <1>6, <1>7, <1>8, <1>9, <1>10, NextIs

\* Of one request a delegate hears of the response once and first, of data only
\* after it, and of nothing after didCompleteWithError, whatever it does in
\* between (urlsession.rs, run_event_driver).
THEOREM CallbacksInOrder == Spec => []CallbackOrder
<1>1. Init => HeardInv
  BY DEF Init, HeardInv
<1>2. TypeInv /\ HeardInv => CallbackOrder
  <2> SUFFICES ASSUME TypeInv, HeardInv, NEW f \in Frames PROVE InOrder(f)
    BY DEF CallbackOrder, InOrder
  <2>1. PICK i \in 1..Len(stack) : f = stack[i]
    BY DEF Frames, TypeInv
  <2> QED BY <2>1 DEF HeardInv, HeardOK
<1> QED BY <1>1, <1>2, TypeInit, TypeStep, BoundOK, HeardStep, PTL DEF Spec
-----------------------------------------------------------------------------
(* The answer to the response callback                                     *)

\* The decision of a request that has taken its answer, or needed none.
Honours(f, outcome) ==
    /\ ~f.seen => f.allow /\ f.told = "none"
    /\ f.seen /\ outcome # "trapped" /\ f.alone => f.allow = (f.told # "cancel")

\* Until then the slot has its callback's answer, while that is the newest.
DecisionOK(f) ==
    /\ ~f.seen => f.allow /\ f.told = "none"
    /\ f.at = "response" =>
          f.seen /\ f.token <= slot.token /\ (f.token = slot.token => f.told = slot.value)
    /\ f.at # "response" => Honours(f, f.outcome)
    /\ f.at \in InDriver => f.outcome = "success"

\* The callbacks in progress have been given tokens in the order they nest.
DecisionInv ==
    /\ \A i \in 1..Len(stack) : DecisionOK(stack[i])
    /\ \A i, j \in 1..Len(stack) :
          i < j /\ stack[i].at = "response" /\ stack[j].at = "response"
            => stack[i].token < stack[j].token

\* The slot stays, or the callback that returns has read and emptied it.
SlotRead == slot' = slot \/ (Top.at = "response" /\ slot' = [slot EXCEPT !.value = "none"])

\* The innermost request is asked, has decided, or is over.
DecisionNext ==
    \E f \in Frame :
       \/ /\ Moves(f) /\ f.outcome = "success" /\ f.seen /\ f.at = "response"
          /\ f.told = "none" /\ f.token = slot.token + 1 /\ slot' = Allocated
       \/ /\ Moves(f) /\ f.at # "response" /\ Honours(f, f.outcome)
          /\ f.at \in InDriver => f.outcome = "success"
          /\ SlotRead
       \/ /\ \E outcome \in Outcome : Ends(f, outcome) /\ Honours(f, outcome)
          /\ SlotRead

LEMMA CompleteDecides ==
    ASSUME TypeInv, NEW f \in Frame, Current(f), NEW outcome \in Outcome, Complete(f, outcome),
           Honours(f, "success"), SlotRead
    PROVE  DecisionNext
<1>1. CASE "complete" \in methods
  <2> DEFINE g == [f EXCEPT !.outcome = outcome]
             called == [g EXCEPT !.at = "complete", !.heard = Append(@, "complete")]
  <2>1. g \in Frame /\ Current(g)
    BY DEF Frame, Current, SameRequest
  <2>2. Call(g, "complete")
    BY <1>1 DEF Complete
  <2>3. Moves(called)
    BY <2>1, <2>2, CallMoves DEF Method
  <2>4. /\ called.outcome = outcome /\ called.at = "complete" /\ called.seen = f.seen
        /\ called.allow = f.allow /\ called.told = f.told /\ called.alone = f.alone
    BY DEF Frame
  <2>5. called \in Frame
    BY <2>3 DEF Moves
  <2> HIDE DEF g, called
  <2>6. Honours(called, called.outcome)
    BY <2>4 DEF Honours
  <2> QED BY <2>3, <2>4, <2>5, <2>6 DEF DecisionNext, InDriver
<1>2. CASE "complete" \notin methods
  <2>1. Ends(f, outcome)
    BY <1>2 DEF Complete, Ends, Current
  <2>2. Honours(f, outcome)
    BY DEF Honours
  <2> QED BY <2>1, <2>2 DEF DecisionNext
<1> QED BY <1>1, <1>2

LEMMA ProceedDecides ==
    ASSUME TypeInv, NEW f \in Frame, Current(f), Proceed(f), Honours(f, "success"),
           f.outcome = "success", SlotRead
    PROVE  DecisionNext
<1>1. CASE swift
  BY <1>1, CompleteDecides DEF Proceed, Outcome
<1>2. CASE ~swift
  <2> DEFINE g == [f EXCEPT !.at = "poll"]
  <2>1. Moves(g)
    BY <1>2, PollOnMoves DEF Proceed
  <2>2. /\ g \in Frame /\ g.at = "poll" /\ g.outcome = "success" /\ g.seen = f.seen
        /\ g.allow = f.allow /\ g.told = f.told /\ g.alone = f.alone
    BY DEF Frame
  <2> HIDE DEF g
  <2>3. Honours(g, g.outcome)
    BY <2>2 DEF Honours
  <2> QED BY <2>1, <2>2, <2>3 DEF DecisionNext
<1> QED BY <1>1, <1>2

LEMMA EndDecides ==
    ASSUME TypeInv, Top \in Frame, Current(Top), NEW outcome \in Outcome,
           Settle(Below, Top, outcome), Honours(Top, outcome), SlotRead
    PROVE  DecisionNext
BY DEF DecisionNext, Ends, Current

LEMMA RequestStepDecides ==
    ASSUME TypeInv, DecisionInv, RequestSteps
    PROVE  DecisionNext
<1> USE DEF Outcome
<1>0. ASSUME NEW place \in {"poll", "response", "data", "complete"}, At(place)
      PROVE  Top \in Frame /\ Current(Top) /\ Top.at = place /\ DecisionOK(Top)
  <2>1. Len(stack) \in 1..Len(stack) /\ Top = stack[Len(stack)]
    BY <1>0, AtIs DEF Top
  <2> QED BY <1>0, <2>1, TopIsCurrent DEF DecisionInv
<1>1. CASE GetResponse
  <2>1. /\ Top \in Frame /\ Top.at = "poll" /\ ~Top.seen /\ DecisionOK(Top)
        /\ Responded \in Frame /\ Current(Responded)
        /\ Asking \in Frame /\ Current(Asking)
        /\ \/ Call(Asking, "response") /\ slot' = Allocated
           \/ Proceed(Responded) /\ slot' = slot
    BY <1>0, <1>1, GetResponseIs DEF GetResponse, Polling
  <2>2. Top.allow /\ Top.told = "none" /\ Top.outcome = "success"
    BY <2>1 DEF DecisionOK, InDriver
  <2>3. CASE Call(Asking, "response") /\ slot' = Allocated
    <3> DEFINE g == [Asking EXCEPT !.at = "response", !.heard = Append(@, "response")]
    <3>1. Moves(g) /\ g \in Frame
      BY <2>1, <2>3, CallMoves DEF Method, Moves
    <3>2. /\ Asking.seen /\ Asking.told = "none" /\ Asking.token = slot.token + 1
          /\ Asking.outcome = "success"
      BY <2>1, <2>2 DEF Asking, Responded, Frame
    <3>3. /\ g.at = "response" /\ g.seen = Asking.seen /\ g.told = Asking.told
          /\ g.token = Asking.token /\ g.outcome = Asking.outcome
      BY <2>1 DEF Frame
    <3> HIDE DEF g
    <3> QED BY <2>3, <3>1, <3>2, <3>3 DEF DecisionNext
  <2>4. CASE Proceed(Responded) /\ slot' = slot
    <3>1. /\ Responded.allow = Top.allow /\ Responded.told = Top.told
          /\ Responded.outcome = Top.outcome /\ Responded.seen
      BY <2>1 DEF Responded, Frame
    <3>2. Top.allow = TRUE
      BY <2>1, <2>2 DEF Frame
    <3>3. Honours(Responded, "success")
      BY <2>2, <3>1, <3>2 DEF Honours
    <3> QED BY <2>1, <2>2, <2>4, <3>1, <3>3, ProceedDecides DEF SlotRead
  <2> QED BY <2>1, <2>3, <2>4
<1>2. CASE GetChunk
  <2>1. /\ Top \in Frame /\ Top.at = "poll" /\ DecisionOK(Top) /\ slot' = slot
        /\ Delivered \in Frame /\ Current(Delivered)
        /\ Call(Delivered, "data") \/ Proceed(Delivered)
    BY <1>0, <1>2, GetChunkIs DEF GetChunk, Polling
  <2>2. /\ Delivered.seen = Top.seen /\ Delivered.allow = Top.allow /\ Delivered.told = Top.told
        /\ Delivered.alone = Top.alone /\ Delivered.outcome = Top.outcome
    BY <2>1 DEF Delivered, Frame
  <2>3. Honours(Delivered, "success") /\ Delivered.outcome = "success"
    BY <2>1, <2>2 DEF DecisionOK, Honours, InDriver
  <2>4. CASE Call(Delivered, "data")
    <3> DEFINE g == [Delivered EXCEPT !.at = "data", !.heard = Append(@, "data")]
    <3>1. Moves(g) /\ g \in Frame
      BY <2>1, <2>4, CallMoves DEF Method, Moves
    <3>2. /\ g.at = "data" /\ g.outcome = Delivered.outcome /\ g.seen = Delivered.seen
          /\ g.allow = Delivered.allow /\ g.told = Delivered.told /\ g.alone = Delivered.alone
      BY <2>1 DEF Frame
    <3> HIDE DEF g
    <3>3. Honours(g, g.outcome)
      BY <2>3, <3>2 DEF Honours
    <3> QED BY <2>1, <2>3, <3>1, <3>2, <3>3 DEF DecisionNext, SlotRead
  <2>5. CASE Proceed(Delivered)
    BY <2>1, <2>3, <2>5, ProceedDecides DEF SlotRead
  <2> QED BY <2>1, <2>4, <2>5
<1>3. CASE GetMalformed
  <2>1. Top \in Frame /\ Current(Top) /\ Top.at = "poll" /\ DecisionOK(Top)
    BY <1>0, <1>3 DEF GetMalformed, Polling
  <2>2. Honours(Top, "bad")
    BY <2>1 DEF DecisionOK, Honours, InDriver
  <2> QED BY <1>3, <2>1, <2>2, EndDecides DEF GetMalformed, SlotRead
<1>4. ASSUME NEW outcome \in {"success", "failed"}, GetLast(outcome)
      PROVE  DecisionNext
  <2>1. Top \in Frame /\ Current(Top) /\ Top.at = "poll" /\ DecisionOK(Top)
    BY <1>0, <1>4 DEF GetLast, Polling
  <2>2. (Settle(Below, Top, "bad") \/ Complete(Top, outcome)) /\ slot' = slot
    BY <1>4 DEF GetLast
  <2>3. Honours(Top, "success") /\ Honours(Top, "bad")
    BY <2>1 DEF DecisionOK, Honours, InDriver
  <2>4. CASE Settle(Below, Top, "bad")
    BY <2>1, <2>2, <2>3, <2>4, EndDecides DEF SlotRead
  <2> QED BY <2>1, <2>2, <2>3, <2>4, CompleteDecides DEF SlotRead
<1>5. CASE ResponseReturns
  <2>1. /\ Top \in Frame /\ Top.at = "response" /\ DecisionOK(Top)
        /\ Decided \in Frame /\ Current(Decided) /\ slot' = [slot EXCEPT !.value = "none"]
        /\ Proceed(Decided) \/ Complete(Decided, "refused")
    BY <1>0, <1>5, ResponseReturnsIs DEF ResponseReturns
  <2>2. /\ Decided.seen = Top.seen /\ Decided.told = Top.told /\ Decided.outcome = Top.outcome
        /\ Decided.allow = (slot.value # "cancel") /\ Decided.alone = (Top.token = slot.token)
    BY <2>1 DEF Decided, Frame
  <2>3. Honours(Decided, "success") /\ Decided.outcome = "success"
    BY <2>1, <2>2 DEF DecisionOK, Honours, InDriver
  <2> QED BY <2>1, <2>3, ProceedDecides, CompleteDecides DEF SlotRead
<1>6. CASE DataReturns
  <2>1. Top \in Frame /\ Current(Top) /\ Top.at = "data" /\ DecisionOK(Top)
    BY <1>0, <1>6 DEF DataReturns
  <2>2. Honours(Top, "success") /\ Top.outcome = "success"
    BY <2>1 DEF DecisionOK, Honours, InDriver
  <2> QED BY <1>6, <2>1, <2>2, ProceedDecides DEF DataReturns, SlotRead
<1>7. CASE EventCallbackTraps
  <2>1. Top \in Frame /\ Current(Top) /\ Top.at \in {"response", "data"} /\ DecisionOK(Top)
    BY <1>0, <1>7 DEF EventCallbackTraps
  <2>2. Honours(Top, "trapped")
    BY <2>1 DEF DecisionOK, Honours
  <2> QED BY <1>7, <2>1, <2>2, EndDecides DEF EventCallbackTraps, SlotRead
<1>8. CASE CompleteReturns
  <2>1. /\ Top \in Frame /\ Current(Top) /\ Top.at = "complete" /\ DecisionOK(Top)
        /\ Top.outcome \in Outcome
    BY <1>0, <1>8 DEF CompleteReturns, Frame
  <2>2. Honours(Top, Top.outcome)
    BY <2>1 DEF DecisionOK
  <2> QED BY <1>8, <2>1, <2>2, EndDecides DEF CompleteReturns, SlotRead
<1> QED BY <1>1, <1>2, <1>3, <1>4, <1>5, <1>6, <1>7, <1>8 DEF RequestSteps

\* A step of the innermost request leaves the answers of the others alone.
LEMMA RequestKeepsDecisions ==
    ASSUME TypeInv, DecisionInv, DecisionNext
    PROVE  DecisionInv'
<1>1. PICK f \in Frame :
         \/ /\ Moves(f) /\ f.outcome = "success" /\ f.seen /\ f.at = "response"
            /\ f.told = "none" /\ f.token = slot.token + 1 /\ slot' = Allocated
         \/ /\ Moves(f) /\ f.at # "response" /\ Honours(f, f.outcome)
            /\ f.at \in InDriver => f.outcome = "success"
            /\ SlotRead
         \/ /\ \E outcome \in Outcome : Ends(f, outcome) /\ Honours(f, outcome)
            /\ SlotRead
  BY DEF DecisionNext
<1>2. /\ Len(stack) \in Nat \ {0} /\ Stay(Len(stack) - 1) /\ Top = stack[Len(stack)]
      /\ \/ Moves(f) /\ Len(stack') = Len(stack) /\ stack'[Len(stack)] = f
         \/ \E outcome \in Outcome : Ends(f, outcome)
  BY <1>1, MovesIs, EndsIs DEF Top
<1>3. slot.token \in Nat /\ slot'.token \in {slot.token, slot.token + 1}
  BY <1>1 DEF SlotRead, Allocated, TypeInv
<1>4. \A i \in 1..Len(stack) : stack[i].token \in Nat
  <2> TAKE i \in 1..Len(stack)
  <2>1. stack[i] \in Frame
    BY DEF TypeInv
  <2> QED BY <2>1 DEF Frame
\* The frames under it.
<1>5. ASSUME NEW i \in 1..(Len(stack) - 1)
      PROVE  DecisionOK(stack[i])'
  <2>1. DecisionOK(stack[i]) /\ stack'[i] = stack[i]
    BY <1>2 DEF DecisionInv, Stay
  <2>2. CASE stack[i].at # "response"
    BY <2>1, <2>2 DEF DecisionOK, Honours
  <2>3. CASE stack[i].at = "response"
    <3>1. stack[i].seen /\ stack[i].token <= slot.token
      BY <2>1, <2>3 DEF DecisionOK
    <3>2. CASE slot' = slot
      BY <2>1, <3>2 DEF DecisionOK, Honours
    <3>3. CASE slot' = Allocated
      <4>1. stack[i].token < slot'.token
        BY <1>3, <1>4, <3>1, <3>3 DEF Allocated
      <4> QED BY <1>3, <1>4, <2>1, <2>3, <3>1, <4>1 DEF DecisionOK
    <3>4. CASE Top.at = "response" /\ slot' = [slot EXCEPT !.value = "none"]
      <4>1. stack[i].token < Top.token /\ Top.token <= slot.token
        BY <1>2, <2>3, <3>4 DEF DecisionInv, DecisionOK
      <4>2. slot'.token = slot.token
        BY <3>4 DEF TypeInv
      <4>3. stack[i].token < slot'.token
        BY <1>2, <1>3, <1>4, <4>1, <4>2
      <4> QED BY <1>3, <1>4, <2>1, <2>3, <3>1, <4>3 DEF DecisionOK
    <3> QED BY <1>1, <3>2, <3>3, <3>4 DEF SlotRead
  <2> QED BY <2>2, <2>3
\* The frame itself, and the order of the tokens.
<1>6. ASSUME NEW j \in 1..(Len(stack) - 1), NEW i \in 1..(j - 1),
             stack'[i].at = "response", stack'[j].at = "response"
      PROVE  stack'[i].token < stack'[j].token
  <2>1. i \in 1..Len(stack) /\ j \in 1..Len(stack) /\ i < j /\ i \in 1..(Len(stack) - 1)
    BY <1>2
  <2> QED BY <1>2, <1>6, <2>1 DEF DecisionInv, Stay
<1>7. ASSUME /\ Moves(f) /\ f.outcome = "success" /\ f.seen /\ f.at = "response"
             /\ f.told = "none" /\ f.token = slot.token + 1 /\ slot' = Allocated
      PROVE  DecisionInv'
  <2>1. Len(stack') = Len(stack) /\ stack'[Len(stack)] = f
    BY <1>7, MovesIs
  <2>2. DecisionOK(f)'
    BY <1>3, <1>7 DEF DecisionOK, Allocated
  <2>3. \A i \in 1..Len(stack') : DecisionOK(stack[i])'
    BY <1>2, <1>5, <2>1, <2>2
  <2>4. ASSUME NEW i \in 1..(Len(stack) - 1), stack'[i].at = "response"
        PROVE  stack'[i].token < f.token
    <3>1. stack'[i] = stack[i] /\ stack[i].token <= slot.token
      BY <1>2, <2>4 DEF DecisionInv, DecisionOK, Stay
    <3> QED BY <1>2, <1>3, <1>4, <1>7, <3>1
  <2> QED BY <1>2, <1>6, <2>1, <2>3, <2>4 DEF DecisionInv
<1>8. ASSUME /\ Moves(f) /\ f.at # "response" /\ Honours(f, f.outcome)
             /\ f.at \in InDriver => f.outcome = "success"
      PROVE  DecisionInv'
  <2>1. Len(stack') = Len(stack) /\ stack'[Len(stack)] = f
    BY <1>8, MovesIs
  <2>2. DecisionOK(f)'
    BY <1>8 DEF DecisionOK, Honours
  <2>3. \A i \in 1..Len(stack') : DecisionOK(stack[i])'
    BY <1>2, <1>5, <2>1, <2>2
  <2> QED BY <1>2, <1>6, <1>8, <2>1, <2>3 DEF DecisionInv
<1>9. ASSUME NEW outcome \in Outcome, Ends(f, outcome), Honours(f, outcome)
      PROVE  DecisionInv'
  <2>1. \/ Len(stack') = Len(stack) - 1
        \/ /\ Len(stack') = Len(stack)
           /\ stack'[Len(stack)] = InHandler(f, outcome)
           /\ stack'[Len(stack)].at = "handler"
    BY <1>9, EndsIs
  <2>2. DecisionOK(InHandler(f, outcome))'
    <3>1. /\ InHandler(f, outcome).at = "handler" /\ InHandler(f, outcome).outcome = outcome
          /\ InHandler(f, outcome).seen = f.seen /\ InHandler(f, outcome).allow = f.allow
          /\ InHandler(f, outcome).told = f.told /\ InHandler(f, outcome).alone = f.alone
      BY DEF InHandler, Frame
    <3> QED BY <1>9, <3>1 DEF DecisionOK, Honours, InDriver
  <2>3. \A i \in 1..Len(stack') : DecisionOK(stack[i])'
    BY <1>2, <1>5, <2>1, <2>2
  <2> QED BY <1>2, <1>6, <2>1, <2>3 DEF DecisionInv
<1> QED BY <1>1, <1>7, <1>8, <1>9

LEMMA DecisionStep == BoundOK /\ TypeInv /\ DecisionInv /\ [Next]_vars => DecisionInv'
<1> SUFFICES ASSUME BoundOK, TypeInv, DecisionInv, [Next]_vars PROVE DecisionInv'
  OBVIOUS
<1>0. Len(stack) \in Nat
  BY DEF TypeInv
<1>1. slot' = slot => \A f : DecisionOK(f)' <=> DecisionOK(f)
  BY DEF DecisionOK, Honours
<1>2. ASSUME NEW t \in Task, NEW via \in {"resume", "data"}, NEW outcome
      PROVE  /\ DecisionOK(NewFrame(t, via)) /\ NewFrame(t, via).at # "response"
             /\ DecisionOK(InHandler(NewFrame(t, via), outcome))
  <2>1. /\ ~NewFrame(t, via).seen /\ NewFrame(t, via).allow /\ NewFrame(t, via).told = "none"
        /\ NewFrame(t, via).at = "poll" /\ NewFrame(t, via).outcome = "success"
    BY DEF NewFrame
  <2>2. LET g == InHandler(NewFrame(t, via), outcome) IN
        ~g.seen /\ g.allow /\ g.told = "none" /\ g.at = "handler"
    BY DEF NewFrame, InHandler
  <2> QED BY <2>1, <2>2 DEF DecisionOK, Honours, InDriver
<1>3. ASSUME slot' = slot, Len(stack') = Len(stack) + 1, Stay(Len(stack)),
             DecisionOK(stack'[Len(stack) + 1]), stack'[Len(stack) + 1].at # "response"
      PROVE  DecisionInv'
  <2>1. \A i \in 1..Len(stack) : stack'[i] = stack[i]
    BY <1>0, <1>3 DEF Stay
  <2>2. \A i \in 1..Len(stack') : DecisionOK(stack'[i])
    <3>1. \A i \in 1..Len(stack) : DecisionOK(stack[i])
      BY DEF DecisionInv
    <3> QED BY <1>0, <1>3, <2>1, <3>1
  <2>3. \A i \in 1..Len(stack') : DecisionOK(stack[i])'
    BY <1>1, <1>3, <2>2
  <2>4. \A i, j \in 1..Len(stack') :
           i < j /\ stack'[i].at = "response" /\ stack'[j].at = "response"
             => stack'[i].token < stack'[j].token
    <3>1. \A i, j \in 1..Len(stack) :
             i < j /\ stack[i].at = "response" /\ stack[j].at = "response"
               => stack[i].token < stack[j].token
      BY DEF DecisionInv
    <3> QED BY <1>0, <1>3, <2>1, <3>1
  <2> QED BY <2>3, <2>4 DEF DecisionInv
<1>4. ASSUME NEW t \in Task, NEW via \in {"resume", "data"}, Requested(t, via)
      PROVE  DecisionInv'
  <2>0. slot' = slot
    BY <1>4 DEF Requested
  <2>1. CASE Starts(t, via)
    <3>1. /\ Len(stack') = Len(stack) + 1 /\ Stay(Len(stack))
          /\ stack'[Len(stack) + 1] = NewFrame(t, via)
      BY <2>1, StartsIs
    <3>2. DecisionOK(stack'[Len(stack) + 1]) /\ stack'[Len(stack) + 1].at # "response"
      BY <1>2, <3>1
    <3> QED BY <1>3, <2>0, <3>1, <3>2
  <2>2. CASE Refused(t, via)
    <3>1. \/ stack' = stack
          \/ /\ Len(stack') = Len(stack) + 1 /\ Stay(Len(stack))
             /\ stack'[Len(stack) + 1].at = "handler"
             /\ \E outcome \in Outcome :
                   stack'[Len(stack) + 1] = InHandler(NewFrame(t, via), outcome)
      BY <2>2, RefusedIs
    <3>2. CASE stack' = stack
      BY <1>1, <2>0, <3>2 DEF DecisionInv
    <3>3. CASE \E outcome \in Outcome :
                  /\ Len(stack') = Len(stack) + 1 /\ Stay(Len(stack))
                  /\ stack'[Len(stack) + 1].at = "handler"
                  /\ stack'[Len(stack) + 1] = InHandler(NewFrame(t, via), outcome)
      <4>1. DecisionOK(stack'[Len(stack) + 1]) /\ stack'[Len(stack) + 1].at # "response"
        BY <1>2, <3>3
      <4> QED BY <1>3, <2>0, <3>3, <4>1
    <3> QED BY <3>1, <3>2, <3>3
  <2> QED BY <1>4, <2>1, <2>2 DEF Requested
<1>5. ASSUME NEW t \in Task, Cancel(t) PROVE DecisionInv'
  BY <1>1, <1>5 DEF Cancel, DecisionInv
<1>6. CASE CancelSwift
  BY <1>1, <1>6 DEF CancelSwift, DecisionInv
<1>7. ASSUME NEW token \in 1..slot.token, NEW d \in Disposition, Dispose(token, d)
      PROVE  DecisionInv'
  <2>1. slot' = IF token = slot.token THEN [slot EXCEPT !.value = d] ELSE slot
    BY <1>7 DEF Dispose
  <2>2. slot'.token = slot.token /\ slot'.value = IF token = slot.token THEN d ELSE slot.value
    BY <2>1 DEF TypeInv
  <2>3. ASSUME NEW i \in 1..Len(stack)
        PROVE  /\ stack'[i].token = stack[i].token /\ stack'[i].at = stack[i].at
               /\ DecisionOK(stack[i])' /\ stack'[i].token \in Nat
    <3>1. stack[i] \in Frame /\ DecisionOK(stack[i]) /\ i \in DOMAIN stack
      BY DEF TypeInv, DecisionInv
    <3>2. stack'[i] = IF stack[i].token = token /\ stack[i].at = "response"
                      THEN [stack[i] EXCEPT !.told = d] ELSE stack[i]
      BY <1>7, <3>1, DisposeIs
    <3>3. /\ stack'[i].token = stack[i].token /\ stack'[i].at = stack[i].at
          /\ stack'[i].seen = stack[i].seen /\ stack'[i].outcome = stack[i].outcome
          /\ stack'[i].allow = stack[i].allow /\ stack'[i].alone = stack[i].alone
          /\ stack'[i].told = IF stack[i].token = token /\ stack[i].at = "response"
                              THEN d ELSE stack[i].told
          /\ stack'[i].token \in Nat
      BY <3>1, <3>2 DEF Frame
    <3> QED BY <2>2, <3>1, <3>3 DEF DecisionOK, Honours
  <2>4. Len(stack') = Len(stack)
    BY <1>7, DisposedFrames
  <2> QED BY <2>3, <2>4 DEF DecisionInv
<1>8. CASE RequestSteps
  BY <1>8, RequestStepDecides, RequestKeepsDecisions
<1>9. ASSUME NEW trap \in BOOLEAN, HandlerReturns(trap) PROVE DecisionInv'
  <2>1. slot' = slot
    BY <1>9 DEF HandlerReturns
  <2> QED BY <1>1, <1>9, <2>1, HandlerReturnsIs DEF DecisionInv, Stay
<1>10. CASE UNCHANGED vars
  BY <1>1, <1>10 DEF vars, DecisionInv
<1> QED BY <1>4, <1>5, <1>6, <1>7, <1>8, <1>9, <1>10, NextIs

\* A response is refused if and only if its own callback's last answer was to
\* cancel, whichever older answers come late, as long as no response callback
\* nested in it has taken the one slot (urlsession.rs:728).
THEOREM Dispositions == Spec => []DispositionHonoured
<1>1. Init => DecisionInv
  BY DEF Init, DecisionInv
<1>2. TypeInv /\ DecisionInv => DispositionHonoured
  <2> SUFFICES ASSUME TypeInv, DecisionInv, NEW f \in Frames,
                      f.seen, f.at # "response", f.outcome # "trapped", f.alone
               PROVE  f.allow = (f.told # "cancel")
    BY DEF DispositionHonoured
  <2>1. PICK i \in 1..Len(stack) : f = stack[i]
    BY DEF Frames, TypeInv
  <2> QED BY <2>1 DEF DecisionInv, DecisionOK, Honours
<1> QED BY <1>1, <1>2, TypeInit, TypeStep, BoundOK, DecisionStep, PTL DEF Spec
=============================================================================
