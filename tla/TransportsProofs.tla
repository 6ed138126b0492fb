--------------------------- MODULE TransportsProofs ---------------------------
(***************************************************************************)
(* The streaming transport keeps its promises for any number of requests,  *)
(* any chunks and any number of pushes; and every transport implements the *)
(* seam: what the interpreter sees of it is a behaviour of EventStream,    *)
(* for any requests, any bodies, and any interleaving with the host's      *)
(* threads.                                                                *)
(***************************************************************************)
EXTENDS Transports, TLAPS

-----------------------------------------------------------------------------
(* Sequences                                                               *)

LEMMA Appended ==
    ASSUME NEW S, NEW s \in Seq(S), NEW e \in S
    PROVE  /\ Append(s, e) \in Seq(S)
           /\ Len(Append(s, e)) = Len(s) + 1
           /\ DOMAIN Append(s, e) = 1..(Len(s) + 1)
           /\ \A i \in DOMAIN s : Append(s, e)[i] = s[i]
           /\ Append(s, e)[Len(s) + 1] = e
OBVIOUS

LEMMA Taken ==
    ASSUME NEW S, NEW s \in Seq(S), s # <<>>
    PROVE  /\ Tail(s) \in Seq(S) /\ Head(s) \in S
           /\ 1 \in DOMAIN s /\ Head(s) = s[1]
           /\ Len(s) \in Nat /\ Len(s) >= 1
           /\ Len(Tail(s)) = Len(s) - 1
           /\ \A i \in DOMAIN Tail(s) : i + 1 \in DOMAIN s /\ Tail(s)[i] = s[i + 1]
OBVIOUS

LEMMA OneMore ==
    ASSUME NEW a \in Nat, NEW b \in Nat, NEW c \in Nat, c = a + b
    PROVE  c + 1 = a + (b + 1)
OBVIOUS

LEMMA OneMoved ==
    ASSUME NEW a \in Nat, NEW b \in Nat
    PROVE  /\ (a + 1) + b = a + (b + 1)
           /\ b >= 1 => a + b = (a + 1) + (b - 1)
OBVIOUS

LEMMA OneLess ==
    ASSUME NEW a \in Nat, a >= 1, a # 1
    PROVE  a - 1 \in 1..(a - 1)
OBVIOUS

LEMMA Domains == \A S : \A s \in Seq(S) : Len(s) \in Nat /\ DOMAIN s = 1..Len(s)
OBVIOUS
-----------------------------------------------------------------------------
(* The inductive invariant: what one request's queue, handle and history   *)
(* have to do with each other.                                             *)

MadeUp == {"cancelled", "timedOut"}

\* A token without a pending handle has a closed queue.
Closed(t) ==
    /\ t \in pending => t \in tokens
    /\ t \in tokens => t \in issued
    /\ t \in tokens /\ t \notin pending => terminal[t]

\* A request not yet started has left no trace.
Fresh(t) ==
    t \notin issued => /\ queue[t] = <<>> /\ ~terminal[t]
                       /\ sent[t] = <<>> /\ got[t] = <<>>

Awaits(t) ==
    /\ \A i \in DOMAIN queue[t] : queue[t][i] \in Terminal => i = Len(queue[t])
    /\ t \in pending => (terminal[t] <=> TerminalAt(queue[t], Len(queue[t])))

Returned(t) ==
    \A i \in DOMAIN got[t] : got[t][i] \in Terminal => i = Len(got[t]) /\ t \notin pending

InStep(t) ==
    \A i \in DOMAIN got[t] :
        \/ i \in DOMAIN sent[t] /\ got[t][i] = sent[t][i]
        \/ got[t][i] \in MadeUp

\* What is queued continues what was returned.
Continues(t) ==
    /\ t \in tokens /\ ~terminal[t] => Len(sent[t]) = Len(got[t]) + Len(queue[t])
    /\ t \in pending =>
          \A i \in DOMAIN queue[t] :
              \/ Len(got[t]) + i \in DOMAIN sent[t]
                 /\ queue[t][i] = sent[t][Len(got[t]) + i]
              \/ queue[t][i] \in MadeUp

\* A failure made up on this side has its cause.
Caused(t) ==
    /\ \A i \in DOMAIN got[t] : /\ got[t][i] = "timedOut" => expired[t]
                                /\ got[t][i] = "cancelled" => t \in cancelled
    /\ \A i \in DOMAIN queue[t] : /\ queue[t][i] = "timedOut" => expired[t]
                                  /\ queue[t][i] = "cancelled" => t \in cancelled

\* The call the interpreter is in is for a pending handle, and it has given
\* up only after the deadline.
CallSound ==
    /\ call.at = "idle" => call = Idle
    /\ call.at # "idle" => call.task \in pending
    /\ call.at = "timedOut" => expired[call.task]
    /\ call.at = "asleep" => queue[call.task] = <<>>

Sound(t) ==
    Closed(t) /\ Fresh(t) /\ Awaits(t) /\ Returned(t) /\ InStep(t) /\ Continues(t) /\ Caused(t)

StreamInv == TypeOK /\ CallSound /\ \A t \in Task : Sound(t)
-----------------------------------------------------------------------------
(* A step leaves the requests alone that it is not about.                  *)

Untouched(u) ==
    /\ u \in tokens' <=> u \in tokens
    /\ u \in pending' <=> u \in pending
    /\ u \in issued' <=> u \in issued
    /\ u \in cancelled => u \in cancelled'
    /\ expired[u] => expired'[u]
    /\ queue'[u] = queue[u] /\ terminal'[u] = terminal[u]
    /\ sent'[u] = sent[u] /\ got'[u] = got[u]

LEMMA Kept ==
    ASSUME NEW u \in Task, Sound(u), Untouched(u)
    PROVE  Sound(u)'
<1>1. Closed(u)' /\ Fresh(u)'
  BY DEF Sound, Untouched, Closed, Fresh
<1>2. Awaits(u)' /\ Returned(u)'
  BY DEF Sound, Untouched, Awaits, Returned, TerminalAt
<1>3. InStep(u)' /\ Continues(u)'
  BY DEF Sound, Untouched, InStep, Continues
<1>4. Caused(u)'
  BY DEF Sound, Untouched, Caused
<1> QED BY <1>1, <1>2, <1>3, <1>4 DEF Sound

LEMMA InitSound == Init => StreamInv
<1> SUFFICES ASSUME Init PROVE StreamInv
  OBVIOUS
<1>1. TypeOK
  BY DEF Init, TypeOK, Idle, Place
<1>2. CallSound
  BY DEF Init, CallSound, Idle
<1>3. ASSUME NEW t \in Task PROVE Sound(t)
  BY DEF Init, Sound, Closed, Fresh, Awaits, Returned, InStep, Continues, Caused,
         TerminalAt
<1> QED BY <1>1, <1>2, <1>3 DEF StreamInv

LEMMA StartSound ==
    ASSUME StreamInv, NEW t \in Task, Start(t)
    PROVE  StreamInv'
<1>1. TypeOK'
  BY DEF StreamInv, TypeOK, Start, queueVars
<1>2. CallSound'
  BY DEF StreamInv, CallSound, Start, queueVars, Idle
<1>3. ASSUME NEW u \in Task PROVE Sound(u)'
  <2>1. Sound(u) BY DEF StreamInv
  <2>2. CASE u # t
    BY <2>1, <2>2, Kept DEF Start, queueVars, Untouched
  <2>3. CASE u = t
    <3>1. /\ queue'[t] = <<>> /\ ~terminal'[t] /\ sent'[t] = <<>> /\ got'[t] = <<>>
          /\ t \in tokens' /\ t \in pending' /\ t \in issued'
      BY <2>1, <2>3 DEF Start, queueVars, Sound, Fresh
    <3>2. Closed(t)' /\ Fresh(t)' /\ Awaits(t)' /\ Returned(t)'
      BY <3>1 DEF Closed, Fresh, Awaits, Returned, TerminalAt
    <3>3. InStep(t)' /\ Continues(t)' /\ Caused(t)'
      BY <3>1 DEF InStep, Continues, Caused
    <3> QED BY <2>3, <3>2, <3>3 DEF Sound
  <2> QED BY <2>2, <2>3
<1> QED BY <1>1, <1>2, <1>3 DEF StreamInv
-----------------------------------------------------------------------------
(* An event enters a queue.                                                *)

LEMMA AcceptType ==
    ASSUME TypeOK, NEW t \in Task, NEW e \in Event, Accept(t, e)
    PROVE  queue' \in [Task -> Seq(Event)] /\ terminal' \in [Task -> BOOLEAN]
<1>1. queue[t] \in Seq(Event) /\ Append(queue[t], e) \in Seq(Event)
  BY Appended DEF TypeOK
<1>2. CASE terminal[t]
  BY <1>2 DEF TypeOK, Accept, queueVars
<1>3. CASE ~terminal[t]
  <2>1. (e \in Terminal) \in BOOLEAN
    OBVIOUS
  <2> QED BY <1>1, <1>3, <2>1 DEF TypeOK, Accept
<1> QED BY <1>2, <1>3

LEMMA AcceptAwaits ==
    ASSUME TypeOK, NEW t \in Task, NEW e \in Event, Awaits(t),
           t \in pending, ~terminal[t],
           queue' = [queue EXCEPT ![t] = Append(@, e)],
           terminal' = [terminal EXCEPT ![t] = e \in Terminal]
    PROVE  /\ \A i \in DOMAIN queue'[t] : queue'[t][i] \in Terminal => i = Len(queue'[t])
           /\ terminal'[t] <=> TerminalAt(queue'[t], Len(queue'[t]))
<1>1. queue[t] \in Seq(Event) /\ queue'[t] = Append(queue[t], e)
  BY DEF TypeOK
<1>2. terminal'[t] <=> e \in Terminal
  BY DEF TypeOK
<1>3. \A i \in DOMAIN queue[t] : queue[t][i] \notin Terminal
  BY <1>1 DEF Awaits, TerminalAt
<1> QED BY <1>1, <1>2, <1>3, Appended, Domains DEF TerminalAt

LEMMA PushSound ==
    ASSUME StreamInv, NEW t \in Task, NEW m \in HostMessage, Push(t, m)
    PROVE  StreamInv'
<1> DEFINE e == Decode(m)
<1>1. e \in HostEvent /\ e \in Event /\ e \notin MadeUp
  BY ChunksDiffer DEF Decode, HostMessage, HostEvent, Event, MadeUp, Terminal
<1> HIDE DEF e
<1>2. CASE terminal[t]
  <2>1. UNCHANGED vars
    BY <1>2 DEF Push, Accept, queueVars, vars
  <2> QED BY <2>1 DEF vars, StreamInv, TypeOK, CallSound, Sound, Closed, Fresh, Awaits,
             Returned, InStep, Continues, Caused, TerminalAt
<1>3. CASE ~terminal[t]
  <2>1. /\ t \in tokens
        /\ queue' = [queue EXCEPT ![t] = Append(@, e)]
        /\ terminal' = [terminal EXCEPT ![t] = e \in Terminal]
        /\ sent' = [sent EXCEPT ![t] = Append(@, e)]
        /\ call' = IF call = At(t, "asleep") THEN At(t, "woken") ELSE call
        /\ UNCHANGED <<tokens, pending, expired, issued, got, cancelled>>
    BY <1>3 DEF Push, Accept, Notify, e
  <2>2. t \in pending /\ Sound(t) /\ TypeOK
    BY <1>3, <2>1 DEF StreamInv, Sound, Closed
  <2>3. TypeOK'
    BY <1>1, <2>1, <2>2, Appended DEF TypeOK, At, Place
  <2>4. CallSound'
    BY <2>1, <2>2, NoTask DEF StreamInv, CallSound, At, Idle, TypeOK
  <2>5. ASSUME NEW u \in Task PROVE Sound(u)'
    <3>1. Sound(u) BY DEF StreamInv
    <3>2. CASE u # t
      BY <2>1, <2>2, <3>1, <3>2, Kept DEF Untouched, TypeOK
    <3>3. CASE u = t
      <4>1. /\ queue[t] \in Seq(Event) /\ sent[t] \in Seq(HostEvent) /\ got[t] \in Seq(Event)
            /\ queue'[t] = Append(queue[t], e) /\ sent'[t] = Append(sent[t], e)
            /\ got'[t] = got[t]
        BY <2>1, <2>2 DEF TypeOK
      <4>2. Len(sent[t]) = Len(got[t]) + Len(queue[t])
        BY <1>3, <2>1, <2>2 DEF Sound, Continues
      <4>3. Closed(t)' /\ Fresh(t)' /\ Returned(t)'
        BY <2>1, <2>2 DEF Sound, Closed, Fresh, Returned
      <4>4. Awaits(t)'
        BY <1>1, <1>3, <2>1, <2>2, AcceptAwaits DEF Sound, Awaits
      <4>5. InStep(t)'
        BY <1>1, <2>2, <4>1, Appended, Domains DEF Sound, InStep
      <4>6. Continues(t)'
        <5>0. Len(queue[t]) \in Nat /\ Len(sent[t]) \in Nat /\ Len(got[t]) \in Nat
          BY <4>1, Domains
        <5>1. Len(queue'[t]) = Len(queue[t]) + 1 /\ Len(sent'[t]) = Len(sent[t]) + 1
          BY <1>1, <4>1, Appended
        <5>2. ASSUME NEW i \in DOMAIN queue'[t]
              PROVE  \/ Len(got[t]) + i \in DOMAIN sent'[t]
                        /\ queue'[t][i] = sent'[t][Len(got[t]) + i]
                     \/ queue'[t][i] \in MadeUp
          <6>1. CASE i \in DOMAIN queue[t]
            <7>1. /\ i \in 1..Len(queue[t]) /\ queue'[t][i] = queue[t][i]
                  /\ \A k \in DOMAIN sent[t] :
                        k \in DOMAIN sent'[t] /\ sent'[t][k] = sent[t][k]
              BY <1>1, <4>1, <6>1, Appended, Domains
            <7>2. \/ Len(got[t]) + i \in DOMAIN sent[t]
                     /\ queue[t][i] = sent[t][Len(got[t]) + i]
                  \/ queue[t][i] \in MadeUp
              BY <2>2, <6>1 DEF Sound, Continues
            <7> QED BY <7>1, <7>2
          <6>2. CASE i = Len(queue[t]) + 1
            <7>1. queue'[t][i] = e /\ sent'[t][Len(sent[t]) + 1] = e
              BY <1>1, <4>1, <6>2, Appended
            <7>2. Len(got[t]) + i = Len(sent[t]) + 1
              BY <4>2, <5>0, <6>2, OneMore
            <7>3. Len(sent[t]) + 1 \in DOMAIN sent'[t]
              BY <1>1, <4>1, <5>0, Appended
            <7> QED BY <7>1, <7>2, <7>3
          <6>3. i \in 1..(Len(queue[t]) + 1) /\ DOMAIN queue[t] = 1..Len(queue[t])
            BY <1>1, <4>1, Appended, Domains
          <6> QED BY <5>0, <6>1, <6>2, <6>3
        <5>3. got'[t] = got[t] /\ Len(sent'[t]) = Len(got'[t]) + Len(queue'[t])
          <6>1. Len(sent[t]) + 1 = Len(got[t]) + (Len(queue[t]) + 1)
            BY <4>2, <5>0, OneMore
          <6> QED BY <4>1, <5>1, <6>1
        <5> QED BY <5>2, <5>3 DEF Continues
      <4>7. Caused(t)'
        BY <1>1, <2>1, <2>2, <4>1, Appended, Domains DEF Sound, Caused, MadeUp
      <4> QED BY <3>3, <4>3, <4>4, <4>5, <4>6, <4>7 DEF Sound
    <3> QED BY <3>2, <3>3
  <2> QED BY <2>3, <2>4, <2>5 DEF StreamInv
<1> QED BY <1>2, <1>3
-----------------------------------------------------------------------------
(* The interpreter thread.                                                 *)

\* A step that moves the call only.
LEMMA QuietSound ==
    ASSUME StreamInv, NEW t \in Task,
           DeadlinePasses(t) \/ Sleep(t) \/ TimerFires(t) \/ SpuriousWake(t) \/ GiveUp(t)
    PROVE  StreamInv'
<1>1. /\ UNCHANGED <<tokens, pending, queueVars, issued, sent, got, cancelled>>
      /\ expired' = expired \/ expired' = [expired EXCEPT ![t] = TRUE]
  BY DEF DeadlinePasses, Sleep, TimerFires, SpuriousWake, GiveUp
<1>2. TypeOK /\ CallSound
  BY DEF StreamInv
<1>3. TypeOK'
  <2>1. expired' \in [Task -> BOOLEAN]
    BY <1>1, <1>2 DEF TypeOK
  <2>2. call' \in [task : Task \cup {None}, at : Place]
    BY <1>2 DEF TypeOK, DeadlinePasses, Sleep, TimerFires, SpuriousWake, GiveUp, At, Place
  <2> QED BY <1>1, <1>2, <2>1, <2>2 DEF TypeOK, queueVars
<1>4. CallSound'
  <2>1. CASE DeadlinePasses(t)
    BY <1>1, <1>2, <2>1 DEF CallSound, DeadlinePasses, queueVars, TypeOK
  <2>2. CASE Sleep(t)
    BY <1>2, <2>2 DEF CallSound, Sleep, Waiting, At, Idle, queueVars
  <2>3. CASE TimerFires(t) \/ SpuriousWake(t)
    BY <1>2, <2>3 DEF CallSound, TimerFires, SpuriousWake, At, queueVars
  <2>4. CASE GiveUp(t)
    BY <1>2, <2>4 DEF CallSound, GiveUp, Waiting, OutOfTime, At, Idle, queueVars
  <2> QED BY <2>1, <2>2, <2>3, <2>4
<1>5. ASSUME NEW u \in Task PROVE Sound(u)'
  <2>1. Sound(u) /\ Untouched(u)
    BY <1>1, <1>2 DEF StreamInv, Untouched, queueVars, TypeOK
  <2> QED BY <2>1, Kept
<1> QED BY <1>3, <1>4, <1>5 DEF StreamInv

LEMMA ReceiveSound ==
    ASSUME StreamInv, NEW t \in Task, Receive(t)
    PROVE  StreamInv'
<1> DEFINE e == Head(queue[t])
<1>1. /\ TypeOK /\ CallSound /\ Sound(t)
      /\ queue[t] \in Seq(Event) /\ queue[t] # <<>> /\ got[t] \in Seq(Event)
      /\ sent[t] \in Seq(HostEvent)
  BY DEF StreamInv, TypeOK, Receive
<1>2. t \in pending
  BY <1>1 DEF Receive, Waiting, CallSound, At
<1>3. e \in Event /\ e = queue[t][1] /\ 1 \in DOMAIN queue[t]
  BY <1>1, Taken
<1>4. /\ queue' = [queue EXCEPT ![t] = Tail(@)]
      /\ got' = [got EXCEPT ![t] = Append(@, e)]
      /\ pending' = IF e \in Terminal THEN pending \ {t} ELSE pending
      /\ call' = Idle
      /\ UNCHANGED <<tokens, terminal, expired, issued, sent, cancelled>>
  BY DEF Receive, PendingAfter
<1> HIDE DEF e
<1>5. /\ queue'[t] = Tail(queue[t]) /\ got'[t] = Append(got[t], e)
      /\ terminal'[t] = terminal[t] /\ sent'[t] = sent[t]
  BY <1>1, <1>4 DEF TypeOK
<1>6. /\ Len(queue[t]) \in Nat /\ Len(got[t]) \in Nat /\ Len(sent[t]) \in Nat
      /\ Len(queue[t]) >= 1
      /\ Len(queue'[t]) = Len(queue[t]) - 1 /\ Len(got'[t]) = Len(got[t]) + 1
      /\ queue'[t] \in Seq(Event) /\ got'[t] \in Seq(Event)
  BY <1>1, <1>3, <1>5, Taken, Appended, Domains
<1>7. \A i \in DOMAIN queue'[t] : i \in Nat /\ i + 1 \in DOMAIN queue[t]
                                /\ queue'[t][i] = queue[t][i + 1]
  BY <1>1, <1>5, <1>6, Taken, Domains
<1>8. TypeOK'
  BY <1>1, <1>4, <1>5, <1>6 DEF TypeOK, Idle, Place
<1>9. CallSound'
  BY <1>4 DEF CallSound, Idle
<1>10. ASSUME NEW u \in Task PROVE Sound(u)'
  <2>1. Sound(u) BY DEF StreamInv
  <2>2. CASE u # t
    BY <1>1, <1>4, <2>1, <2>2, Kept DEF Untouched, TypeOK
  <2>3. CASE u = t
    <3>1. e \in Terminal => terminal[t] /\ Len(queue[t]) = 1
      BY <1>1, <1>2, <1>3, Domains DEF Sound, Awaits, TerminalAt
    <3>2. Closed(t)' /\ Fresh(t)'
      BY <1>1, <1>2, <1>4, <1>5, <3>1 DEF Sound, Closed, Fresh
    <3>3. Awaits(t)'
      <4>1. \A i \in DOMAIN queue'[t] : queue'[t][i] \in Terminal => i = Len(queue'[t])
        BY <1>1, <1>6, <1>7 DEF Sound, Awaits
      <4>2. t \in pending' => (terminal[t] <=> TerminalAt(queue'[t], Len(queue'[t])))
        <5>1. SUFFICES ASSUME t \in pending'
                       PROVE  terminal[t] <=> TerminalAt(queue'[t], Len(queue'[t]))
          OBVIOUS
        <5>2. e \notin Terminal
          BY <1>4, <5>1
        <5>3. CASE terminal[t]
          <6>1. Len(queue[t]) \in DOMAIN queue[t] /\ queue[t][Len(queue[t])] \in Terminal
            BY <1>1, <1>2, <5>3 DEF Sound, Awaits, TerminalAt
          <6>2. Len(queue[t]) # 1
            BY <1>3, <5>2, <6>1
          <6>3. Len(queue'[t]) \in DOMAIN queue'[t]
            BY <1>6, <6>2, OneLess, Domains
          <6>4. queue'[t][Len(queue'[t])] = queue[t][Len(queue[t])]
            BY <1>6, <1>7, <6>3
          <6> QED BY <5>3, <6>1, <6>3, <6>4 DEF TerminalAt
        <5>4. CASE TerminalAt(queue'[t], Len(queue'[t]))
          BY <1>1, <1>2, <1>6, <1>7, <5>4 DEF Sound, Awaits, TerminalAt
        <5> QED BY <5>3, <5>4
      <4> QED BY <1>5, <4>1, <4>2 DEF Awaits
    <3>4. Returned(t)'
      <4>1. \A i \in DOMAIN got[t] : got[t][i] \notin Terminal
        BY <1>1, <1>2 DEF Sound, Returned
      <4>2. e \in Terminal => t \notin pending'
        BY <1>4
      <4> QED BY <1>1, <1>3, <1>5, <1>6, <4>1, <4>2, Appended, Domains DEF Returned
    <3>5. InStep(t)'
      <4>1. \/ Len(got[t]) + 1 \in DOMAIN sent[t] /\ e = sent[t][Len(got[t]) + 1]
            \/ e \in MadeUp
        BY <1>1, <1>2, <1>3 DEF Sound, Continues
      <4> QED BY <1>1, <1>3, <1>5, <1>6, <4>1, Appended, Domains DEF Sound, InStep
    <3>6. Continues(t)'
      <4>1. t \in tokens' /\ ~terminal'[t] => Len(sent'[t]) = Len(got'[t]) + Len(queue'[t])
        <5>1. SUFFICES ASSUME t \in tokens, ~terminal[t]
                       PROVE  Len(sent[t]) = Len(got'[t]) + Len(queue'[t])
          BY <1>4, <1>5
        <5>2. Len(sent[t]) = Len(got[t]) + Len(queue[t])
          BY <1>1, <5>1 DEF Sound, Continues
        <5> QED BY <1>6, <5>2, OneMoved
      <4>2. ASSUME NEW i \in DOMAIN queue'[t], t \in pending
            PROVE  \/ Len(got'[t]) + i \in DOMAIN sent'[t]
                      /\ queue'[t][i] = sent'[t][Len(got'[t]) + i]
                   \/ queue'[t][i] \in MadeUp
        <5>1. \/ Len(got[t]) + (i + 1) \in DOMAIN sent[t]
                  /\ queue[t][i + 1] = sent[t][Len(got[t]) + (i + 1)]
              \/ queue[t][i + 1] \in MadeUp
          BY <1>1, <1>7, <4>2 DEF Sound, Continues
        <5>2. Len(got'[t]) + i = Len(got[t]) + (i + 1)
          BY <1>6, <1>7, OneMoved
        <5> QED BY <1>5, <1>7, <5>1, <5>2
      <4> QED BY <1>2, <4>1, <4>2 DEF Continues
    <3>7. Caused(t)'
      <4>1. \A i \in DOMAIN got'[t] : /\ got'[t][i] = "timedOut" => expired'[t]
                                      /\ got'[t][i] = "cancelled" => t \in cancelled'
        BY <1>1, <1>3, <1>4, <1>5, <1>6, Appended, Domains DEF Sound, Caused
      <4>2. \A i \in DOMAIN queue'[t] : /\ queue'[t][i] = "timedOut" => expired'[t]
                                        /\ queue'[t][i] = "cancelled" => t \in cancelled'
        BY <1>1, <1>4, <1>7 DEF Sound, Caused
      <4> QED BY <4>1, <4>2 DEF Caused
    <3> QED BY <2>3, <3>2, <3>3, <3>4, <3>5, <3>6, <3>7 DEF Sound
  <2> QED BY <2>2, <2>3
<1> QED BY <1>8, <1>9, <1>10 DEF StreamInv

LEMMA TimeOutSound ==
    ASSUME StreamInv, NEW t \in Task, TimeOut(t)
    PROVE  StreamInv'
<1>1. /\ TypeOK /\ CallSound /\ Sound(t) /\ call = At(t, "timedOut")
      /\ Accept(t, "timedOut")
      /\ pending' = pending \ {t} /\ got' = [got EXCEPT ![t] = Append(@, "timedOut")]
      /\ call' = Idle
      /\ UNCHANGED <<tokens, expired, issued, sent, cancelled>>
  BY DEF StreamInv, TimeOut
<1>2. t \in pending /\ expired[t]
  BY <1>1 DEF CallSound, At
<1>3. "timedOut" \in Event /\ "timedOut" \in Terminal /\ "timedOut" \in MadeUp
  BY DEF Event, Terminal, MadeUp
<1>4. /\ got[t] \in Seq(Event) /\ queue[t] \in Seq(Event) /\ sent[t] \in Seq(HostEvent)
      /\ got'[t] = Append(got[t], "timedOut") /\ sent'[t] = sent[t]
  BY <1>1 DEF TypeOK
<1>5. TypeOK'
  <2>1. got' \in [Task -> Seq(Event)]
    BY <1>1, <1>3, <1>4, Appended DEF TypeOK
  <2> QED BY <1>1, <1>3, <2>1, AcceptType DEF TypeOK, Idle, Place
<1>6. CallSound'
  BY <1>1 DEF CallSound, Idle
<1>7. ASSUME NEW u \in Task PROVE Sound(u)'
  <2>1. Sound(u) BY DEF StreamInv
  <2>2. CASE u # t
    <3>1. queue'[u] = queue[u] /\ terminal'[u] = terminal[u]
      BY <1>1, <2>2 DEF Accept, queueVars, TypeOK
    <3> QED BY <1>1, <2>1, <2>2, <3>1, Kept DEF Untouched, TypeOK
  <2>3. CASE u = t
    <3>1. terminal'[t] /\ t \notin pending' /\ t \in issued /\ t \in tokens
      BY <1>1, <1>2, <1>3 DEF Accept, queueVars, TypeOK, Sound, Closed
    <3>2. Closed(t)' /\ Fresh(t)'
      BY <1>1, <3>1 DEF Closed, Fresh
    <3>3. /\ \A i \in DOMAIN queue'[t] : queue'[t][i] \in Terminal => i = Len(queue'[t])
          /\ \A i \in DOMAIN queue'[t] :
                \/ queue'[t][i] = "timedOut"
                \/ i \in DOMAIN queue[t] /\ queue'[t][i] = queue[t][i]
      <4>1. CASE terminal[t]
        BY <1>1, <4>1 DEF Accept, queueVars, Sound, Awaits
      <4>2. CASE ~terminal[t]
        <5>1. /\ queue' = [queue EXCEPT ![t] = Append(@, "timedOut")]
              /\ terminal' = [terminal EXCEPT ![t] = "timedOut" \in Terminal]
          BY <1>1, <4>2 DEF Accept
        <5>2. queue'[t] = Append(queue[t], "timedOut")
          BY <1>1, <5>1 DEF TypeOK
        <5>3. Awaits(t)
          BY <1>1 DEF Sound
        <5>4. \A i \in DOMAIN queue'[t] : queue'[t][i] \in Terminal => i = Len(queue'[t])
          BY <1>1, <1>2, <1>3, <4>2, <5>1, <5>3, AcceptAwaits
        <5>5. \A i \in DOMAIN queue'[t] :
                \/ queue'[t][i] = "timedOut"
                \/ i \in DOMAIN queue[t] /\ queue'[t][i] = queue[t][i]
          BY <1>3, <1>4, <5>2, Appended, Domains
        <5> QED BY <5>4, <5>5
      <4> QED BY <4>1, <4>2
    <3>4. Awaits(t)'
      BY <3>1, <3>3 DEF Awaits
    <3>5. Returned(t)'
      <4>1. \A i \in DOMAIN got[t] : got[t][i] \notin Terminal
        BY <1>1, <1>2 DEF Sound, Returned
      <4> QED BY <1>3, <1>4, <3>1, <4>1, Appended, Domains DEF Returned
    <3>6. InStep(t)'
      BY <1>1, <1>3, <1>4, Appended, Domains DEF Sound, InStep
    <3>7. Continues(t)'
      BY <3>1 DEF Continues
    <3>8. Caused(t)'
      <4>1. /\ Caused(t) /\ expired'[t]
            /\ t \in cancelled => t \in cancelled'
        BY <1>1, <1>2 DEF Sound
      <4>2. \A i \in DOMAIN got'[t] : /\ got'[t][i] = "timedOut" => expired'[t]
                                      /\ got'[t][i] = "cancelled" => t \in cancelled'
        BY <1>3, <1>4, <4>1, Appended, Domains DEF Caused
      <4> QED BY <3>3, <4>1, <4>2 DEF Caused
    <3> QED BY <2>3, <3>2, <3>4, <3>5, <3>6, <3>7, <3>8 DEF Sound
  <2> QED BY <2>2, <2>3
<1> QED BY <1>5, <1>6, <1>7 DEF StreamInv

LEMMA CancelSound ==
    ASSUME StreamInv, NEW t \in Task, Cancel(t)
    PROVE  StreamInv'
<1>1. /\ TypeOK /\ CallSound /\ Sound(t) /\ call = Idle /\ t \in pending
      /\ cancelled' = cancelled \cup {t}
      /\ UNCHANGED <<tokens, pending, expired, call, issued, sent, got>>
  BY DEF StreamInv, Cancel
<1>2. CASE terminal[t]
  <2>1. UNCHANGED queueVars
    BY <1>2 DEF Cancel, ForceCancel
  <2>2. TypeOK' /\ CallSound'
    BY <1>1, <2>1 DEF TypeOK, CallSound, queueVars, Idle
  <2>3. ASSUME NEW u \in Task PROVE Sound(u)'
    <3>1. Sound(u) /\ Untouched(u)
      BY <1>1, <2>1 DEF StreamInv, Untouched, queueVars
    <3> QED BY <3>1, Kept
  <2> QED BY <2>2, <2>3 DEF StreamInv
<1>3. CASE ~terminal[t]
  <2>1. /\ queue' = [queue EXCEPT ![t] = <<"cancelled">>]
        /\ terminal' = [terminal EXCEPT ![t] = TRUE]
    BY <1>3 DEF Cancel, ForceCancel
  <2>2. "cancelled" \in Event /\ "cancelled" \in Terminal /\ "cancelled" \in MadeUp
    BY DEF Event, Terminal, MadeUp
  <2>3. <<"cancelled">> \in Seq(Event) /\ Len(<<"cancelled">>) = 1
        /\ DOMAIN <<"cancelled">> = {1} /\ <<"cancelled">>[1] = "cancelled"
    BY <2>2
  <2>4. queue'[t] = <<"cancelled">> /\ terminal'[t]
    BY <1>1, <2>1 DEF TypeOK
  <2>5. TypeOK' /\ CallSound'
    BY <1>1, <2>1, <2>3 DEF TypeOK, CallSound, Idle
  <2>6. ASSUME NEW u \in Task PROVE Sound(u)'
    <3>1. Sound(u) BY DEF StreamInv
    <3>2. CASE u # t
      BY <1>1, <2>1, <3>1, <3>2, Kept DEF Untouched, TypeOK
    <3>3. CASE u = t
      <4>1. Closed(t)' /\ Fresh(t)'
        BY <1>1, <2>4 DEF Sound, Closed, Fresh
      <4>2. Awaits(t)'
        BY <2>2, <2>3, <2>4 DEF Awaits, TerminalAt
      <4>3. Returned(t)' /\ InStep(t)'
        BY <1>1 DEF Sound, Returned, InStep
      <4>4. Continues(t)'
        BY <2>2, <2>3, <2>4 DEF Continues
      <4>5. Caused(t)'
        BY <1>1, <2>2, <2>3, <2>4 DEF Sound, Caused
      <4> QED BY <3>3, <4>1, <4>2, <4>3, <4>4, <4>5 DEF Sound
    <3> QED BY <3>2, <3>3
  <2> QED BY <2>5, <2>6 DEF StreamInv
<1> QED BY <1>2, <1>3

LEMMA EndRunSound ==
    ASSUME StreamInv, EndRun
    PROVE  StreamInv'
<1>1. TypeOK' /\ CallSound'
  BY DEF StreamInv, EndRun, TypeOK, CallSound, queueVars, Idle
<1>2. ASSUME NEW u \in Task PROVE Sound(u)'
  <2>1. Closed(u)' /\ Fresh(u)' /\ Awaits(u)'
    BY DEF StreamInv, EndRun, Sound, Closed, Fresh, Awaits, queueVars
  <2>2. Returned(u)' /\ InStep(u)' /\ Continues(u)' /\ Caused(u)'
    BY DEF StreamInv, EndRun, Sound, Returned, InStep, Continues, Caused, queueVars
  <2> QED BY <2>1, <2>2 DEF Sound
<1> QED BY <1>1, <1>2 DEF StreamInv
-----------------------------------------------------------------------------
(* The theorems                                                            *)

LEMMA StreamNext == StreamInv /\ [Next]_vars => StreamInv'
<1> SUFFICES ASSUME StreamInv, [Next]_vars PROVE StreamInv'
  OBVIOUS
<1>1. ASSUME NEW t \in Task, Start(t) \/ Cancel(t) \/ NextEvent(t) PROVE StreamInv'
  BY <1>1, StartSound, CancelSound, ReceiveSound, QuietSound, TimeOutSound DEF NextEvent
<1>2. ASSUME NEW t \in Task, DeadlinePasses(t) \/ TimerFires(t) \/ SpuriousWake(t)
      PROVE  StreamInv'
  BY <1>2, QuietSound
<1>3. ASSUME NEW t \in Task, NEW m \in HostMessage, Push(t, m) PROVE StreamInv'
  BY <1>3, PushSound
<1>4. CASE UNCHANGED vars
  <2>1. TypeOK' /\ CallSound'
    BY <1>4 DEF vars, StreamInv, TypeOK, CallSound
  <2>2. ASSUME NEW u \in Task PROVE Sound(u)'
    <3>1. Sound(u) /\ Untouched(u)
      BY <1>4 DEF vars, StreamInv, Untouched
    <3> QED BY <3>1, Kept
  <2> QED BY <2>1, <2>2 DEF StreamInv
<1> QED BY <1>1, <1>2, <1>3, <1>4, EndRunSound DEF Next

LEMMA StreamAlways == Spec => []StreamInv
BY InitSound, StreamNext, PTL DEF Spec

\* The queues, handles and tokens keep their types.
THEOREM Types == Spec => []TypeOK
<1>1. StreamInv => TypeOK
  BY DEF StreamInv
<1> QED BY StreamAlways, <1>1, PTL

\* A pending handle whose queue is closed has its terminal event waiting in
\* it, last: no poll after a cancel waits for the host or the deadline.
THEOREM TerminalIsWaiting == Spec => []TerminalAwaits
<1>1. StreamInv => TerminalAwaits
  BY DEF StreamInv, Sound, Awaits, TerminalAwaits
<1> QED BY StreamAlways, <1>1, PTL

\* next_event returns one terminal event for a request and nothing after it.
THEOREM TerminalIsLast == Spec => []NothingAfterTerminal
<1>1. StreamInv => NothingAfterTerminal
  BY DEF StreamInv, Sound, Returned, NothingAfterTerminal
<1> QED BY StreamAlways, <1>1, PTL

\* Whatever the host's threads do, the program gets its events in the order
\* of the pushes, none twice and none left out.
THEOREM Order == Spec => []EventsInOrder
<1>1. StreamInv => EventsInOrder
  BY DEF StreamInv, Sound, InStep, MadeUp, EventsInOrder
<1> QED BY StreamAlways, <1>1, PTL

\* No push is missed by a sleeping interpreter.
THEOREM WakeUps == Spec => []NoLostWakeup
<1>1. StreamInv => NoLostWakeup
  BY DEF StreamInv, CallSound, At, NoLostWakeup
<1> QED BY StreamAlways, <1>1, PTL

\* Failures made up on the interpreter's side have their cause.
THEOREM Causes == Spec => []NoEarlyFailure
<1>1. StreamInv => NoEarlyFailure
  <2> SUFFICES ASSUME StreamInv, NEW t \in Task
               PROVE  \A i \in DOMAIN got[t] :
                          /\ got[t][i] = "timedOut" => expired[t]
                          /\ got[t][i] = "cancelled" => t \in cancelled
    BY DEF NoEarlyFailure
  <2>1. Caused(t)
    BY DEF StreamInv, Sound
  <2> QED BY <2>1 DEF Caused
<1> QED BY StreamAlways, <1>1, PTL

-----------------------------------------------------------------------------
(* The transports that are polled                                          *)

\* What a one-shot handle can have left.
Left ==
    Polled!Outcomes \cup {<<"cancelled">>, <<"done">>} \cup {<<c, "done">> : c \in Chunk}

OneShotOK(t) == entries[t] \in Left /\ Head(entries[t]) \in Seam!Allowed(answers[t])

NetOK(t) ==
    /\ entries[t] \in {"pendingResponse", "reading", "cancelled"}
    /\ entries[t] = "pendingResponse" => answers[t] = <<>>
    /\ entries[t] = "reading" => answers[t] # <<>>

\* The entry of a handle agrees with what was returned for it: the next event
\* is always one the contract allows.
PolledInv ==
    /\ backend \in {"oneShot", "net"}
    /\ answers \in [Task -> Seq(Seam!Event)]
    /\ DOMAIN entries \subseteq Task
    /\ entries = [t \in DOMAIN entries |-> entries[t]]
    /\ \A t \in DOMAIN entries :
          /\ backend = "oneShot" => OneShotOK(t)
          /\ backend = "net" => NetOK(t)

\* SingleShotEvents::next_event: what is left after an event that does not
\* end the sequence.
LEMMA LeftAfter ==
    ASSUME NEW s \in Left, Head(s) \notin Polled!Terminal
    PROVE  /\ Head(s) \in {"response"} \cup Chunk
           /\ Tail(s) \in Left
           /\ Head(Tail(s)) \in Chunk \cup {"done"}
<1>1. CASE s \in {<<"failed">>, <<"cancelled">>, <<"done">>}
  BY <1>1 DEF Polled!Terminal
<1>2. CASE s = <<"response", "done">>
  BY <1>2 DEF Left
<1>3. ASSUME NEW c \in Chunk, s = <<"response", c, "done">>
      PROVE  /\ Head(s) \in {"response"} \cup Chunk
             /\ Tail(s) \in Left
             /\ Head(Tail(s)) \in Chunk \cup {"done"}
  <2>1. Head(s) = "response" /\ Tail(s) = <<c, "done">>
    BY <1>3
  <2>2. Head(<<c, "done">>) = c
    OBVIOUS
  <2> QED BY <2>1, <2>2 DEF Left
<1>4. ASSUME NEW c \in Chunk, s = <<c, "done">>
      PROVE  /\ Head(s) \in {"response"} \cup Chunk
             /\ Tail(s) \in Left
             /\ Head(Tail(s)) \in Chunk \cup {"done"}
  <2>1. Head(s) = c /\ Tail(s) = <<"done">>
    BY <1>4
  <2>2. Head(<<"done">>) = "done"
    OBVIOUS
  <2> QED BY <2>1, <2>2 DEF Left
<1> QED BY <1>1, <1>2, <1>3, <1>4 DEF Left, Polled!Outcomes

\* What a poll that returns e does to the tables.
PollReturned(t, e) ==
    /\ t \in DOMAIN entries /\ e \in Seam!Allowed(answers[t])
    /\ answers' = [answers EXCEPT ![t] = Append(@, e)]
    /\ \/ e \in Seam!Terminal /\ entries' = Polled!Drop(t)
       \/ /\ e \notin Seam!Terminal
          /\ entries' = Polled!Put(t, entries'[t])
          /\ backend = "oneShot" =>
                /\ e \in {"response"} \cup Chunk
                /\ entries'[t] \in Left
                /\ Head(entries'[t]) \in Chunk \cup {"done"}
          /\ backend = "net" => entries'[t] = "reading"

\* A poll returns an event the contract allows, and one that ends the request
\* exactly when it takes the entry away.
LEMMA PollReturnsAllowed ==
    ASSUME Polled!ChunksDiffer, PolledInv, NEW t \in Task, Polled!Poll(t)
    PROVE  \E e \in Seam!Event : PollReturned(t, e)
<1> USE DEF Seam!Event, Seam!Terminal, Seam!Failure
<1>1. t \in DOMAIN entries
  BY DEF Polled!Poll
<1>2. CASE Polled!PollOneShot(t)
  <2> DEFINE e == Head(entries[t])
  <2>1. backend = "oneShot" /\ answers' = [answers EXCEPT ![t] = Append(@, e)]
        /\ entries' = IF e \in Polled!Terminal THEN Polled!Drop(t) ELSE Polled!Put(t, Tail(entries[t]))
    BY <1>2 DEF Polled!PollOneShot, Polled!Returns
  <2>2. entries[t] \in Left /\ e \in Seam!Allowed(answers[t])
    BY <1>1, <2>1 DEF PolledInv, OneShotOK
  <2>3. e \in Seam!Event
    BY <2>2 DEF Seam!Allowed
  <2>4. CASE e \in Polled!Terminal
    BY <1>1, <2>1, <2>2, <2>3, <2>4 DEF Polled!Terminal, PollReturned
  <2>5. CASE e \notin Polled!Terminal
    <3>1. /\ e \in {"response"} \cup Chunk
          /\ Tail(entries[t]) \in Left
          /\ Head(Tail(entries[t])) \in Chunk \cup {"done"}
      BY <2>2, <2>5, LeftAfter
    <3>2. entries' = Polled!Put(t, Tail(entries[t])) /\ entries'[t] = Tail(entries[t])
      BY <2>1, <2>5 DEF Polled!Put
    <3>3. e \notin Seam!Terminal
      BY <3>1 DEF Polled!ChunksDiffer
    <3> QED BY <1>1, <2>1, <2>2, <2>3, <3>1, <3>2, <3>3 DEF PollReturned
  <2> QED BY <2>4, <2>5
<1>3. CASE Polled!PollNet(t)
  <2>1. backend = "net" /\ NetOK(t)
    BY <1>1, <1>3 DEF PolledInv, Polled!PollNet
  <2>2. ASSUME entries[t] = "cancelled", Polled!Returns(t, "cancelled"), entries' = Polled!Drop(t)
        PROVE  PollReturned(t, "cancelled")
    <3>1. "cancelled" \in Seam!Allowed(answers[t])
      BY DEF Seam!Allowed
    <3> QED BY <1>1, <2>2, <3>1 DEF Polled!Returns, PollReturned
  <2>3. ASSUME entries[t] = "pendingResponse", Polled!Returns(t, "response"), entries' = Polled!Put(t, "reading")
        PROVE  PollReturned(t, "response")
    <3>1. "response" \in Seam!Allowed(answers[t])
      BY <2>1, <2>3 DEF Seam!Allowed, NetOK
    <3>2. entries'[t] = "reading" /\ entries' = Polled!Put(t, entries'[t])
      BY <2>3 DEF Polled!Put
    <3> QED BY <1>1, <2>1, <2>3, <3>1, <3>2 DEF Polled!Returns, PollReturned
  <2>4. ASSUME entries[t] = "reading", NEW c \in Chunk, Polled!Returns(t, c), UNCHANGED entries
        PROVE  PollReturned(t, c)
    <3>1. entries = Polled!Put(t, entries[t])
      <4>1. DOMAIN entries \cup {t} = DOMAIN entries
        BY <1>1
      <4>2. Polled!Put(t, entries[t]) = [h \in DOMAIN entries |-> entries[h]]
        BY <4>1 DEF Polled!Put
      <4> QED BY <4>2 DEF PolledInv
    <3>2. c \in Seam!Allowed(answers[t])
      BY <2>1, <2>4 DEF Seam!Allowed, NetOK
    <3>3. c \notin Seam!Terminal
      BY DEF Polled!ChunksDiffer
    <3> QED BY <1>1, <2>1, <2>4, <3>1, <3>2, <3>3 DEF Polled!Returns, PollReturned
  <2>5. ASSUME entries[t] = "reading", NEW e \in {"done", "failed"}, Polled!Returns(t, e), entries' = Polled!Drop(t)
        PROVE  PollReturned(t, e)
    <3>1. e \in Seam!Allowed(answers[t])
      BY <2>1, <2>5 DEF Seam!Allowed, NetOK
    <3> QED BY <1>1, <2>5, <3>1 DEF Polled!Returns, PollReturned
  <2>6. \/ entries[t] = "cancelled" /\ Polled!Returns(t, "cancelled") /\ entries' = Polled!Drop(t)
        \/ entries[t] = "pendingResponse" /\ Polled!Returns(t, "response") /\ entries' = Polled!Put(t, "reading")
        \/ \E c \in Chunk : entries[t] = "reading" /\ Polled!Returns(t, c) /\ UNCHANGED entries
        \/ \E e \in {"done", "failed"} : entries[t] = "reading" /\ Polled!Returns(t, e) /\ entries' = Polled!Drop(t)
    BY <1>3 DEF Polled!PollNet
  <2>7. "cancelled" \in Seam!Event /\ "response" \in Seam!Event
        /\ Chunk \subseteq Seam!Event /\ {"done", "failed"} \subseteq Seam!Event
    OBVIOUS
  <2> QED BY <2>2, <2>3, <2>4, <2>5, <2>6, <2>7
<1> QED BY <1>2, <1>3 DEF Polled!Poll

LEMMA PolledSound ==
    ASSUME Polled!ChunksDiffer, PolledInv, [Polled!Next]_(Polled!vars)
    PROVE  PolledInv'
<1> USE DEF OneShotOK, NetOK, Seam!Allowed, Seam!Terminal, Seam!Failure, Seam!Event
<1>1. CASE UNCHANGED Polled!vars
  BY <1>1 DEF Polled!vars, PolledInv
<1>2. ASSUME NEW t \in Task, Polled!Start(t) PROVE PolledInv'
  <2>1. answers' = answers /\ backend' = backend /\ answers[t] = <<>>
    BY <1>2 DEF Polled!Start
  <2>2. CASE Polled!StartOneShot(t)
    <3>1. PICK s \in Polled!Outcomes : entries' = Polled!Put(t, s) /\ backend = "oneShot"
      BY <2>2 DEF Polled!StartOneShot
    <3>2. s \in Left /\ Head(s) \in {"failed", "response"}
      BY DEF Left, Polled!Outcomes
    <3> QED BY <2>1, <3>1, <3>2 DEF PolledInv, Polled!Put
  <2>3. CASE Polled!StartNet(t)
    BY <2>1, <2>3 DEF PolledInv, Polled!StartNet, Polled!Put
  <2> QED BY <1>2, <2>2, <2>3 DEF Polled!Start
<1>3. ASSUME NEW t \in Task, Polled!Poll(t) PROVE PolledInv'
  <2>1. PICK e \in Seam!Event : PollReturned(t, e)
    BY <1>3, PollReturnsAllowed
  <2>2. backend' = backend
    BY <1>3 DEF Polled!Poll
  <2>3. answers' \in [Task -> Seq(Seam!Event)] /\ (\A h \in Task : h # t => answers'[h] = answers[h])
        /\ answers'[t] = Append(answers[t], e)
    BY <2>1 DEF PolledInv, PollReturned
  <2>4. CASE e \in Seam!Terminal /\ entries' = Polled!Drop(t)
    BY <2>2, <2>3, <2>4 DEF PolledInv, Polled!Drop
  <2>5. CASE e \notin Seam!Terminal
    <3>1. entries' = Polled!Put(t, entries'[t])
      BY <2>1, <2>5 DEF PollReturned
    <3>2. backend = "oneShot" => OneShotOK(t)'
      BY <2>1, <2>3, <2>5 DEF PollReturned
    <3>3. backend = "net" => NetOK(t)'
      BY <2>1, <2>3, <2>5 DEF PollReturned
    <3> QED BY <2>2, <2>3, <3>1, <3>2, <3>3 DEF PolledInv, Polled!Put
  <2> QED BY <2>1, <2>4, <2>5 DEF PollReturned
<1>4. ASSUME NEW t \in Task, Polled!Cancel(t) PROVE PolledInv'
  <2>1. answers' = answers /\ backend' = backend /\ t \in DOMAIN entries
    BY <1>4 DEF Polled!Cancel
  <2>2. CASE Polled!CancelOneShot(t)
    <3>1. entries' = Polled!Put(t, <<"cancelled">>) /\ backend = "oneShot"
      BY <2>2 DEF Polled!CancelOneShot
    <3>2. <<"cancelled">> \in Left /\ Head(<<"cancelled">>) = "cancelled"
      BY DEF Left
    <3> QED BY <2>1, <3>1, <3>2 DEF PolledInv, Polled!Put
  <2>3. CASE Polled!CancelNet(t)
    BY <2>1, <2>3 DEF PolledInv, Polled!CancelNet, Polled!Put
  <2> QED BY <1>4, <2>2, <2>3 DEF Polled!Cancel
<1> QED BY <1>1, <1>2, <1>3, <1>4 DEF Polled!Next

\* A step of a polled transport, as the seam sees it.
LEMMA PolledSteps ==
    ASSUME Polled!ChunksDiffer, PolledInv, [Polled!Next]_(Polled!vars)
    PROVE  \/ \E t \in Task : Polled!Seam!Start(t)
           \/ \E t \in Task, e \in Seam!Event : Polled!Seam!Next(t, e)
           \/ UNCHANGED Polled!Seam!vars
<1>1. CASE UNCHANGED Polled!vars
  BY <1>1 DEF Polled!vars, Polled!Seam!vars
<1>2. ASSUME NEW t \in Task, Polled!Start(t) PROVE Polled!Seam!Start(t)
  <2>1. DOMAIN entries' = DOMAIN entries \cup {t}
    BY <1>2 DEF Polled!Start, Polled!StartOneShot, Polled!StartNet, Polled!Put
  <2> QED BY <1>2, <2>1 DEF Polled!Start, Polled!Seam!Start
<1>3. ASSUME NEW t \in Task, Polled!Poll(t) PROVE \E e \in Seam!Event : Polled!Seam!Next(t, e)
  <2>1. PICK e \in Seam!Event : PollReturned(t, e)
    BY <1>3, PollReturnsAllowed
  <2>2. DOMAIN entries' = IF e \in Seam!Terminal THEN DOMAIN entries \ {t} ELSE DOMAIN entries
    <3>1. CASE e \in Seam!Terminal
      BY <2>1, <3>1 DEF PollReturned, Polled!Drop
    <3>2. CASE e \notin Seam!Terminal
      BY <2>1, <3>2 DEF PollReturned, Polled!Put
    <3> QED BY <3>1, <3>2
  <2>3. /\ e \in Polled!Seam!Allowed(answers[t])
        /\ e \in Polled!Seam!Terminal <=> e \in Seam!Terminal
    BY <2>1 DEF PollReturned, Polled!Seam!Allowed, Seam!Allowed, Polled!Seam!Terminal, Seam!Terminal,
       Polled!Seam!Failure, Seam!Failure
  <2> QED BY <2>1, <2>2, <2>3 DEF PollReturned, Polled!Seam!Next
<1>4. ASSUME NEW t \in Task, Polled!Cancel(t) PROVE UNCHANGED Polled!Seam!vars
  <2>1. DOMAIN entries' = DOMAIN entries
    BY <1>4 DEF Polled!Cancel, Polled!CancelOneShot, Polled!CancelNet, Polled!Put
  <2> QED BY <1>4, <2>1 DEF Polled!Cancel, Polled!Seam!vars
<1> QED BY <1>1, <1>2, <1>3, <1>4 DEF Polled!Next

\* The one-shot defaults of the seam and NetTransport implement the seam's
\* contract by themselves, whatever is cancelled between two polls: events in
\* order, one that ends the request, and nothing after it.
THEOREM PolledImplement ==
    ASSUME Polled!ChunksDiffer
    PROVE  Polled!Spec => Polled!Seam!Spec
<1>1. Polled!Init => PolledInv /\ Polled!Seam!Init
  BY DEF Polled!Init, PolledInv, Polled!Seam!Init
<1>2. PolledInv /\ [Polled!Next]_(Polled!vars) => PolledInv'
  BY PolledSound
<1>3. PolledInv /\ [Polled!Next]_(Polled!vars) => [Polled!Seam!Step]_(Polled!Seam!vars)
  <2>1. Seam!Event = Polled!Seam!Event
    BY DEF Seam!Event, Polled!Seam!Event, Seam!Terminal, Polled!Seam!Terminal, Seam!Failure,
       Polled!Seam!Failure
  <2> QED BY <2>1, PolledSteps DEF Polled!Seam!Step
<1> QED BY <1>1, <1>2, <1>3, PTL DEF Polled!Spec, Polled!Seam!Spec
-----------------------------------------------------------------------------
(* The streaming transport, with a host that keeps to the order            *)

\* What the host got into the queues came in the order of the seam.
HostOrder ==
    orderly => \A t \in Task : \A i \in DOMAIN sent[t] :
        sent[t][i] \in IF i = 1 THEN {"response", "failed"} ELSE Chunk \cup {"done", "failed"}

LEMMA SentStep ==
    ASSUME StreamInv, [Next]_vars, NEW t \in Task
    PROVE  sent'[t] = sent[t] \/ \E e \in HostEvent : sent'[t] = Append(sent[t], e)
<1>1. CASE \E u \in Task, m \in HostMessage : Push(u, m)
  <2>1. PICK u \in Task, m \in HostMessage : Push(u, m)
    BY <1>1
  <2>2. Decode(m) \in HostEvent
    BY DEF Decode, HostMessage, HostEvent
  <2>3. sent' = sent \/ sent' = [sent EXCEPT ![u] = Append(@, Decode(m))]
    BY <2>1 DEF Push
  <2>4. sent \in [Task -> Seq(HostEvent)]
    BY DEF StreamInv, TypeOK
  <2> QED BY <2>2, <2>3, <2>4
<1>2. CASE ~\E u \in Task, m \in HostMessage : Push(u, m)
  <2>1. sent' = sent
    BY <1>2, Zenon DEF Next, vars, Start, Cancel, NextEvent, Receive, Sleep, GiveUp, TimeOut,
       DeadlinePasses, TimerFires, SpuriousWake, EndRun
  <2> QED BY <2>1
<1> QED BY <1>1, <1>2

LEMMA HostOrderStep ==
    ASSUME StreamInv, HostOrder, [Next]_vars, orderly' => orderly /\ KeepsOrder
    PROVE  HostOrder'
<1> SUFFICES ASSUME orderly', NEW t \in Task, NEW i \in DOMAIN sent'[t]
             PROVE  sent'[t][i] \in IF i = 1 THEN {"response", "failed"}
                                    ELSE Chunk \cup {"done", "failed"}
  BY DEF HostOrder
<1>1. sent[t] \in Seq(HostEvent) /\ Len(sent[t]) \in Nat
  BY DEF StreamInv, TypeOK
<1>2. CASE sent'[t] = sent[t]
  BY <1>2 DEF HostOrder
<1>3. CASE \E e \in HostEvent : sent'[t] = Append(sent[t], e)
  <2>1. PICK e \in HostEvent : sent'[t] = Append(sent[t], e)
    BY <1>3
  <2>2. /\ Len(sent'[t]) = Len(sent[t]) + 1 /\ DOMAIN sent'[t] = 1..(Len(sent[t]) + 1)
        /\ \A k \in DOMAIN sent[t] : sent'[t][k] = sent[t][k]
        /\ sent'[t][Len(sent[t]) + 1] = e
    BY <1>1, <2>1, Appended
  <2>3. e \in InOrder(sent[t])
    <3>1. sent'[t] # sent[t]
      BY <1>1, <2>2
    <3> QED BY <2>2, <3>1 DEF KeepsOrder
  <2>4. CASE i = Len(sent[t]) + 1
    <3>1. CASE sent[t] = <<>>
      <4>1. i = 1
        BY <2>4, <3>1
      <4>2. e \in {"response", "failed"}
        BY <2>3, <3>1 DEF InOrder
      <4> QED BY <2>2, <2>4, <4>1, <4>2
    <3>2. CASE sent[t] # <<>>
      <4>1. i # 1
        BY <1>1, <2>4, <3>2
      <4>2. e \in Chunk \cup {"done", "failed"}
        BY <2>3, <3>2 DEF InOrder
      <4> QED BY <2>2, <2>4, <4>1, <4>2
    <3> QED BY <3>1, <3>2
  <2>5. CASE i # Len(sent[t]) + 1
    <3>1. i \in DOMAIN sent[t]
      BY <1>1, <2>2, <2>5
    <3> QED BY <2>2, <3>1 DEF HostOrder
  <2> QED BY <2>4, <2>5
<1> QED BY <1>2, <1>3, SentStep

\* What next_event takes out of the queue is what the seam allows next.
LEMMA ReceiveAllowed ==
    ASSUME StreamInv, HostOrder, orderly, NEW t \in Task, Receive(t)
    PROVE  t \in pending /\ Head(queue[t]) \in Seam!Allowed(got[t]) /\ Head(queue[t]) \in Event
<1>1. /\ TypeOK /\ CallSound /\ Continues(t) /\ queue[t] # <<>>
      /\ queue[t] \in Seq(Event) /\ got[t] \in Seq(Event) /\ Len(got[t]) \in Nat
  BY DEF StreamInv, TypeOK, Receive, Sound
<1>2. t \in pending
  BY <1>1 DEF Receive, Waiting, CallSound, At
<1> DEFINE e == Head(queue[t])
<1>3. e \in Event /\ e = queue[t][1] /\ 1 \in DOMAIN queue[t]
  BY <1>1, Taken
<1> HIDE DEF e
<1>4. \/ Len(got[t]) + 1 \in DOMAIN sent[t] /\ e = sent[t][Len(got[t]) + 1]
      \/ e \in MadeUp
  BY <1>1, <1>2, <1>3 DEF Continues
<1>5. e \in MadeUp => e \in Seam!Allowed(got[t])
  BY DEF MadeUp, Seam!Allowed, Seam!Failure, Seam!Terminal
<1>6. ASSUME Len(got[t]) + 1 \in DOMAIN sent[t], e = sent[t][Len(got[t]) + 1]
      PROVE  e \in Seam!Allowed(got[t])
  <2>1. CASE got[t] = <<>>
    <3>1. Len(got[t]) + 1 = 1
      BY <2>1
    <3>2. e \in {"response", "failed"}
      BY <1>6, <3>1 DEF HostOrder
    <3> QED BY <2>1, <3>2 DEF Seam!Allowed, Seam!Failure
  <2>2. CASE got[t] # <<>>
    <3>1. Len(got[t]) + 1 # 1
      BY <1>1, <2>2
    <3>2. e \in Chunk \cup {"done", "failed"}
      BY <1>6, <3>1 DEF HostOrder
    <3> QED BY <2>2, <3>2 DEF Seam!Allowed, Seam!Failure, Seam!Terminal
  <2> QED BY <2>1, <2>2
<1> QED BY <1>2, <1>3, <1>4, <1>5, <1>6 DEF e

\* A step of the streaming transport, as the seam sees it: the rest is hidden
\* behind the queue.
LEMMA HostSteps ==
    ASSUME StreamInv, HostOrder, orderly, backend = "host", backend' = "host", [Next]_vars
    PROVE  [Seam!Step]_(Seam!vars)
<1>1. CASE UNCHANGED <<pending, got>>
  BY <1>1 DEF Seam!vars
<1>2. ASSUME NEW t \in Task, Start(t) PROVE Seam!Start(t)
  <2>1. Fresh(t) /\ Closed(t)
    BY DEF StreamInv, Sound
  <2> QED BY <1>2, <2>1 DEF Start, Fresh, Closed, Seam!Start
<1>3. Seam!Event = Event /\ Seam!Terminal = Terminal
  BY DEF Seam!Event, Seam!Terminal, Seam!Failure, Event, HostEvent, Terminal
<1>4. ASSUME NEW t \in Task, Receive(t) PROVE \E e \in Seam!Event : Seam!Next(t, e)
  <2>1. t \in pending /\ Head(queue[t]) \in Seam!Allowed(got[t]) /\ Head(queue[t]) \in Event
    BY <1>4, ReceiveAllowed
  <2>2. /\ got' = [got EXCEPT ![t] = Append(@, Head(queue[t]))]
        /\ pending' = IF Head(queue[t]) \in Terminal THEN pending \ {t} ELSE pending
    BY <1>4 DEF Receive, PendingAfter
  <2>3. Seam!Next(t, Head(queue[t]))
    BY <1>3, <2>1, <2>2 DEF Seam!Next
  <2> QED BY <1>3, <2>1, <2>3
<1>5. ASSUME NEW t \in Task, TimeOut(t) PROVE \E e \in Seam!Event : Seam!Next(t, e)
  <2>1. t \in pending
    BY <1>5 DEF StreamInv, CallSound, TimeOut, At
  <2>2. "timedOut" \in Seam!Allowed(got[t]) /\ "timedOut" \in Seam!Terminal /\ "timedOut" \in Seam!Event
    BY DEF Seam!Allowed, Seam!Failure, Seam!Terminal, Seam!Event
  <2>3. Seam!Next(t, "timedOut")
    BY <1>5, <2>1, <2>2 DEF Seam!Next, TimeOut
  <2> QED BY <2>2, <2>3
<1>6. CASE EndRun
  BY <1>6 DEF EndRun, Seam!Drop, Seam!Step
<1>7. \/ UNCHANGED <<pending, got>> \/ EndRun
      \/ \E t \in Task : Start(t) \/ Receive(t) \/ TimeOut(t)
  BY Zenon DEF Next, vars, Cancel, NextEvent, Sleep, GiveUp, DeadlinePasses, TimerFires, SpuriousWake, Push
<1> QED BY <1>1, <1>2, <1>4, <1>5, <1>6, <1>7 DEF Seam!Step
-----------------------------------------------------------------------------
(* The transport of a run                                                  *)

RunInv ==
    /\ backend \in {"host", "oneShot", "net"}
    /\ StreamInv /\ HostOrder
    /\ backend # "host" => PolledInv

\* Every step of the transport of a run is one the seam allows, whichever it
\* is and whatever its host's threads do, as long as the events of a streaming
\* host come in order.
THEOREM Implements == RunSpec => ImplementsSeam
<1>1. Polled!ChunksDiffer
  BY ChunksDiffer DEF Polled!ChunksDiffer, Terminal
<1>2. RunInit => RunInv /\ Seam!Init
  <2> SUFFICES ASSUME RunInit PROVE RunInv /\ Seam!Init
    OBVIOUS
  <2>1. StreamInv
    BY InitSound DEF RunInit
  <2>2. HostOrder
    BY DEF RunInit, Init, HostOrder
  <2>3. backend # "host" => PolledInv
    BY DEF RunInit, PolledInv
  <2>4. Seam!Init
    BY DEF RunInit, Init, Seam!Init
  <2> QED BY <2>1, <2>2, <2>3, <2>4 DEF RunInit, RunInv
<1>3. RunInv /\ [RunNext]_RunVars =>
          RunInv' /\ [orderly' => [Seam!Step]_(Seam!vars)]_RunVars
  <2> SUFFICES ASSUME RunInv, [RunNext]_RunVars
               PROVE  RunInv' /\ (orderly' => [Seam!Step]_(Seam!vars))
    OBVIOUS
  <2>1. CASE backend = "host"
    <3>1. CASE UNCHANGED RunVars
      <4>1. [Next]_vars /\ backend' = backend /\ orderly' = orderly
        BY <3>1 DEF RunVars
      <4>2. KeepsOrder
        BY <3>1 DEF RunVars, vars, KeepsOrder
      <4>3. HostOrder' /\ StreamInv'
        BY <4>1, <4>2, StreamNext, HostOrderStep DEF RunInv
      <4>4. UNCHANGED Seam!vars
        BY <2>1, <3>1 DEF RunVars, vars, Seam!vars
      <4> QED BY <2>1, <4>1, <4>3, <4>4 DEF RunInv
    <3>2. CASE RunNext
      <4>1. Next /\ orderly' = (orderly /\ KeepsOrder) /\ backend' = backend
        BY <2>1, <3>2, Zenon DEF RunNext
      <4>2. orderly' => orderly /\ KeepsOrder
        BY <4>1
      <4>3. StreamInv' /\ HostOrder'
        BY <4>1, <4>2, StreamNext, HostOrderStep DEF RunInv
      <4>4. orderly' => [Seam!Step]_(Seam!vars)
        BY <2>1, <4>1, <4>2, HostSteps DEF RunInv
      <4> QED BY <2>1, <4>1, <4>3, <4>4 DEF RunInv
    <3> QED BY <3>1, <3>2
  <2>2. CASE backend # "host"
    <3>1. [Polled!Next]_(Polled!vars) /\ UNCHANGED <<vars, orderly>>
      BY <2>2 DEF RunNext, RunVars, PolledVars, Polled!vars
    <3>2. PolledInv' /\ backend' \in {"oneShot", "net"}
      <4>1. PolledInv'
        BY <1>1, <2>2, <3>1, PolledSound DEF RunInv
      <4> QED BY <4>1 DEF PolledInv
    <3>3. StreamInv'
      BY <3>1, StreamNext DEF RunInv
    <3>4. HostOrder'
      BY <3>1 DEF RunInv, HostOrder, vars
    <3>5. [Seam!Step]_(Seam!vars)
      <4>1. CASE \E t \in Task : Polled!Seam!Start(t)
        BY <2>2, <3>2, <4>1 DEF Polled!Seam!Start, Seam!Start, Seam!Step
      <4>2. CASE \E t \in Task, e \in Seam!Event : Polled!Seam!Next(t, e)
        <5>1. PICK t \in Task, e \in Seam!Event : Polled!Seam!Next(t, e)
          BY <4>2
        <5>2. Seam!Next(t, e)
          BY <2>2, <3>2, <5>1 DEF Polled!Seam!Next, Seam!Next, Polled!Seam!Allowed, Seam!Allowed,
             Polled!Seam!Terminal, Seam!Terminal, Polled!Seam!Failure, Seam!Failure
        <5> QED BY <5>2 DEF Seam!Step
      <4>3. CASE UNCHANGED Polled!Seam!vars
        BY <2>2, <3>2, <4>3 DEF Polled!Seam!vars, Seam!vars
      <4> QED BY <1>1, <2>2, <3>1, <4>1, <4>2, <4>3, PolledSteps DEF RunInv
    <3> QED BY <2>2, <3>2, <3>3, <3>4, <3>5 DEF RunInv
  <2> QED BY <2>1, <2>2
<1> QED BY <1>2, <1>3, PTL DEF RunSpec, ImplementsSeam
=============================================================================
