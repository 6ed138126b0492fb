--------------------------- MODULE TestRunnerProofs ---------------------------
(* What a test's status says of its body, for any tests, any argument lists *)
(* and any body, however many checks, throws and nested blocks it has.      *)
EXTENDS TestRunner, FiniteSetTheorems, SequenceTheorems, TLAPS

Session ==
    [issues : [known : Nat, real : Nat], aborted : BOOLEAN, known_depth : Nat]

FrameType ==
    [block : Blocks \cup {"body", "over"}, before : Nat, saw : BOOLEAN, wrong : BOOLEAN]

\* The body is the outermost frame, and the only one that is no block.
Shaped ==
    /\ session \in Session
    /\ frames \in Seq(FrameType)
    /\ frames # <<>>
    /\ \A i \in 1..Len(frames) : frames[i].block \in {"body", "over"} <=> i = Len(frames)
    /\ \A i \in 1..Len(frames) : frames[i].block = "over" => Len(frames) = 1

RunShape ==
    /\ unwinding \in {"no", "throw", "trap"}
    /\ aborting \in BOOLEAN /\ swallowed \in BOOLEAN
    /\ aborting => unwinding = "throw"
    /\ session # None => Shaped
-----------------------------------------------------------------------------
(* The frames of a run                                                     *)

LEMMA TopIs ==
    ASSUME Shaped
    PROVE  /\ Len(frames) \in Nat \ {0} /\ Top = frames[1] /\ Top \in FrameType
           /\ DOMAIN frames = 1..Len(frames)
           /\ \A i \in 1..Len(frames) : frames[i] \in FrameType
           /\ Top.block \in {"body", "over"} <=> Len(frames) = 1
           /\ Len(frames) > 1 => frames[2].block # "over"
<1>1. Len(frames) \in Nat \ {0} /\ DOMAIN frames = 1..Len(frames)
  BY DEF Shaped
<1>2. \A i \in 1..Len(frames) : frames[i].block = "over" => Len(frames) = 1
  BY DEF Shaped
<1>3. Len(frames) > 1 => frames[2].block # "over"
  BY <1>1, <1>2
<1>4. frames \in Seq(FrameType) /\ frames # <<>>
  BY DEF Shaped
<1>5. Top = frames[1] /\ \A i \in 1..Len(frames) : frames[i] \in FrameType
  BY <1>4 DEF Top
<1>6. frames[1].block \in {"body", "over"} <=> 1 = Len(frames)
  <2>1. \A i \in 1..Len(frames) : frames[i].block \in {"body", "over"} <=> i = Len(frames)
    BY DEF Shaped
  <2>2. 1 \in 1..Len(frames)
    BY <1>1
  <2> QED BY <2>1, <2>2
<1> QED BY <1>1, <1>3, <1>5, <1>6

\* What a step does to the frames: something is noted in the innermost one, a
\* block is entered, a block is left, or the body is.
Noted(saw, wrong) ==
    /\ frames' \in Seq(FrameType) /\ Len(frames') = Len(frames)
    /\ frames'[1] = [frames[1] EXCEPT !.saw = saw, !.wrong = wrong]
    /\ \A i \in 2..Len(frames) : frames'[i] = frames[i]

Entered(block) ==
    /\ frames' \in Seq(FrameType) /\ Len(frames') = Len(frames) + 1
    /\ frames'[1] = Frame(block)
    /\ \A i \in 1..Len(frames) : frames'[i + 1] = frames[i]

BlockLeft(saw, wrong) ==
    /\ Len(frames) > 1
    /\ frames' \in Seq(FrameType) /\ Len(frames') = Len(frames) - 1
    /\ frames'[1] = [frames[2] EXCEPT !.saw = saw, !.wrong = wrong]
    /\ \A i \in 2..(Len(frames) - 1) : frames'[i] = frames[i + 1]

BodyLeft(wrong) ==
    /\ Len(frames) = 1
    /\ frames' \in Seq(FrameType) /\ Len(frames') = 1
    /\ frames'[1] = [frames[1] EXCEPT !.block = "over", !.wrong = wrong]

LEMMA FirstSet ==
    ASSUME NEW s \in Seq(FrameType), 1 \in 1..Len(s), NEW f \in FrameType
    PROVE  /\ [s EXCEPT ![1] = f] \in Seq(FrameType) /\ Len([s EXCEPT ![1] = f]) = Len(s)
           /\ \A j \in 1..Len(s) : [s EXCEPT ![1] = f][j] = IF j = 1 THEN f ELSE s[j]
BY ExceptSeq

LEMMA WrongIs ==
    ASSUME Shaped, frames' = Wrong
    PROVE  Noted(TRUE, TRUE)
<1> DEFINE g == [frames[1] EXCEPT !.saw = TRUE, !.wrong = TRUE]
<1>1. frames \in Seq(FrameType) /\ 1 \in 1..Len(frames) /\ frames[1] \in FrameType
  BY TopIs DEF Shaped
<1>2. g \in FrameType
  BY <1>1 DEF FrameType
<1>3. frames' = [frames EXCEPT ![1] = g]
  BY <1>1 DEF Wrong
<1> HIDE DEF g
<1>4. /\ frames' \in Seq(FrameType) /\ Len(frames') = Len(frames)
      /\ \A j \in 1..Len(frames) : frames'[j] = IF j = 1 THEN g ELSE frames[j]
  <2>1. /\ [frames EXCEPT ![1] = g] \in Seq(FrameType)
        /\ Len([frames EXCEPT ![1] = g]) = Len(frames)
        /\ \A j \in 1..Len(frames) : [frames EXCEPT ![1] = g][j] = IF j = 1 THEN g ELSE frames[j]
    BY <1>1, <1>2, FirstSet
  <2> QED BY <1>3, <2>1, Zenon
<1> QED BY <1>1, <1>4 DEF Noted, g

LEMMA UnchangedIs ==
    ASSUME Shaped, frames' = frames
    PROVE  Noted(Top.saw, Top.wrong)
BY TopIs DEF Noted, Shaped, FrameType

LEMMA EnterIs ==
    ASSUME Shaped, NEW block \in Blocks, frames' = <<Frame(block)>> \o frames
    PROVE  Entered(block)
<1> DEFINE f == Frame(block)
<1>1. f \in FrameType
  BY DEF Frame, FrameType, Shaped, Session, Count
<1>2. frames \in Seq(FrameType)
  BY DEF Shaped
<1> HIDE DEF f
<1>3. <<f>> \in Seq(FrameType) /\ Len(<<f>>) = 1 /\ <<f>>[1] = f
  BY <1>1
<1>4. /\ frames' \in Seq(FrameType) /\ Len(frames') = 1 + Len(frames)
      /\ \A i \in 1..(1 + Len(frames)) :
            frames'[i] = IF i <= 1 THEN <<f>>[i] ELSE frames[i - 1]
  BY <1>2, <1>3, ConcatProperties DEF f
<1>5. frames'[1] = f /\ \A i \in 1..Len(frames) : frames'[i + 1] = frames[i]
  BY <1>2, <1>3, <1>4
<1> QED BY <1>2, <1>4, <1>5 DEF Entered, f

LEMMA RestIs ==
    ASSUME Shaped, Top.block \in Blocks, NEW saw \in BOOLEAN, NEW wrong \in BOOLEAN,
           frames' = [Tail(frames) EXCEPT ![1] = [frames[2] EXCEPT !.saw = saw, !.wrong = wrong]]
    PROVE  BlockLeft(saw, wrong)
<1> DEFINE rest == Tail(frames)
           g == [frames[2] EXCEPT !.saw = saw, !.wrong = wrong]
<1>1. Len(frames) \in Nat /\ Len(frames) > 1 /\ frames[2] \in FrameType
  BY TopIs DEF Blocks
<1>2. g \in FrameType
  BY <1>1 DEF FrameType
<1>3. /\ rest \in Seq(FrameType) /\ Len(rest) = Len(frames) - 1
      /\ \A i \in 1..Len(rest) : rest[i] = frames[i + 1]
  BY HeadTailProperties DEF Shaped
<1>4. rest[1] = frames[2] /\ 1 \in 1..Len(rest)
  BY <1>1, <1>3
<1>5. frames' = [rest EXCEPT ![1] = g]
  OBVIOUS
<1> HIDE DEF rest, g
<1>6. /\ frames' \in Seq(FrameType) /\ Len(frames') = Len(rest)
      /\ \A j \in 1..Len(rest) : frames'[j] = IF j = 1 THEN g ELSE rest[j]
  <2>1. rest \in Seq(FrameType) /\ 1 \in 1..Len(rest) /\ g \in FrameType
    BY <1>2, <1>3, <1>4
  <2>2. /\ [rest EXCEPT ![1] = g] \in Seq(FrameType) /\ Len([rest EXCEPT ![1] = g]) = Len(rest)
        /\ \A j \in 1..Len(rest) : [rest EXCEPT ![1] = g][j] = IF j = 1 THEN g ELSE rest[j]
    BY <2>1, FirstSet
  <2> QED BY <1>5, <2>2, Zenon
<1>7. frames'[1] = g /\ \A i \in 2..(Len(frames) - 1) : frames'[i] = frames[i + 1]
  BY <1>1, <1>3, <1>4, <1>6
<1> QED BY <1>1, <1>3, <1>6, <1>7 DEF BlockLeft, g

LEMMA TailIs ==
    ASSUME Shaped, Top.block \in Blocks
    PROVE  /\ Tail(frames)[1] = frames[2] /\ 1 \in DOMAIN Tail(frames)
           /\ frames[2] \in FrameType /\ Top \in FrameType
<1>1. Len(frames) \in Nat /\ Len(frames) > 1 /\ frames[2] \in FrameType /\ Top \in FrameType
  BY TopIs DEF Blocks
<1>2. /\ Tail(frames) \in Seq(FrameType) /\ Len(Tail(frames)) = Len(frames) - 1
      /\ \A i \in 1..Len(Tail(frames)) : Tail(frames)[i] = frames[i + 1]
  BY HeadTailProperties DEF Shaped
<1> QED BY <1>1, <1>2

LEMMA AroundIs ==
    ASSUME Shaped, Top.block \in Blocks, NEW w \in BOOLEAN, frames' = Around(w)
    PROVE  BlockLeft(frames[2].saw \/ Top.saw \/ w, frames[2].wrong \/ w)
<1> DEFINE rest == Tail(frames)
<1>1. /\ rest[1] = frames[2] /\ 1 \in DOMAIN rest
      /\ frames[2] \in FrameType /\ Top \in FrameType
  BY TailIs
<1>2. frames' = [rest EXCEPT ![1].saw = @ \/ Top.saw \/ w, ![1].wrong = @ \/ w]
  BY DEF Around
<1> HIDE DEF rest
<1>3. frames' = [rest EXCEPT ![1] = [frames[2] EXCEPT !.saw = frames[2].saw \/ Top.saw \/ w,
                                                      !.wrong = frames[2].wrong \/ w]]
  BY <1>1, <1>2 DEF FrameType
<1>4. (frames[2].saw \/ Top.saw \/ w) \in BOOLEAN /\ (frames[2].wrong \/ w) \in BOOLEAN
  BY <1>1 DEF FrameType
<1> QED BY <1>3, <1>4, RestIs DEF rest

\* A throw stopped by a withKnownIssue was seen in it.
LEMMA AroundSeenIs ==
    ASSUME Shaped, Top.block \in Blocks, frames' = [Around(FALSE) EXCEPT ![1].saw = TRUE]
    PROVE  BlockLeft(TRUE, frames[2].wrong)
<1> DEFINE rest == Tail(frames)
           f == frames[2]
           g == [f EXCEPT !.saw = f.saw \/ Top.saw \/ FALSE, !.wrong = f.wrong \/ FALSE]
<1>1. /\ rest[1] = f /\ 1 \in DOMAIN rest /\ f \in FrameType /\ Top \in FrameType
  BY TailIs
<1>2. frames' = [[rest EXCEPT ![1].saw = @ \/ Top.saw \/ FALSE, ![1].wrong = @ \/ FALSE]
                    EXCEPT ![1].saw = TRUE]
  BY DEF Around
<1> HIDE DEF rest, f
<1>3. [rest EXCEPT ![1].saw = @ \/ Top.saw \/ FALSE, ![1].wrong = @ \/ FALSE]
         = [rest EXCEPT ![1] = g]
  BY <1>1 DEF FrameType
<1>4. [g EXCEPT !.saw = TRUE] = [f EXCEPT !.saw = TRUE, !.wrong = f.wrong]
  BY <1>1 DEF FrameType
<1> HIDE DEF g
<1>5. [[rest EXCEPT ![1] = g] EXCEPT ![1].saw = TRUE] = [rest EXCEPT ![1] = [g EXCEPT !.saw = TRUE]]
  BY <1>1
<1>6. frames' = [rest EXCEPT ![1] = [f EXCEPT !.saw = TRUE, !.wrong = f.wrong]]
  BY <1>2, <1>3, <1>4, <1>5
<1>7. f.wrong \in BOOLEAN
  BY <1>1 DEF FrameType
<1> QED BY <1>6, <1>7, RestIs DEF rest, f

LEMMA BodyLeftIs ==
    ASSUME Shaped, Top.block = "body", NEW w \in BOOLEAN,
           frames' = <<[Top EXCEPT !.block = "over", !.wrong = w]>>
    PROVE  BodyLeft(w)
<1> DEFINE g == [Top EXCEPT !.block = "over", !.wrong = w]
<1>1. Len(frames) = 1 /\ Top = frames[1] /\ g \in FrameType
  BY TopIs DEF FrameType
<1> HIDE DEF g
<1>2. <<g>> \in Seq(FrameType) /\ Len(<<g>>) = 1 /\ <<g>>[1] = g
  BY <1>1
<1> QED BY <1>1, <1>2 DEF BodyLeft, g
-----------------------------------------------------------------------------
(* The steps of a body                                                     *)

\* ExpectFails.
Checked ==
    /\ unwinding = "no" /\ Top.block # "over" /\ Noted(TRUE, TRUE)
    /\ session' = Recorded(session)
    /\ UNCHANGED <<unwinding, aborting, swallowed>>

\* RequireFails.
Required ==
    /\ unwinding = "no" /\ Top.block # "over" /\ Noted(TRUE, TRUE)
    /\ session' = Aborted(Recorded(session))
    /\ unwinding' = "throw" /\ aborting' = TRUE
    /\ UNCHANGED swallowed

\* Fails.
Failed ==
    /\ unwinding = "no" /\ Top.block # "over" /\ Noted(Top.saw, Top.wrong)
    /\ unwinding' \in {"throw", "trap"} /\ aborting' = FALSE
    /\ UNCHANGED <<session, swallowed>>

\* Enter.
BlockEntered(block) ==
    /\ unwinding = "no" /\ Top.block # "over" /\ Entered(block)
    /\ session' = IF block = "known" THEN Pushed(session) ELSE session
    /\ UNCHANGED <<unwinding, aborting, swallowed>>

\* Leave, Throw and Trap at the body.
BodyOver ==
    /\ Top.block = "body"
    /\ BodyLeft(IF unwinding = "no" THEN Top.wrong ELSE TRUE)
    /\ UNCHANGED <<session, unwinding, aborting, swallowed>>

Stopped == swallowed' = (swallowed \/ (aborting /\ InKnown))

\* A do/catch is left; or it stops a throw, or a #expect(throws:) the one it expects.
Passed ==
    /\ unwinding \in {"no", "throw"} /\ Top.block \in Blocks \ {"known"}
    /\ BlockLeft(frames[2].saw \/ Top.saw \/ Top.wrong, frames[2].wrong \/ Top.wrong)
    /\ UNCHANGED session
    /\ Calm /\ Stopped

\* A #expect(throws:) or #require(throws:) gets no throw, or another.
Unmet ==
    /\ unwinding \in {"no", "throw"} /\ Top.block \in {"expectThrows", "requireThrows"}
    /\ BlockLeft(TRUE, TRUE)
    /\ \/ session' = Recorded(session) /\ Calm
       \/ /\ session' = Aborted(Recorded(session))
          /\ unwinding' = "throw" /\ aborting' = TRUE
    /\ Stopped

\* A withKnownIssue is left.
KnownLeft ==
    /\ unwinding = "no" /\ Top.block = "known"
    /\ BlockLeft(TRUE, frames[2].wrong \/ ~Top.saw)
    /\ session' = IF NewlyRecorded THEN Popped(session) ELSE Recorded(Popped(session))
    /\ Calm
    /\ UNCHANGED swallowed

\* A withKnownIssue stops a throw.
KnownThrown ==
    /\ unwinding = "throw" /\ Top.block = "known"
    /\ BlockLeft(TRUE, frames[2].wrong)
    /\ session' = Popped([(IF session.aborted THEN session ELSE Recorded(session))
                            EXCEPT !.aborted = FALSE])
    /\ Calm
    /\ UNCHANGED swallowed

\* A trap leaves a block.
TrapPassed ==
    /\ unwinding = "trap" /\ Top.block \in Blocks
    /\ BlockLeft(frames[2].saw \/ Top.saw \/ Top.wrong, frames[2].wrong \/ Top.wrong)
    /\ session' = TrappedOut
    /\ UNCHANGED <<unwinding, aborting, swallowed>>

BodySteps ==
    \/ Checked \/ Required \/ Failed \/ (\E block \in Blocks : BlockEntered(block))
    \/ BodyOver \/ Passed \/ Unmet \/ KnownLeft \/ KnownThrown \/ TrapPassed

LEMMA BodyIs ==
    ASSUME RunShape, Body
    PROVE  session # None /\ Shaped /\ BodySteps
<1>1. session # None /\ Shaped
  BY DEF Body, ExpectFails, RequireFails, Fails, Enter, Leave, Throw, Trap, Operates, Running,
         RunShape
<1>2. /\ Top \in FrameType /\ (Top.block \in {"body", "over"} <=> Len(frames) = 1)
      /\ Len(frames) > 1 => frames[2] \in FrameType
  BY <1>1, TopIs
<1>3. CASE ExpectFails
  BY <1>1, <1>3, WrongIs DEF ExpectFails, Operates, Running, BodySteps, Checked
<1>4. CASE RequireFails
  BY <1>1, <1>4, WrongIs DEF RequireFails, Operates, Running, BodySteps, Required
<1>5. CASE Fails
  BY <1>1, <1>5, UnchangedIs DEF Fails, Operates, Running, BodySteps, Failed
<1>6. ASSUME NEW block \in Blocks, Enter(block) PROVE BodySteps
  BY <1>1, <1>6, EnterIs DEF Enter, Operates, Running, BodySteps, BlockEntered
<1>7. CASE Leave
  <2>0. unwinding = "no" /\ swallowed' = swallowed /\ aborting = FALSE /\ swallowed \in BOOLEAN
    BY <1>7 DEF Leave, Running, RunShape
  <2>1. CASE Top.block = "body"
    <3>1. frames' = <<[Top EXCEPT !.block = "over"]>> /\ session' = session /\ Calm
      BY <1>7, <2>1 DEF Leave
    <3>2. frames' = <<[Top EXCEPT !.block = "over", !.wrong = Top.wrong]>> /\ Top.wrong \in BOOLEAN
      BY <1>2, <3>1 DEF FrameType
    <3> QED BY <1>1, <2>0, <2>1, <3>1, <3>2, BodyLeftIs DEF BodySteps, BodyOver, Calm
  <2>2. CASE Top.block = "catch"
    <3>1. frames' = Around(Top.wrong) /\ session' = session /\ Calm /\ Top.wrong \in BOOLEAN
      BY <1>2, <1>7, <2>2 DEF Leave, FrameType
    <3> QED BY <1>1, <2>0, <2>2, <3>1, AroundIs DEF BodySteps, Passed, Blocks, Stopped
  <2>3. CASE Top.block = "known"
    <3>1. frames' = Around(~Top.saw) /\ Top.saw \in BOOLEAN /\ Calm
          /\ session' = IF NewlyRecorded THEN Popped(session) ELSE Recorded(Popped(session))
      BY <1>2, <1>7, <2>3 DEF Leave, FrameType
    <3>2. BlockLeft(frames[2].saw \/ Top.saw \/ ~Top.saw, frames[2].wrong \/ ~Top.saw)
      BY <1>1, <2>3, <3>1, AroundIs DEF Blocks
    <3>3. (frames[2].saw \/ Top.saw \/ ~Top.saw) = TRUE
      BY <3>1
    <3>4. BlockLeft(TRUE, frames[2].wrong \/ ~Top.saw)
      BY <3>2, <3>3 DEF BlockLeft
    <3>5. KnownLeft
      BY <2>0, <2>3, <3>1, <3>4, Zenon DEF KnownLeft
    <3> QED BY <1>1, <3>5 DEF BodySteps
  <2>4. CASE Top.block \in {"expectThrows", "requireThrows"}
    <3>1. /\ frames' = Around(TRUE)
          /\ \/ session' = Recorded(session) /\ Calm
             \/ /\ session' = Aborted(Recorded(session))
                /\ unwinding' = "throw" /\ aborting' = TRUE
      BY <1>7, <2>4 DEF Leave
    <3>2. BlockLeft(frames[2].saw \/ Top.saw \/ TRUE, frames[2].wrong \/ TRUE)
      BY <1>1, <2>4, <3>1, AroundIs DEF Blocks
    <3>3. (frames[2].saw \/ Top.saw \/ TRUE) = TRUE /\ (frames[2].wrong \/ TRUE) = TRUE
      OBVIOUS
    <3>4. BlockLeft(TRUE, TRUE)
      BY <3>2, <3>3 DEF BlockLeft
    <3> QED BY <1>1, <2>0, <2>4, <3>1, <3>4 DEF BodySteps, Unmet, Stopped
  <2> QED BY <1>7, <2>1, <2>2, <2>3, <2>4 DEF Leave
<1>8. CASE Throw
  <2>0. unwinding = "throw" /\ swallowed \in BOOLEAN
    BY <1>8 DEF Throw, RunShape
  <2>1. CASE Top.block = "body"
    <3>1. /\ frames' = <<[Top EXCEPT !.block = "over", !.wrong = TRUE]>>
          /\ UNCHANGED <<session, unwinding, aborting, swallowed>>
      BY <1>8, <2>1 DEF Throw
    <3> QED BY <1>1, <2>0, <2>1, <3>1, BodyLeftIs DEF BodySteps, BodyOver
  <2>2. CASE Top.block = "catch"
    <3>1. frames' = Around(Top.wrong) /\ session' = session /\ Calm /\ Stopped
          /\ Top.wrong \in BOOLEAN
      BY <1>2, <1>8, <2>2 DEF Throw, FrameType, Stopped
    <3> QED BY <1>1, <2>0, <2>2, <3>1, AroundIs DEF BodySteps, Passed, Blocks
  <2>3. CASE Top.block = "known"
    <3>1. /\ frames' = [Around(FALSE) EXCEPT ![1].saw = TRUE] /\ Calm /\ swallowed' = swallowed
          /\ session' = Popped([(IF session.aborted THEN session ELSE Recorded(session))
                                  EXCEPT !.aborted = FALSE])
      BY <1>8, <2>3 DEF Throw
    <3>2. BlockLeft(TRUE, frames[2].wrong)
      BY <1>1, <2>3, <3>1, AroundSeenIs DEF Blocks
    <3>3. KnownThrown
      BY <2>0, <2>3, <3>1, <3>2, Zenon DEF KnownThrown
    <3> QED BY <1>1, <3>3 DEF BodySteps
  <2>4. CASE Top.block \in {"expectThrows", "requireThrows"} /\ frames' = Around(TRUE)
               /\ swallowed' = (swallowed \/ (aborting /\ InKnown))
               /\ IF Top.block = "expectThrows"
                  THEN session' = Recorded(session) /\ Calm
                  ELSE /\ session' = Aborted(Recorded(session))
                       /\ aborting' = TRUE
                       /\ UNCHANGED unwinding
    <3>2. BlockLeft(frames[2].saw \/ Top.saw \/ TRUE, frames[2].wrong \/ TRUE)
      BY <1>1, <2>4, AroundIs DEF Blocks
    <3>3. (frames[2].saw \/ Top.saw \/ TRUE) = TRUE /\ (frames[2].wrong \/ TRUE) = TRUE
      OBVIOUS
    <3>4. BlockLeft(TRUE, TRUE)
      BY <3>2, <3>3 DEF BlockLeft
    <3> QED BY <1>1, <2>0, <2>4, <3>4 DEF BodySteps, Unmet, Stopped
  <2>5. CASE Top.block \in {"expectThrows", "requireThrows"} /\ ~aborting
               /\ frames' = Around(Top.wrong) /\ UNCHANGED <<session, swallowed>> /\ Calm
    <3>1. Top.wrong \in BOOLEAN
      BY <1>2 DEF FrameType
    <3> QED BY <1>1, <2>0, <2>5, <3>1, AroundIs DEF BodySteps, Passed, Blocks, Stopped
  <2> QED BY <1>8, <2>1, <2>2, <2>3, <2>4, <2>5 DEF Throw
<1>9. CASE Trap
  <2>0. unwinding = "trap" /\ Top.block # "over" /\ session' = TrappedOut
        /\ UNCHANGED <<unwinding, aborting, swallowed>> /\ Top.wrong \in BOOLEAN
    BY <1>2, <1>9 DEF Trap, FrameType
  <2>1. CASE Top.block = "body"
    <3>1. frames' = <<[Top EXCEPT !.block = "over", !.wrong = TRUE]>> /\ session' = session
      BY <1>9, <2>0, <2>1 DEF Trap, TrappedOut
    <3> QED BY <1>1, <2>0, <2>1, <3>1, BodyLeftIs DEF BodySteps, BodyOver
  <2>2. CASE Top.block # "body"
    <3>1. frames' = Around(Top.wrong) /\ Top.block \in Blocks
      BY <1>2, <1>9, <2>0, <2>2 DEF Trap, FrameType
    <3> QED BY <1>1, <2>0, <3>1, AroundIs DEF BodySteps, TrapPassed
  <2> QED BY <2>1, <2>2
<1> QED BY <1>1, <1>3, <1>4, <1>5, <1>6, <1>7, <1>8, <1>9 DEF Body

\* What the recording session does.
LEMMA SessionIs ==
    ASSUME NEW s \in Session
    PROVE  /\ Recorded(s) \in Session /\ Recorded(s).known_depth = s.known_depth
           /\ Recorded(s).aborted = s.aborted
           /\ Count(Recorded(s).issues) = Count(s.issues) + 1
           /\ Recorded(s).issues.real = IF s.known_depth > 0 THEN s.issues.real ELSE s.issues.real + 1
           /\ Aborted(s) \in Session /\ Aborted(s).known_depth = s.known_depth
           /\ Aborted(s).aborted = TRUE /\ Aborted(s).issues = s.issues
           /\ [s EXCEPT !.aborted = FALSE] \in Session
           /\ [s EXCEPT !.aborted = FALSE].aborted = FALSE
           /\ [s EXCEPT !.aborted = FALSE].known_depth = s.known_depth
           /\ [s EXCEPT !.aborted = FALSE].issues = s.issues
           /\ Pushed(s) \in Session /\ Pushed(s).known_depth = s.known_depth + 1
           /\ Pushed(s).aborted = s.aborted /\ Pushed(s).issues = s.issues
           /\ Popped(s) \in Session
           /\ Popped(s).known_depth = (IF s.known_depth = 0 THEN 0 ELSE s.known_depth - 1)
           /\ Popped(s).aborted = s.aborted /\ Popped(s).issues = s.issues
           /\ Count(s.issues) \in Nat /\ s.issues.real \in Nat /\ s.known_depth \in Nat
           /\ s.aborted \in BOOLEAN
<1>1. /\ s.issues.known \in Nat /\ s.issues.real \in Nat /\ s.known_depth \in Nat
      /\ s.aborted \in BOOLEAN /\ s.issues \in [known : Nat, real : Nat]
  BY DEF Session
<1>2. /\ Recorded(s) \in Session /\ Recorded(s).known_depth = s.known_depth
      /\ Recorded(s).aborted = s.aborted
      /\ Recorded(s).issues.real = IF s.known_depth > 0 THEN s.issues.real ELSE s.issues.real + 1
      /\ Recorded(s).issues.known = IF s.known_depth > 0 THEN s.issues.known + 1 ELSE s.issues.known
  BY <1>1 DEF Recorded, Session
<1>3. Count(Recorded(s).issues) = Count(s.issues) + 1 /\ Count(s.issues) \in Nat
  BY <1>1, <1>2 DEF Count
<1>4. /\ Aborted(s) \in Session /\ Aborted(s).known_depth = s.known_depth
      /\ Aborted(s).aborted = TRUE /\ Aborted(s).issues = s.issues
      /\ [s EXCEPT !.aborted = FALSE] \in Session
      /\ [s EXCEPT !.aborted = FALSE].aborted = FALSE
      /\ [s EXCEPT !.aborted = FALSE].known_depth = s.known_depth
      /\ [s EXCEPT !.aborted = FALSE].issues = s.issues
  BY <1>1 DEF Aborted, Session
<1>5. /\ Pushed(s) \in Session /\ Pushed(s).known_depth = s.known_depth + 1
      /\ Pushed(s).aborted = s.aborted /\ Pushed(s).issues = s.issues
      /\ Popped(s) \in Session
      /\ Popped(s).known_depth = (IF s.known_depth = 0 THEN 0 ELSE s.known_depth - 1)
      /\ Popped(s).aborted = s.aborted /\ Popped(s).issues = s.issues
  BY <1>1 DEF Pushed, Popped, Session
<1> QED BY <1>1, <1>2, <1>3, <1>4, <1>5
-----------------------------------------------------------------------------
(* Known-issue scopes and what is counted                                  *)

KnownAt(s) == {i \in 1..Len(s) : s[i].block = "known"}

ScopesInv == session # None => session.known_depth = Cardinality(KnownAt(frames))

\* A frame more, in front, is a scope more if it is a withKnownIssue.
LEMMA ShiftedScopes ==
    ASSUME NEW s \in Seq(FrameType), NEW t \in Seq(FrameType), Len(t) = Len(s) + 1,
           \A i \in 1..Len(s) : t[i + 1].block = s[i].block
    PROVE  /\ Cardinality(KnownAt(s)) \in Nat
           /\ Cardinality(KnownAt(t))
                = IF t[1].block = "known" THEN Cardinality(KnownAt(s)) + 1 ELSE Cardinality(KnownAt(s))
<1> DEFINE n == Len(s)
           shifted == {i \in 2..(n + 1) : t[i].block = "known"}
           f == [i \in KnownAt(s) |-> i + 1]
<1>1. n \in Nat
  OBVIOUS
<1>2. IsFiniteSet(KnownAt(s)) /\ Cardinality(KnownAt(s)) \in Nat
  <2>1. IsFiniteSet(1..n) /\ KnownAt(s) \in SUBSET (1..n)
    BY <1>1, FS_Interval DEF KnownAt
  <2> QED BY <2>1, FS_Subset, FS_CardinalityType
<1>3. f \in Bijection(KnownAt(s), shifted)
  <2>1. f \in [KnownAt(s) -> shifted] /\ \A i, j \in KnownAt(s) : f[i] = f[j] => i = j
    BY <1>1 DEF KnownAt
  <2>2. ASSUME NEW j \in shifted PROVE \E i \in KnownAt(s) : f[i] = j
    <3>1. j - 1 \in 1..n /\ t[(j - 1) + 1].block = s[j - 1].block /\ (j - 1) + 1 = j
      BY <1>1, <2>2
    <3>2. j - 1 \in KnownAt(s)
      BY <2>2, <3>1 DEF KnownAt
    <3> QED BY <3>1, <3>2
  <2> QED BY <2>1, <2>2 DEF Bijection, Injection, Surjection, IsInjective
<1>4. IsFiniteSet(shifted) /\ Cardinality(shifted) = Cardinality(KnownAt(s))
  BY <1>2, <1>3, FS_Bijection DEF ExistsBijection
<1>5. 1 \notin shifted
  BY <1>1
<1>6. KnownAt(t) = IF t[1].block = "known" THEN shifted \cup {1} ELSE shifted
  BY <1>1 DEF KnownAt
<1> HIDE DEF shifted
<1>7. Cardinality(shifted \cup {1}) = Cardinality(shifted) + 1
  BY <1>4, <1>5, FS_AddElement
<1> QED BY <1>2, <1>4, <1>6, <1>7

\* No scope is open exactly when no frame is a withKnownIssue.
LEMMA NoScope ==
    ASSUME Shaped
    PROVE  /\ Cardinality(KnownAt(frames)) \in Nat
           /\ Cardinality(KnownAt(frames)) = 0 <=> \A j \in 1..Len(frames) : frames[j].block # "known"
<1>1. Len(frames) \in Nat
  BY TopIs
<1>2. IsFiniteSet(1..Len(frames)) /\ KnownAt(frames) \in SUBSET (1..Len(frames))
  BY <1>1, FS_Interval DEF KnownAt
<1>3. IsFiniteSet(KnownAt(frames))
  BY <1>2, FS_Subset
<1>4. /\ Cardinality(KnownAt(frames)) \in Nat
      /\ Cardinality(KnownAt(frames)) = 0 <=> KnownAt(frames) = {}
  BY <1>3, FS_CardinalityType, FS_EmptySet
<1> QED BY <1>4 DEF KnownAt

LEMMA ScopesNoted ==
    ASSUME Shaped, NEW saw, NEW wrong, Noted(saw, wrong)
    PROVE  KnownAt(frames)' = KnownAt(frames)
<1>1. frames[1] \in FrameType /\ Len(frames) \in Nat
  BY TopIs
<1>2. frames'[1].block = frames[1].block
  BY <1>1 DEF Noted, FrameType
<1>3. \A i \in 1..Len(frames) : frames'[i].block = frames[i].block
  <2> TAKE i \in 1..Len(frames)
  <2>1. i = 1 \/ i \in 2..Len(frames)
    BY <1>1
  <2> QED BY <1>2, <2>1 DEF Noted
<1>4. Len(frames') = Len(frames)
  BY DEF Noted
<1> QED BY <1>3, <1>4 DEF KnownAt

LEMMA ScopesEntered ==
    ASSUME Shaped, NEW block \in Blocks, Entered(block)
    PROVE  Cardinality(KnownAt(frames))'
             = IF block = "known" THEN Cardinality(KnownAt(frames)) + 1
               ELSE Cardinality(KnownAt(frames))
<1>1. /\ frames \in Seq(FrameType) /\ frames' \in Seq(FrameType) /\ Len(frames') = Len(frames) + 1
      /\ \A i \in 1..Len(frames) : frames'[i + 1].block = frames[i].block
      /\ frames'[1].block = block
  BY DEF Entered, Shaped, Frame
<1> QED BY <1>1, ShiftedScopes

LEMMA ScopesLeft ==
    ASSUME Shaped, NEW saw, NEW wrong, BlockLeft(saw, wrong)
    PROVE  /\ Cardinality(KnownAt(frames))' \in Nat
           /\ Cardinality(KnownAt(frames))
                = IF Top.block = "known" THEN Cardinality(KnownAt(frames))' + 1
                  ELSE Cardinality(KnownAt(frames))'
<1>1. /\ frames \in Seq(FrameType) /\ frames' \in Seq(FrameType)
      /\ Len(frames) \in Nat /\ Len(frames) > 1 /\ Top = frames[1]
      /\ Len(frames') = Len(frames) - 1 /\ frames[2] \in FrameType
      /\ frames'[1] = [frames[2] EXCEPT !.saw = saw, !.wrong = wrong]
      /\ \A i \in 2..Len(frames') : frames'[i] = frames[i + 1]
  BY TopIs DEF BlockLeft, Shaped
<1>2. frames'[1].block = frames[2].block
  BY <1>1 DEF FrameType
<1>3. ASSUME NEW i \in 1..Len(frames') PROVE frames[i + 1].block = frames'[i].block
  <2>1. CASE i = 1
    BY <1>2, <2>1
  <2>2. CASE i \in 2..Len(frames')
    BY <1>1, <2>2
  <2> QED BY <1>1, <2>1, <2>2
<1>4. Len(frames) = Len(frames') + 1
  BY <1>1
<1> QED BY <1>1, <1>3, <1>4, ShiftedScopes

LEMMA ShapeKept ==
    ASSUME Shaped, session' \in Session, NEW saw, NEW wrong, NEW block \in Blocks,
           \/ Noted(saw, wrong) \/ (Entered(block) /\ Top.block # "over") \/ BlockLeft(saw, wrong)
           \/ BodyLeft(wrong) /\ Top.block = "body"
    PROVE  Shaped'
<1>0. /\ Len(frames) \in Nat \ {0} /\ Top = frames[1] /\ frames[1] \in FrameType
      /\ Len(frames) > 1 => frames[2] \in FrameType
      /\ \A i \in 1..Len(frames) : frames[i].block \in {"body", "over"} <=> i = Len(frames)
      /\ \A i \in 1..Len(frames) : frames[i].block = "over" => Len(frames) = 1
  BY TopIs DEF Shaped
<1>1. CASE Noted(saw, wrong)
  <2>1. frames'[1].block = frames[1].block
    BY <1>0, <1>1 DEF Noted, FrameType
  <2>2. \A i \in 1..Len(frames) : i = 1 \/ frames'[i] = frames[i]
    BY <1>0, <1>1 DEF Noted
  <2>3. frames' \in Seq(FrameType) /\ Len(frames') = Len(frames)
    BY <1>1 DEF Noted
  <2>4. \A i \in 1..Len(frames) : frames'[i].block = frames[i].block
    BY <2>1, <2>2
  <2>5. frames' # <<>>
    BY <1>0, <2>3
  <2> QED BY <1>0, <2>3, <2>4, <2>5 DEF Shaped
<1>2. CASE Entered(block) /\ Top.block # "over"
  <2>1. frames'[1].block = block /\ block \notin {"body", "over"}
    BY <1>2 DEF Entered, Frame, Blocks
  <2>2. /\ frames' \in Seq(FrameType) /\ Len(frames') = Len(frames) + 1
        /\ \A i \in 1..Len(frames) : frames'[i + 1] = frames[i]
    BY <1>2 DEF Entered
  <2>3. ASSUME NEW i \in 1..Len(frames')
        PROVE  /\ frames'[i].block \in {"body", "over"} <=> i = Len(frames')
               /\ frames'[i].block # "over"
    <3>1. CASE i = 1
      BY <1>0, <2>1, <2>2, <3>1
    <3>2. CASE i # 1
      <4>1. i - 1 \in 1..Len(frames) /\ (i - 1) + 1 = i
        BY <1>0, <2>2, <3>2
      <4>2. frames'[i] = frames[i - 1]
        <5>1. frames'[(i - 1) + 1] = frames[i - 1]
          BY <2>2, <4>1, Zenon
        <5> QED BY <4>1, <5>1, Zenon
      <4>3. frames[i - 1].block \in {"body", "over"} <=> i - 1 = Len(frames)
        BY <1>0, <4>1
      <4>4. frames[i - 1].block # "over"
        BY <1>0, <1>2, <4>1
      <4> QED BY <1>0, <2>2, <4>1, <4>2, <4>3, <4>4
    <3> QED BY <3>1, <3>2
  <2>4. frames' # <<>>
    BY <1>0, <2>2
  <2> QED BY <2>2, <2>3, <2>4 DEF Shaped
<1>3. CASE BlockLeft(saw, wrong)
  <2>1. frames'[1].block = frames[2].block
    BY <1>0, <1>3 DEF BlockLeft, FrameType
  <2>2. /\ frames' \in Seq(FrameType) /\ Len(frames') = Len(frames) - 1 /\ Len(frames) > 1
        /\ \A i \in 2..(Len(frames) - 1) : frames'[i] = frames[i + 1]
    BY <1>3 DEF BlockLeft
  <2>3. ASSUME NEW i \in 1..Len(frames')
        PROVE  /\ frames'[i].block \in {"body", "over"} <=> i = Len(frames')
               /\ frames'[i].block # "over"
    <3>1. i + 1 \in 1..Len(frames) /\ (i = 1 \/ i \in 2..(Len(frames) - 1))
      BY <1>0, <2>2
    <3>2. frames'[i].block = frames[i + 1].block
      BY <2>1, <2>2, <3>1
    <3>3. frames[i + 1].block \in {"body", "over"} <=> i + 1 = Len(frames)
      BY <1>0, <3>1
    <3>4. i + 1 = Len(frames) <=> i = Len(frames')
      BY <1>0, <2>2
    <3>5. frames[i + 1].block # "over"
      BY <1>0, <2>2, <3>1
    <3> QED BY <3>2, <3>3, <3>4, <3>5
  <2>4. frames' # <<>>
    BY <1>0, <2>2
  <2> QED BY <2>2, <2>3, <2>4 DEF Shaped
<1>4. CASE BodyLeft(wrong)
  <2>1. frames'[1].block = "over" /\ frames' \in Seq(FrameType) /\ Len(frames') = 1
    BY <1>0, <1>4 DEF BodyLeft, FrameType
  <2>2. frames' # <<>> /\ \A i \in 1..Len(frames') : i = 1 /\ frames'[i].block = "over"
    BY <2>1
  <2> QED BY <2>1, <2>2 DEF Shaped
<1> QED BY <1>1, <1>2, <1>3, <1>4

LEMMA ThrowKept ==
    ASSUME RunShape, BodySteps
    PROVE  /\ unwinding' \in {"no", "throw", "trap"}
           /\ aborting' \in BOOLEAN /\ swallowed' \in BOOLEAN
           /\ aborting' => unwinding' = "throw"
<1>1. /\ unwinding \in {"no", "throw", "trap"} /\ aborting \in BOOLEAN /\ swallowed \in BOOLEAN
      /\ aborting => unwinding = "throw"
  BY DEF RunShape
<1>2. Stopped => swallowed' \in BOOLEAN
  BY <1>1 DEF Stopped
<1>3. CASE Checked \/ BodyOver \/ TrapPassed \/ \E block \in Blocks : BlockEntered(block)
  <2>1. unwinding' = unwinding /\ aborting' = aborting /\ swallowed' = swallowed
    BY <1>3 DEF Checked, BodyOver, TrapPassed, BlockEntered
  <2> QED BY <1>1, <2>1
<1>4. CASE Required
  BY <1>1, <1>4 DEF Required
<1>5. CASE Failed
  BY <1>1, <1>5 DEF Failed
<1>6. CASE Passed \/ KnownLeft \/ KnownThrown
  BY <1>1, <1>2, <1>6 DEF Passed, KnownLeft, KnownThrown, Calm
<1>7. CASE Unmet
  BY <1>1, <1>2, <1>7 DEF Unmet, Calm
<1> QED BY <1>3, <1>4, <1>5, <1>6, <1>7 DEF BodySteps

LEMMA BodyKeepsScopes ==
    ASSUME RunShape, ScopesInv, Body
    PROVE  RunShape' /\ ScopesInv'
<1> DEFINE n == Cardinality(KnownAt(frames))
<1>1. /\ session # None /\ Shaped /\ BodySteps /\ session \in Session
      /\ session.known_depth = n /\ n \in Nat
      /\ unwinding \in {"no", "throw", "trap"} /\ aborting \in BOOLEAN /\ swallowed \in BOOLEAN
      /\ aborting => unwinding = "throw"
  BY BodyIs, NoScope DEF Shaped, ScopesInv, RunShape
<1>2. "catch" \in Blocks /\ "known" \in Blocks
  BY DEF Blocks
<1> HIDE DEF n
<1>3. CASE Checked \/ Required \/ Failed
  <2>1. /\ \E saw, wrong : Noted(saw, wrong)
        /\ session' \in {session, Recorded(session), Aborted(Recorded(session))}
    BY <1>3 DEF Checked, Required, Failed
  <2>2. session' \in Session /\ session'.known_depth = session.known_depth
    <3>1. Recorded(session) \in Session /\ Recorded(session).known_depth = session.known_depth
      BY <1>1, SessionIs
    <3>2. /\ Aborted(Recorded(session)) \in Session
          /\ Aborted(Recorded(session)).known_depth = Recorded(session).known_depth
      BY <3>1, SessionIs
    <3> QED BY <1>1, <2>1, <3>1, <3>2
  <2>3. Shaped' /\ n' = n
    BY <1>1, <1>2, <2>1, <2>2, ShapeKept, ScopesNoted DEF n
  <2>4. RunShape'
    BY <1>1, <2>3, ThrowKept DEF RunShape
  <2> QED BY <1>1, <2>2, <2>3, <2>4 DEF ScopesInv, n
<1>4. ASSUME NEW block \in Blocks, BlockEntered(block) PROVE RunShape' /\ ScopesInv'
  <2>1. Entered(block) /\ Top.block # "over" /\ session' = IF block = "known" THEN Pushed(session) ELSE session
    BY <1>4 DEF BlockEntered
  <2>2. /\ session' \in Session
        /\ session'.known_depth = IF block = "known" THEN session.known_depth + 1
                                  ELSE session.known_depth
    BY <1>1, <2>1, SessionIs
  <2>3. Shaped' /\ n' = IF block = "known" THEN n + 1 ELSE n
    BY <1>1, <2>1, <2>2, ShapeKept, ScopesEntered DEF n
  <2>4. RunShape'
    BY <1>1, <2>3, ThrowKept DEF RunShape
  <2> QED BY <1>1, <2>2, <2>3, <2>4 DEF ScopesInv, n
<1>5. CASE BodyOver
  <2>1. \E wrong : BodyLeft(wrong) /\ Top.block = "body" /\ session' = session
    BY <1>5 DEF BodyOver
  <2>2. Shaped'
    BY <1>1, <1>2, <2>1, ShapeKept
  <2>3. \A j \in 1..Len(frames) : frames[j].block # "known"
    BY <1>1, <2>1, TopIs DEF BodyLeft
  <2>4. \A j \in 1..Len(frames') : frames'[j].block # "known"
    <3>1. frames[1] \in FrameType
      BY <1>1, TopIs
    <3>2. Len(frames') = 1 /\ frames'[1].block = "over"
      BY <2>1, <3>1 DEF BodyLeft, FrameType
    <3> QED BY <3>2
  <2>5. KnownAt(frames) = {} /\ KnownAt(frames)' = {}
    BY <2>3, <2>4 DEF KnownAt
  <2>6. n' = n
    BY <2>5 DEF n
  <2>7. RunShape'
    BY <1>1, <2>2, ThrowKept DEF RunShape
  <2> QED BY <1>1, <2>1, <2>6, <2>7 DEF ScopesInv, n
<1>6. CASE Passed \/ Unmet \/ KnownLeft \/ KnownThrown \/ TrapPassed
  <2>1. \E saw, wrong : BlockLeft(saw, wrong)
    BY <1>6 DEF Passed, Unmet, KnownLeft, KnownThrown, TrapPassed
  <2>2. /\ session' \in Session
        /\ session'.known_depth
             = IF Top.block = "known" /\ session.known_depth # 0 THEN session.known_depth - 1
               ELSE session.known_depth
    <3>1. CASE Passed
      BY <1>1, <3>1 DEF Passed
    <3>2. CASE Unmet
      <4>1. Recorded(session) \in Session /\ Recorded(session).known_depth = session.known_depth
        BY <1>1, SessionIs
      <4>2. /\ Aborted(Recorded(session)) \in Session
            /\ Aborted(Recorded(session)).known_depth = session.known_depth
        BY <4>1, SessionIs
      <4>3. session' \in {Recorded(session), Aborted(Recorded(session))} /\ Top.block # "known"
        BY <3>2 DEF Unmet
      <4> QED BY <4>1, <4>2, <4>3
    <3>3. CASE KnownLeft
      <4>1. /\ Popped(session) \in Session
            /\ Popped(session).known_depth
                 = (IF session.known_depth = 0 THEN 0 ELSE session.known_depth - 1)
        BY <1>1, SessionIs
      <4>2. /\ Recorded(Popped(session)) \in Session
            /\ Recorded(Popped(session)).known_depth = Popped(session).known_depth
        BY <4>1, SessionIs
      <4>3. session' \in {Popped(session), Recorded(Popped(session))} /\ Top.block = "known"
        BY <3>3 DEF KnownLeft
      <4> QED BY <1>1, <4>1, <4>2, <4>3
    <3>4. CASE KnownThrown
      <4> DEFINE s == IF session.aborted THEN session ELSE Recorded(session)
      <4>1. s \in Session /\ s.known_depth = session.known_depth
        BY <1>1, SessionIs
      <4>2. session' = Popped([s EXCEPT !.aborted = FALSE])
        BY <3>4 DEF KnownThrown
      <4> HIDE DEF s
      <4>3. /\ [s EXCEPT !.aborted = FALSE] \in Session
            /\ [s EXCEPT !.aborted = FALSE].known_depth = s.known_depth
        BY <4>1, SessionIs
      <4> DEFINE t == [s EXCEPT !.aborted = FALSE]
      <4>4. t \in Session /\ t.known_depth = s.known_depth /\ session' = Popped(t)
        BY <4>2, <4>3
      <4> HIDE DEF t
      <4>5. /\ session' \in Session
            /\ session'.known_depth = (IF t.known_depth = 0 THEN 0 ELSE t.known_depth - 1)
        BY <4>4, SessionIs
      <4> QED BY <1>1, <3>4, <4>1, <4>4, <4>5 DEF KnownThrown
    <3>5. CASE TrapPassed
      BY <1>1, <3>5, SessionIs DEF TrapPassed, TrappedOut
    <3> QED BY <1>6, <3>1, <3>2, <3>3, <3>4, <3>5
  <2>3. Shaped' /\ n' \in Nat /\ n = IF Top.block = "known" THEN n' + 1 ELSE n'
    BY <1>1, <1>2, <2>1, <2>2, ShapeKept, ScopesLeft DEF n
  <2>4. RunShape'
    BY <1>1, <2>3, ThrowKept DEF RunShape
  <2> QED BY <1>1, <2>2, <2>3, <2>4 DEF ScopesInv, n
<1> QED BY <1>1, <1>3, <1>4, <1>5, <1>6 DEF BodySteps

\* The session a run begins with.
LEMMA BeginIs ==
    ASSUME Begin
    PROVE  /\ session' \in Session /\ session'.known_depth = 0 /\ session'.issues.real = 0
           /\ session'.aborted = FALSE
           /\ frames' \in Seq(FrameType) /\ Len(frames') = 1
           /\ frames'[1].block = "body" /\ frames'[1].before = 0
           /\ frames'[1].saw = FALSE /\ frames'[1].wrong = FALSE /\ Count(session'.issues) = 0
<1> DEFINE f == [block |-> "body", before |-> 0, saw |-> FALSE, wrong |-> FALSE]
<1>1. f \in FrameType /\ f.block = "body" /\ f.before = 0 /\ f.saw = FALSE /\ f.wrong = FALSE
  BY DEF FrameType
<1>2. frames' = <<f>> /\ session' = [issues |-> NoIssues, aborted |-> FALSE, known_depth |-> 0]
  BY DEF Begin
<1> HIDE DEF f
<1>3. <<f>> \in Seq(FrameType) /\ Len(<<f>>) = 1 /\ <<f>>[1] = f
  BY <1>1
<1> QED BY <1>1, <1>2, <1>3 DEF Session, NoIssues, Count

LEMMA ScopesStep == RunShape /\ ScopesInv /\ [Next]_vars => RunShape' /\ ScopesInv'
<1> SUFFICES ASSUME RunShape, ScopesInv, [Next]_vars PROVE RunShape' /\ ScopesInv'
  OBVIOUS
<1>1. CASE Body
  BY <1>1, BodyKeepsScopes
<1>2. CASE Begin
  <2>1. /\ session' \in Session /\ session'.known_depth = 0
        /\ frames' \in Seq(FrameType) /\ Len(frames') = 1 /\ frames'[1].block = "body"
    BY <1>2, BeginIs
  <2>2. \A j \in 1..Len(frames') : j = 1 /\ frames'[j].block = "body"
    BY <2>1
  <2>3. frames' # <<>>
    BY <2>1
  <2>4. Shaped'
    BY <2>1, <2>2, <2>3 DEF Shaped
  <2>5. KnownAt(frames)' = {}
    BY <2>2 DEF KnownAt
  <2>6. session'.known_depth = Cardinality(KnownAt(frames)')
    BY <2>1, <2>5, FS_EmptySet
  <2>7. unwinding' = "no" /\ aborting' = FALSE /\ swallowed' = FALSE
    BY <1>2 DEF Begin
  <2> QED BY <2>4, <2>6, <2>7 DEF RunShape, ScopesInv
<1>3. CASE Finish
  BY <1>3 DEF Finish, RunShape, ScopesInv
<1>4. CASE PlanCase \/ SelectIds \/ NoRun \/ UNCHANGED vars
  <2>1. UNCHANGED runVars
    BY <1>4 DEF PlanCase, SelectIds, NoRun, vars
  <2> QED BY <2>1 DEF runVars, RunShape, ScopesInv, Shaped, KnownAt
<1> QED BY <1>1, <1>2, <1>3, <1>4 DEF Next

LEMMA ScopesInit == Init => RunShape /\ ScopesInv
BY DEF Init, RunShape, ScopesInv

\* Issues are marked known in exactly the withKnownIssue blocks the body is in,
\* however deep they are nested and however they are left (with_known_issue).
THEOREM ScopesBalance == Spec => []KnownScopesBalance
<1>1. RunShape /\ ScopesInv => KnownScopesBalance
  BY TopIs DEF RunShape, ScopesInv, KnownScopesBalance, KnownAt
<1> QED BY <1>1, ScopesInit, ScopesStep, PTL DEF Spec
-----------------------------------------------------------------------------
(* What a status says                                                      *)

\* What goes wrong in a frame counts: no withKnownIssue is around it, nor is it one.
Counts(i) == \A j \in i..Len(frames) : frames[j].block # "known"

Over == Top.block = "over"

\* Something is wrong in the body exactly when an issue counts, from the moment
\* it happens until the body is left; a trap or a throw is the body's own issue.
WrongMatches ==
    IF unwinding = "trap" \/ (Over /\ unwinding # "no")
    THEN Over => Top.wrong
    ELSE session.issues.real > 0 <=> \E i \in 1..Len(frames) : Counts(i) /\ frames[i].wrong

\* While no issue counts, the flag tells the throw of a #require from others.
AbortedMatches ==
    /\ session.aborted = aborting
    /\ aborting => InKnown /\ Top.saw

\* While no issue counts, a frame has seen something go wrong in it, or in a
\* block within it, exactly when the session has more issues than it had.
SeenMatches ==
    \A i \in 1..Len(frames) :
        /\ frames[i].before <= Count(session.issues)
        /\ frames[i].wrong => frames[i].saw
        /\ \A j \in 1..i : frames[i].before <= frames[j].before
        /\ Count(session.issues) > frames[i].before <=> \E j \in 1..i : frames[j].saw

HonestInv ==
    session # None /\ ~swallowed =>
        /\ WrongMatches
        /\ session.issues.real = 0 =>
              /\ AbortedMatches
              /\ unwinding # "trap" /\ ~Over => SeenMatches

LEMMA NoScopeCounts ==
    ASSUME Shaped, session.known_depth = Cardinality(KnownAt(frames))
    PROVE  /\ session.known_depth \in Nat
           /\ session.known_depth = 0 <=> Counts(1)
           /\ session.known_depth = 0 <=> ~InKnown
BY NoScope, TopIs DEF Counts, InKnown

LEMMA CountsNext ==
    ASSUME Shaped
    PROVE  /\ Counts(1) <=> Top.block # "known" /\ Counts(2)
           /\ \A saw, wrong : Noted(saw, wrong) =>
                 \A i \in 1..Len(frames) : Counts(i)' <=> Counts(i)
           /\ \A block : Entered(block) =>
                 \A i \in 1..Len(frames) : Counts(i + 1)' <=> Counts(i)
           /\ \A saw, wrong : BlockLeft(saw, wrong) =>
                 \A i \in 1..Len(frames') : Counts(i)' <=> Counts(i + 1)
<1>1. /\ Len(frames) \in Nat \ {0} /\ Top = frames[1]
      /\ \A i \in 1..Len(frames) : frames[i] \in FrameType
  BY TopIs
<1>2. Counts(1) <=> Top.block # "known" /\ Counts(2)
  BY <1>1 DEF Counts
<1>3. ASSUME NEW saw, NEW wrong, Noted(saw, wrong), NEW i \in 1..Len(frames)
      PROVE  Counts(i)' <=> Counts(i)
  <2>1. Len(frames') = Len(frames) /\ \A j \in 1..Len(frames) : frames'[j].block = frames[j].block
    <3>1. frames'[1].block = frames[1].block
      BY <1>1, <1>3 DEF Noted, FrameType
    <3>2. \A j \in 1..Len(frames) : j = 1 \/ frames'[j] = frames[j]
      BY <1>1, <1>3 DEF Noted
    <3> QED BY <1>3, <3>1, <3>2 DEF Noted
  <2> QED BY <1>1, <2>1 DEF Counts
<1>4. ASSUME NEW block, Entered(block), NEW i \in 1..Len(frames)
      PROVE  Counts(i + 1)' <=> Counts(i)
  <2>1. /\ Len(frames') = Len(frames) + 1
        /\ \A j \in 1..Len(frames) : frames'[j + 1].block = frames[j].block
    BY <1>4 DEF Entered
  <2>2. ASSUME Counts(i), NEW j \in (i + 1)..Len(frames') PROVE frames'[j].block # "known"
    <3>1. j - 1 \in i..Len(frames) /\ j - 1 \in 1..Len(frames) /\ (j - 1) + 1 = j
      BY <1>1, <2>1
    <3>2. frames'[(j - 1) + 1].block = frames[j - 1].block
      BY <2>1, <3>1
    <3> QED BY <2>2, <3>1, <3>2 DEF Counts
  <2>3. ASSUME Counts(i + 1)', NEW j \in i..Len(frames) PROVE frames[j].block # "known"
    <3>1. j + 1 \in (i + 1)..Len(frames') /\ j \in 1..Len(frames)
      BY <1>1, <2>1
    <3>2. frames'[j + 1].block # "known"
      BY <2>3, <3>1 DEF Counts
    <3> QED BY <2>1, <3>1, <3>2
  <2> QED BY <2>2, <2>3 DEF Counts
<1>5. ASSUME NEW saw, NEW wrong, BlockLeft(saw, wrong), NEW i \in 1..Len(frames')
      PROVE  Counts(i)' <=> Counts(i + 1)
  <2>1. /\ Len(frames) = Len(frames') + 1 /\ Len(frames') \in Nat
        /\ \A j \in 1..Len(frames') : frames'[j].block = frames[j + 1].block
    <3>1. frames'[1].block = frames[2].block /\ Len(frames) > 1
      BY <1>1, <1>5 DEF BlockLeft, FrameType
    <3>2. Len(frames') = Len(frames) - 1
      BY <1>5 DEF BlockLeft
    <3>3. \A j \in 1..Len(frames') : j = 1 \/ frames'[j] = frames[j + 1]
      BY <1>1, <1>5, <3>2 DEF BlockLeft
    <3> QED BY <1>1, <3>1, <3>2, <3>3
  <2>2. ASSUME Counts(i)', NEW j \in (i + 1)..Len(frames) PROVE frames[j].block # "known"
    <3>1. j - 1 \in i..Len(frames') /\ j - 1 \in 1..Len(frames') /\ (j - 1) + 1 = j
      BY <1>1, <2>1
    <3>2. frames'[j - 1].block = frames[(j - 1) + 1].block
      BY <2>1, <3>1
    <3> QED BY <2>2, <3>1, <3>2 DEF Counts
  <2>3. ASSUME Counts(i + 1), NEW j \in i..Len(frames') PROVE frames'[j].block # "known"
    <3>1. j + 1 \in (i + 1)..Len(frames) /\ j \in 1..Len(frames')
      BY <1>1, <2>1
    <3>2. frames[j + 1].block # "known"
      BY <2>3, <3>1 DEF Counts
    <3> QED BY <2>1, <3>1, <3>2
  <2> QED BY <2>2, <2>3 DEF Counts
<1> QED BY <1>2, <1>3, <1>4, <1>5


\* Something that counts is wrong.
SomeWrong == \E i \in 1..Len(frames) : Counts(i) /\ frames[i].wrong

LEMMA WrongNoted ==
    ASSUME Shaped, NEW saw, NEW wrong \in BOOLEAN, Noted(saw, wrong), Top.wrong => wrong
    PROVE  SomeWrong' <=> SomeWrong \/ (Counts(1) /\ wrong)
<1>1. /\ Len(frames) \in Nat \ {0} /\ Top = frames[1] /\ frames[1] \in FrameType
      /\ \A i \in 1..Len(frames) : Counts(i)' <=> Counts(i)
  BY TopIs, CountsNext
<1>2. /\ Len(frames') = Len(frames) /\ frames'[1].wrong = wrong
      /\ \A i \in 1..Len(frames) : i = 1 \/ frames'[i] = frames[i]
  BY <1>1 DEF Noted, FrameType
<1>3. ASSUME SomeWrong' PROVE SomeWrong \/ (Counts(1) /\ wrong)
  <2>1. PICK i \in 1..Len(frames) : Counts(i)' /\ frames'[i].wrong
    BY <1>2, <1>3 DEF SomeWrong
  <2>2. Counts(i) /\ (i = 1 => wrong) /\ (i # 1 => frames[i].wrong)
    BY <1>1, <1>2, <2>1
  <2> QED BY <2>2 DEF SomeWrong
<1>4. ASSUME SomeWrong \/ (Counts(1) /\ wrong) PROVE SomeWrong'
  <2>1. CASE Counts(1) /\ wrong
    <3>1. 1 \in 1..Len(frames') /\ Counts(1)' /\ frames'[1].wrong
      BY <1>1, <1>2, <2>1
    <3> QED BY <3>1 DEF SomeWrong
  <2>2. CASE SomeWrong /\ ~(Counts(1) /\ wrong)
    <3>1. PICK i \in 1..Len(frames) : Counts(i) /\ frames[i].wrong
      BY <2>2 DEF SomeWrong
    <3>2. i # 1 /\ Counts(i)' /\ frames'[i].wrong /\ i \in 1..Len(frames')
      BY <1>1, <1>2, <2>2, <3>1
    <3> QED BY <3>2 DEF SomeWrong
  <2> QED BY <1>4, <2>1, <2>2
<1> QED BY <1>3, <1>4

LEMMA WrongEntered ==
    ASSUME Shaped, NEW block \in Blocks, Entered(block)
    PROVE  SomeWrong' <=> SomeWrong
<1>1. /\ Len(frames) \in Nat \ {0} /\ Len(frames') = Len(frames) + 1
      /\ frames'[1].wrong = FALSE
      /\ \A i \in 1..Len(frames) : frames'[i + 1] = frames[i] /\ (Counts(i + 1)' <=> Counts(i))
  <2>1. Len(frames) \in Nat \ {0}
    BY TopIs
  <2>2. /\ Len(frames') = Len(frames) + 1 /\ frames'[1].wrong = FALSE
        /\ \A i \in 1..Len(frames) : frames'[i + 1] = frames[i]
    BY DEF Entered, Frame
  <2>3. \A i \in 1..Len(frames) : Counts(i + 1)' <=> Counts(i)
    BY CountsNext
  <2> QED BY <2>1, <2>2, <2>3
<1>2. ASSUME SomeWrong PROVE SomeWrong'
  <2>1. PICK i \in 1..Len(frames) : Counts(i) /\ frames[i].wrong
    BY <1>2 DEF SomeWrong
  <2>2. i + 1 \in 1..Len(frames') /\ Counts(i + 1)' /\ frames'[i + 1].wrong
    BY <1>1, <2>1
  <2> QED BY <2>2 DEF SomeWrong
<1>3. ASSUME SomeWrong' PROVE SomeWrong
  <2>1. PICK i \in 1..Len(frames') : Counts(i)' /\ frames'[i].wrong
    BY <1>3 DEF SomeWrong
  <2>2. i # 1 /\ i - 1 \in 1..Len(frames) /\ (i - 1) + 1 = i
    BY <1>1, <2>1
  <2>3. frames'[(i - 1) + 1] = frames[i - 1] /\ (Counts((i - 1) + 1)' <=> Counts(i - 1))
    BY <1>1, <2>2, Zenon
  <2>4. Counts(i - 1) /\ frames[i - 1].wrong
    BY <2>1, <2>2, <2>3
  <2> QED BY <2>2, <2>4 DEF SomeWrong
<1> QED BY <1>2, <1>3

\* What is wrong in a withKnownIssue does not count; what is wrong in another
\* block is handed to the block around it.
LEMMA WrongLeft ==
    ASSUME Shaped, NEW saw, NEW w \in BOOLEAN, BlockLeft(saw, frames[2].wrong \/ w),
           Top.block # "known" => (Top.wrong => w)
    PROVE  SomeWrong' <=> SomeWrong \/ (Counts(2) /\ w)
<1>1. /\ Len(frames) \in Nat \ {0} /\ Len(frames) > 1 /\ Top = frames[1]
      /\ frames[2] \in FrameType
      /\ Len(frames') = Len(frames) - 1
      /\ \A i \in 1..Len(frames') : Counts(i)' <=> Counts(i + 1)
      /\ Counts(1) <=> Top.block # "known" /\ Counts(2)
  <2>1. Len(frames) > 1 /\ Len(frames') = Len(frames) - 1
    BY DEF BlockLeft
  <2>2. /\ \A i \in 1..Len(frames') : Counts(i)' <=> Counts(i + 1)
        /\ Counts(1) <=> Top.block # "known" /\ Counts(2)
    BY CountsNext
  <2> QED BY <2>1, <2>2, TopIs
<1>2. frames'[1].wrong = (frames[2].wrong \/ w)
  BY <1>1 DEF BlockLeft, FrameType
<1>3. \A i \in 1..Len(frames') : i = 1 \/ frames'[i] = frames[i + 1]
  BY <1>1 DEF BlockLeft
<1>4. ASSUME SomeWrong' PROVE SomeWrong \/ (Counts(2) /\ w)
  <2>1. PICK i \in 1..Len(frames') : Counts(i)' /\ frames'[i].wrong
    BY <1>4 DEF SomeWrong
  <2>2. i + 1 \in 1..Len(frames) /\ Counts(i + 1)
    BY <1>1, <2>1
  <2>3. CASE i = 1
    BY <1>2, <2>1, <2>2, <2>3 DEF SomeWrong
  <2>4. CASE i # 1
    BY <1>3, <2>1, <2>2, <2>4 DEF SomeWrong
  <2> QED BY <2>3, <2>4
<1>5. ASSUME SomeWrong \/ (Counts(2) /\ w) PROVE SomeWrong'
  <2>0. 1 \in 1..Len(frames') /\ (Counts(1)' <=> Counts(2))
    <3>1. 1 \in 1..Len(frames') /\ 1 + 1 = 2
      BY <1>1
    <3>2. Counts(1)' <=> Counts(1 + 1)
      BY <1>1, <3>1
    <3> QED BY <3>1, <3>2
  <2>1. CASE Counts(2) /\ w
    <3>1. Counts(1)' /\ frames'[1].wrong
      BY <1>2, <2>0, <2>1
    <3> QED BY <2>0, <3>1 DEF SomeWrong
  <2>2. CASE SomeWrong /\ ~(Counts(2) /\ w)
    <3>1. PICK i \in 1..Len(frames) : Counts(i) /\ frames[i].wrong
      BY <2>2 DEF SomeWrong
    <3>2. i # 1
      BY <1>1, <2>2, <3>1
    <3>3. i - 1 \in 1..Len(frames') /\ (i - 1) + 1 = i
      BY <1>1, <3>1, <3>2
    <3>4. Counts(i - 1)' <=> Counts((i - 1) + 1)
      BY <1>1, <3>3, Zenon
    <3>5. CASE i = 2
      BY <1>2, <2>0, <3>1, <3>5 DEF SomeWrong
    <3>6. CASE i # 2
      <4>1. frames'[i - 1] = frames[(i - 1) + 1]
        BY <1>3, <3>3, <3>6
      <4> QED BY <3>1, <3>3, <3>4, <4>1 DEF SomeWrong
    <3> QED BY <3>5, <3>6
  <2> QED BY <1>5, <2>1, <2>2
<1> QED BY <1>4, <1>5

Issues == Count(session.issues)

\* Something was seen to go wrong in the frame or in a block within it.
SeenIn(i) == \E j \in 1..i : frames[j].saw

LEMMA SeenNoted ==
    ASSUME Shaped, SeenMatches, Issues \in Nat,
           NEW saw \in BOOLEAN, NEW wrong \in BOOLEAN, Noted(saw, wrong), wrong => saw,
           \/ Issues' = Issues /\ saw = Top.saw
           \/ Issues' = Issues + 1 /\ saw
    PROVE  SeenMatches'
<1>1. /\ Len(frames) \in Nat \ {0} /\ Top = frames[1]
      /\ \A i \in 1..Len(frames) : frames[i] \in FrameType /\ frames[i].before \in Nat
  BY TopIs DEF FrameType
<1>2. \A i \in 1..Len(frames) :
         /\ frames[i].before <= Issues /\ (frames[i].wrong => frames[i].saw)
         /\ \A j \in 1..i : frames[i].before <= frames[j].before
         /\ Issues > frames[i].before <=> SeenIn(i)
  BY DEF SeenMatches, Issues, SeenIn
<1>3. /\ frames'[1].saw = saw /\ frames'[1].wrong = wrong
      /\ frames'[1].before = frames[1].before /\ Len(frames') = Len(frames)
  BY <1>1 DEF Noted, FrameType
<1>4. \A i \in 1..Len(frames) : i = 1 \/ frames'[i] = frames[i]
  BY <1>1 DEF Noted
<1>5. \A i \in 1..Len(frames) : frames'[i].before = frames[i].before
  BY <1>3, <1>4
<1>6. ASSUME NEW i \in 1..Len(frames)
      PROVE  /\ frames'[i].before <= Issues' /\ (frames'[i].wrong => frames'[i].saw)
             /\ \A j \in 1..i : frames'[i].before <= frames'[j].before
             /\ Issues' > frames'[i].before <=> SeenIn(i)'
  <2>1. frames'[i].before = frames[i].before /\ frames[i].before \in Nat
        /\ frames[i].before <= Issues /\ (Issues > frames[i].before <=> SeenIn(i))
    BY <1>1, <1>2, <1>5
  <2>2. frames'[i].before <= Issues'
    BY <2>1
  <2>3. frames'[i].wrong => frames'[i].saw
    BY <1>2, <1>3, <1>4
  <2>4. \A j \in 1..i : frames'[i].before <= frames'[j].before
    <3>1. \A j \in 1..i : j \in 1..Len(frames)
      BY <1>1
    <3> QED BY <1>2, <1>5, <3>1
  <2>5. CASE Issues' = Issues /\ saw = Top.saw
    <3>1. \A j \in 1..i : frames'[j].saw = frames[j].saw
      BY <1>1, <1>3, <1>4, <2>5
    <3>2. SeenIn(i)' <=> SeenIn(i)
      BY <3>1 DEF SeenIn
    <3> QED BY <2>1, <2>2, <2>3, <2>4, <2>5, <3>2
  <2>6. CASE Issues' = Issues + 1 /\ saw
    <3>1. SeenIn(i)'
      <4>1. 1 \in 1..i /\ frames'[1].saw
        BY <1>1, <1>3, <2>6
      <4> QED BY <4>1 DEF SeenIn
    <3> QED BY <2>1, <2>2, <2>3, <2>4, <2>6, <3>1
  <2> QED BY <2>5, <2>6
<1> QED BY <1>3, <1>6 DEF SeenMatches, Issues, SeenIn

LEMMA SeenEntered ==
    ASSUME Shaped, SeenMatches, NEW block \in Blocks, Entered(block),
           Issues \in Nat, Issues' = Issues
    PROVE  SeenMatches'
<1>1. /\ Len(frames) \in Nat \ {0}
      /\ \A i \in 1..Len(frames) : frames[i].before \in Nat
  BY TopIs DEF FrameType
<1>2. \A i \in 1..Len(frames) :
         /\ frames[i].before <= Issues /\ (frames[i].wrong => frames[i].saw)
         /\ \A j \in 1..i : frames[i].before <= frames[j].before
         /\ Issues > frames[i].before <=> SeenIn(i)
  BY DEF SeenMatches, Issues, SeenIn
<1>3. /\ frames'[1].saw = FALSE /\ frames'[1].wrong = FALSE
      /\ frames'[1].before = Issues /\ Len(frames') = Len(frames) + 1
      /\ \A i \in 1..Len(frames) : frames'[i + 1] = frames[i]
  BY DEF Entered, Frame, Issues
<1>4. ASSUME NEW i \in 1..Len(frames')
      PROVE  /\ frames'[i].before <= Issues' /\ (frames'[i].wrong => frames'[i].saw)
             /\ \A j \in 1..i : frames'[i].before <= frames'[j].before
             /\ Issues' > frames'[i].before <=> SeenIn(i)'
  <2>1. CASE i = 1
    <3>1. ~SeenIn(1)'
      BY <1>3 DEF SeenIn
    <3>2. \A j \in 1..1 : j = 1
      OBVIOUS
    <3> QED BY <1>3, <2>1, <3>1, <3>2
  <2>2. CASE i # 1
    <3> DEFINE k == i - 1
    <3>1. k \in 1..Len(frames) /\ k + 1 = i
      BY <1>1, <1>3, <2>2
    <3> HIDE DEF k
    <3>2. frames'[i] = frames[k]
      BY <1>3, <3>1
    <3>3. ASSUME NEW j \in 1..i
          PROVE  \/ j = 1
                 \/ \E l \in 1..k : l + 1 = j /\ l \in 1..Len(frames) /\ frames'[j] = frames[l]
      <4>1. CASE j = 1
        BY <4>1
      <4>2. CASE j # 1
        <5>1. j - 1 \in 1..k /\ j - 1 \in 1..Len(frames) /\ (j - 1) + 1 = j
          BY <1>1, <3>1, <4>2
        <5>2. frames'[(j - 1) + 1] = frames[j - 1]
          BY <1>3, <5>1, Zenon
        <5> QED BY <5>1, <5>2
      <4> QED BY <4>1, <4>2
    <3>4. \A j \in 1..i : frames'[i].before <= frames'[j].before
      BY <1>1, <1>2, <1>3, <3>1, <3>2, <3>3
    <3>5. ASSUME SeenIn(k) PROVE SeenIn(i)'
      <4>1. PICK l \in 1..k : frames[l].saw
        BY <3>5 DEF SeenIn
      <4>2. l \in 1..Len(frames) /\ l + 1 \in 1..i
        BY <1>1, <3>1
      <4>3. frames'[l + 1].saw
        BY <1>3, <4>1, <4>2
      <4> QED BY <4>2, <4>3 DEF SeenIn
    <3>6. ASSUME SeenIn(i)' PROVE SeenIn(k)
      <4>1. PICK j \in 1..i : frames'[j].saw
        BY <3>6 DEF SeenIn
      <4>2. j # 1
        BY <1>3, <4>1
      <4>3. PICK l \in 1..k : frames'[j] = frames[l]
        BY <3>3, <4>2
      <4> QED BY <4>1, <4>3 DEF SeenIn
    <3> QED BY <1>2, <3>1, <3>2, <3>4, <3>5, <3>6
  <2> QED BY <2>1, <2>2
<1> QED BY <1>4 DEF SeenMatches, Issues, SeenIn

LEMMA SeenLeft ==
    ASSUME Shaped, SeenMatches, Issues \in Nat, Issues' \in Nat,
           NEW saw \in BOOLEAN, NEW wrong \in BOOLEAN, BlockLeft(saw, wrong), wrong => saw,
           \/ Issues' = Issues /\ (saw <=> frames[2].saw \/ Top.saw)
           \/ Issues' >= Issues /\ Issues' > Top.before /\ saw
    PROVE  SeenMatches'
<1>1. /\ Len(frames) \in Nat /\ Len(frames) > 1 /\ Top = frames[1]
      /\ frames[2] \in FrameType
      /\ \A i \in 1..Len(frames) : frames[i].before \in Nat
  <2>1. /\ Len(frames) \in Nat /\ Top = frames[1]
        /\ \A i \in 1..Len(frames) : frames[i] \in FrameType
    BY TopIs
  <2>2. Len(frames) > 1
    BY DEF BlockLeft
  <2>3. \A i \in 1..Len(frames) : frames[i].before \in Nat
    BY <2>1 DEF FrameType
  <2> QED BY <2>1, <2>2, <2>3
<1>2. \A i \in 1..Len(frames) :
         /\ frames[i].before <= Issues /\ (frames[i].wrong => frames[i].saw)
         /\ \A j \in 1..i : frames[i].before <= frames[j].before
         /\ Issues > frames[i].before <=> SeenIn(i)
  BY DEF SeenMatches, Issues, SeenIn
<1>3. /\ frames'[1].saw = saw /\ frames'[1].wrong = wrong
      /\ frames'[1].before = frames[2].before /\ Len(frames') = Len(frames) - 1
  BY <1>1 DEF BlockLeft, FrameType
<1>4. \A i \in 1..Len(frames') : i = 1 \/ frames'[i] = frames[i + 1]
  BY <1>1, <1>3 DEF BlockLeft
<1>5. \A i \in 1..Len(frames') : frames'[i].before = frames[i + 1].before
  BY <1>3, <1>4
<1>6. ASSUME NEW i \in 1..Len(frames')
      PROVE  /\ frames'[i].before <= Issues' /\ (frames'[i].wrong => frames'[i].saw)
             /\ \A j \in 1..i : frames'[i].before <= frames'[j].before
             /\ Issues' > frames'[i].before <=> SeenIn(i)'
  <2> DEFINE k == i + 1
  <2>1. k \in 1..Len(frames) /\ 1 \in 1..k /\ 2 \in 1..k /\ frames'[i].before = frames[k].before
    BY <1>1, <1>3, <1>5
  <2>2. frames'[i].wrong => frames'[i].saw
    BY <1>1, <1>2, <1>3, <1>4, <2>1
  <2>3. \A j \in 1..i : frames'[i].before <= frames'[j].before
    <3>1. \A j \in 1..i : j \in 1..Len(frames') /\ j + 1 \in 1..k
      BY <1>1, <1>3
    <3> QED BY <1>2, <1>5, <2>1, <3>1
  <2> HIDE DEF k
  <2>4. CASE Issues' = Issues /\ (saw <=> frames[2].saw \/ Top.saw)
    <3>1. ASSUME SeenIn(i)' PROVE SeenIn(k)
      <4>1. PICK j \in 1..i : frames'[j].saw
        BY <3>1 DEF SeenIn
      <4>2. j + 1 \in 1..k /\ j \in 1..Len(frames')
        BY <1>1, <1>3 DEF k
      <4> QED BY <1>1, <1>3, <1>4, <2>1, <2>4, <4>1, <4>2 DEF SeenIn
    <3>2. ASSUME SeenIn(k) PROVE SeenIn(i)'
      <4>1. PICK j \in 1..k : frames[j].saw
        BY <3>2 DEF SeenIn
      <4>2. CASE j \in {1, 2}
        <5>1. 1 \in 1..i /\ frames'[1].saw
          BY <1>1, <1>3, <2>4, <4>1, <4>2
        <5> QED BY <5>1 DEF SeenIn
      <4>3. CASE j \notin {1, 2}
        <5>1. j - 1 \in 1..i /\ j - 1 \in 1..Len(frames') /\ j - 1 # 1 /\ (j - 1) + 1 = j
          BY <1>1, <1>3, <2>1, <4>3 DEF k
        <5>2. frames'[j - 1] = frames[(j - 1) + 1]
          BY <1>4, <5>1, Zenon
        <5> QED BY <4>1, <5>1, <5>2 DEF SeenIn
      <4> QED BY <4>2, <4>3
    <3> QED BY <1>2, <2>1, <2>2, <2>3, <2>4, <3>1, <3>2
  <2>5. CASE Issues' >= Issues /\ Issues' > Top.before /\ saw
    <3>1. SeenIn(i)'
      <4>1. 1 \in 1..i /\ frames'[1].saw
        BY <1>1, <1>3, <2>5
      <4> QED BY <4>1 DEF SeenIn
    <3>2. frames[k].before <= Top.before /\ Top.before \in Nat /\ frames[k].before \in Nat
      BY <1>1, <1>2, <2>1
    <3>3. frames'[i].before <= Issues' /\ Issues' > frames'[i].before
      BY <2>1, <2>5, <3>2
    <3> QED BY <2>2, <2>3, <3>1, <3>3
  <2> QED BY <2>4, <2>5
<1> QED BY <1>6 DEF SeenMatches, Issues, SeenIn


\* The facts every step below starts from.
Facts ==
    /\ session \in Session /\ Issues \in Nat /\ session.issues.real \in Nat
    /\ session.aborted \in BOOLEAN /\ session.known_depth \in Nat
    /\ session.known_depth = 0 <=> Counts(1)
    /\ session.known_depth = 0 <=> ~InKnown

LEMMA FactsHold ==
    RunShape /\ ScopesInv /\ session # None => Shaped /\ Facts
BY NoScopeCounts, SessionIs DEF RunShape, ScopesInv, Facts, Shaped, Issues

\* WrongMatches while nothing has left the body.
Matches == session.issues.real > 0 <=> SomeWrong

LEMMA MatchesIs ==
    /\ unwinding = "no" => (WrongMatches <=> Matches)
    /\ unwinding # "trap" /\ ~Over => (WrongMatches <=> Matches)
    /\ unwinding = "trap" /\ ~Over => WrongMatches
    /\ unwinding \in {"throw", "trap"} /\ Top.wrong => (Over => WrongMatches)
BY DEF WrongMatches, Matches, SomeWrong

\* Honest, of a run.
RunHonest ==
    /\ WrongMatches
    /\ session.issues.real = 0 =>
          /\ AbortedMatches
          /\ unwinding # "trap" /\ ~Over => SeenMatches

LEMMA CheckedHonest ==
    ASSUME Shaped, Facts, Facts', RunHonest, Checked \/ Required, aborting => unwinding = "throw"
    PROVE  RunHonest'
<1>1. /\ unwinding = "no" /\ ~Over /\ Noted(TRUE, TRUE)
      /\ session' \in {Recorded(session), Aborted(Recorded(session))}
  BY DEF Checked, Required, Over
<1>2. /\ Issues' = Issues + 1
      /\ session'.issues.real = IF session.known_depth > 0 THEN session.issues.real
                                ELSE session.issues.real + 1
      /\ session'.known_depth = session.known_depth
  <2>1. Recorded(session) \in Session
    BY SessionIs DEF Facts
  <2>2. Aborted(Recorded(session)).issues = Recorded(session).issues
    BY <2>1, SessionIs
  <2>3. Aborted(Recorded(session)).known_depth = Recorded(session).known_depth
    BY <2>1, SessionIs
  <2>4. session'.issues = Recorded(session).issues
        /\ session'.known_depth = Recorded(session).known_depth
    BY <1>1, <2>2, <2>3
  <2>5. /\ Count(Recorded(session).issues) = Count(session.issues) + 1
        /\ Recorded(session).issues.real = IF session.known_depth > 0 THEN session.issues.real
                                           ELSE session.issues.real + 1
        /\ Recorded(session).known_depth = session.known_depth
    BY SessionIs DEF Facts
  <2> QED BY <2>4, <2>5 DEF Issues
<1>3. SomeWrong' <=> SomeWrong \/ Counts(1)
  BY <1>1, WrongNoted
<1>4. /\ Top' = frames'[1] /\ Top'.block # "over" /\ Top'.saw = TRUE
  <2>1. frames'[1].block = Top.block /\ frames'[1].saw = TRUE /\ Len(frames') \in Nat \ {0}
    BY <1>1, TopIs DEF Noted, FrameType
  <2>2. frames' \in Seq(FrameType)
    BY <1>1 DEF Noted
  <2>3. Top' = frames'[1]
    BY <2>1, <2>2 DEF Top
  <2> QED BY <1>1, <2>1, <2>3 DEF Over
<1>5. Matches'
  BY <1>1, <1>2, <1>3, MatchesIs DEF RunHonest, Matches, Facts
<1>6. unwinding' \in {"no", "throw"}
  BY <1>1 DEF Checked, Required
<1>7. ~Over'
  BY <1>4 DEF Over
<1>8. WrongMatches'
  BY <1>5, <1>6, <1>7 DEF WrongMatches, Matches, SomeWrong
<1>9. ASSUME session'.issues.real = 0
      PROVE  AbortedMatches' /\ SeenMatches'
  <2>1. session.issues.real = 0 /\ session.known_depth > 0
    BY <1>2, <1>9 DEF Facts
  <2>2. AbortedMatches /\ SeenMatches
    BY <1>1, <2>1 DEF RunHonest
  <2>3. SeenMatches'
    BY <1>1, <1>2, <2>2, SeenNoted DEF Facts
  <2>4. InKnown'
    BY <1>2, <2>1 DEF Facts
  <2>5. CASE Checked
    <3>1. session'.aborted = session.aborted /\ aborting' = aborting
      BY <2>5, SessionIs DEF Checked, Facts
    <3> QED BY <1>4, <2>2, <2>3, <2>4, <3>1 DEF AbortedMatches
  <2>6. CASE Required
    <3>1. Recorded(session) \in Session /\ session' = Aborted(Recorded(session)) /\ aborting' = TRUE
      BY <2>6, SessionIs DEF Required, Facts
    <3>2. session'.aborted = TRUE
      BY <3>1, SessionIs
    <3> QED BY <1>4, <2>3, <2>4, <3>1, <3>2 DEF AbortedMatches
  <2> QED BY <2>5, <2>6
<1> QED BY <1>8, <1>9 DEF RunHonest

LEMMA FailedHonest ==
    ASSUME Shaped, Facts, Facts', RunHonest, Failed, aborting \in BOOLEAN,
           aborting => unwinding = "throw"
    PROVE  RunHonest'
<1>1. /\ unwinding = "no" /\ ~Over /\ Noted(Top.saw, Top.wrong) /\ session' = session
      /\ unwinding' \in {"throw", "trap"} /\ aborting' = FALSE /\ aborting = FALSE
  BY DEF Failed, Over
<1>2. Top \in FrameType /\ Top.saw \in BOOLEAN /\ Top.wrong \in BOOLEAN /\ Top = frames[1]
  BY TopIs DEF FrameType
<1>3. SomeWrong' <=> SomeWrong
  <2>1. SomeWrong' <=> SomeWrong \/ (Counts(1) /\ Top.wrong)
    BY <1>1, <1>2, WrongNoted
  <2>2. Counts(1) /\ Top.wrong => SomeWrong
    BY <1>2, TopIs DEF SomeWrong
  <2> QED BY <2>1, <2>2
<1>4. ~Over'
  <2>1. frames'[1].block = Top.block /\ frames' \in Seq(FrameType) /\ Len(frames') \in Nat \ {0}
    BY <1>1, TopIs DEF Noted, FrameType
  <2>2. Top' = frames'[1]
    BY <2>1 DEF Top
  <2> QED BY <1>1, <2>1, <2>2 DEF Over
<1>5. WrongMatches'
  <2>1. Matches'
    BY <1>1, <1>3, MatchesIs DEF RunHonest, Matches
  <2> QED BY <1>1, <1>4, <2>1 DEF WrongMatches, Matches, SomeWrong
<1>6. ASSUME session'.issues.real = 0
      PROVE  AbortedMatches' /\ SeenMatches'
  <2>1. AbortedMatches /\ SeenMatches
    BY <1>1, <1>6 DEF RunHonest
  <2>2. Issues' = Issues
    BY <1>1 DEF Issues
  <2>3. Top.wrong => Top.saw
    BY <1>2, <2>1, TopIs DEF SeenMatches
  <2>4. SeenMatches'
    BY <1>1, <1>2, <2>1, <2>2, <2>3, SeenNoted DEF Facts
  <2> QED BY <1>1, <2>1, <2>4 DEF AbortedMatches
<1> QED BY <1>5, <1>6 DEF RunHonest

LEMMA EnteredHonest ==
    ASSUME Shaped, Facts, Facts', RunHonest, NEW block \in Blocks, BlockEntered(block),
           aborting \in BOOLEAN, aborting => unwinding = "throw"
    PROVE  RunHonest'
<1>1. /\ unwinding = "no" /\ unwinding' = "no" /\ ~Over /\ Entered(block)
      /\ aborting' = FALSE /\ aborting = FALSE
      /\ session' \in {session, Pushed(session)}
  BY DEF BlockEntered, Over
<1>2. session'.issues = session.issues /\ session'.aborted = session.aborted
  <2>1. Pushed(session).issues = session.issues /\ Pushed(session).aborted = session.aborted
    BY SessionIs DEF Facts
  <2> QED BY <1>1, <2>1
<1>3. SomeWrong' <=> SomeWrong
  BY <1>1, WrongEntered
<1>4. WrongMatches'
  <2>1. Matches'
    BY <1>1, <1>2, <1>3, MatchesIs DEF RunHonest, Matches
  <2> QED BY <1>1, <2>1 DEF WrongMatches, Matches, SomeWrong
<1>5. ASSUME session'.issues.real = 0
      PROVE  AbortedMatches' /\ SeenMatches'
  <2>1. AbortedMatches /\ SeenMatches
    BY <1>1, <1>2, <1>5 DEF RunHonest
  <2>2. Issues' = Issues
    BY <1>2 DEF Issues
  <2>3. SeenMatches'
    BY <1>1, <2>1, <2>2, SeenEntered DEF Facts
  <2> QED BY <1>1, <1>2, <2>1, <2>3 DEF AbortedMatches
<1> QED BY <1>4, <1>5 DEF RunHonest

LEMMA OverHonest ==
    ASSUME Shaped, Facts, Facts', RunHonest, BodyOver, aborting \in BOOLEAN,
           aborting => unwinding = "throw", unwinding \in {"no", "throw", "trap"}
    PROVE  RunHonest'
<1>1. /\ Top = frames[1] /\ Top \in FrameType /\ Top.wrong \in BOOLEAN /\ Top.block = "body"
      /\ Len(frames) = 1 /\ ~Over
      /\ BodyLeft(IF unwinding = "no" THEN Top.wrong ELSE TRUE)
      /\ session' = session /\ unwinding' = unwinding /\ aborting' = aborting
  BY TopIs DEF BodyOver, BodyLeft, Over, FrameType
<1>2. /\ frames' \in Seq(FrameType) /\ Len(frames') = 1 /\ frames'[1].block = "over"
      /\ frames'[1].wrong = IF unwinding = "no" THEN Top.wrong ELSE TRUE
  BY <1>1 DEF BodyLeft, FrameType
<1>3. Top' = frames'[1] /\ Over'
  BY <1>2 DEF Top, Over
<1>4. Counts(1) /\ Counts(1)' /\ (SomeWrong <=> Top.wrong) /\ (SomeWrong' <=> Top'.wrong)
  BY <1>1, <1>2, <1>3 DEF Counts, SomeWrong
<1>5. WrongMatches'
  <2>1. CASE unwinding = "no"
    <3>1. Matches
      BY <2>1, MatchesIs DEF RunHonest
    <3>2. Matches'
      BY <1>1, <1>2, <1>3, <1>4, <2>1, <3>1 DEF Matches
    <3> QED BY <1>1, <2>1, <3>2 DEF WrongMatches, Matches, SomeWrong
  <2>2. CASE unwinding # "no"
    <3>1. Top'.wrong /\ unwinding' # "no"
      BY <1>1, <1>2, <1>3, <2>2
    <3> QED BY <1>3, <3>1 DEF WrongMatches
  <2> QED BY <2>1, <2>2
<1>6. ASSUME session'.issues.real = 0 PROVE AbortedMatches'
  <2>1. AbortedMatches /\ ~InKnown
    BY <1>1, <1>4, <1>6 DEF RunHonest, Facts
  <2> QED BY <1>1, <2>1 DEF AbortedMatches
<1> QED BY <1>3, <1>5, <1>6 DEF RunHonest

\* A block that is left is not the body.
LEMMA LeftIs ==
    ASSUME Shaped, NEW saw, NEW wrong, BlockLeft(saw, wrong)
    PROVE  /\ ~Over /\ ~Over' /\ Top'.saw = saw
           /\ Top \in FrameType /\ Top.saw \in BOOLEAN /\ Top.wrong \in BOOLEAN
           /\ frames[2].saw \in BOOLEAN /\ frames[2].wrong \in BOOLEAN
           /\ Counts(1) <=> Top.block # "known" /\ Counts(2)
<1>1. /\ Len(frames) \in Nat /\ Len(frames) > 1 /\ Top = frames[1] /\ Top \in FrameType
      /\ frames[2] \in FrameType /\ frames[2].block # "over"
      /\ Top.block \in {"body", "over"} <=> Len(frames) = 1
  BY TopIs DEF BlockLeft
<1>2. /\ frames'[1].block = frames[2].block /\ frames'[1].saw = saw
      /\ frames' \in Seq(FrameType) /\ Len(frames') > 0
  BY <1>1 DEF BlockLeft, FrameType
<1>3. Top' = frames'[1]
  BY <1>2 DEF Top
<1>4. Counts(1) <=> Top.block # "known" /\ Counts(2)
  BY CountsNext
<1> QED BY <1>1, <1>2, <1>3, <1>4 DEF Over, FrameType

LEMMA PassedHonest ==
    ASSUME Shaped, Facts, Facts', RunHonest, Passed, aborting \in BOOLEAN,
           swallowed \in BOOLEAN, ~swallowed'
    PROVE  RunHonest'
<1>1. /\ unwinding # "trap" /\ Top.block # "known" /\ session' = session
      /\ BlockLeft(frames[2].saw \/ Top.saw \/ Top.wrong, frames[2].wrong \/ Top.wrong)
      /\ unwinding' = "no" /\ aborting' = FALSE /\ ~(aborting /\ InKnown)
  BY DEF Passed, Calm, Stopped
<1>2. /\ ~Over /\ ~Over' /\ Top.saw \in BOOLEAN /\ Top.wrong \in BOOLEAN
      /\ frames[2].saw \in BOOLEAN /\ frames[2].wrong \in BOOLEAN
      /\ Counts(1) <=> Counts(2)
  BY <1>1, LeftIs
<1>3. SomeWrong' <=> SomeWrong
  <2>1. SomeWrong' <=> SomeWrong \/ (Counts(2) /\ Top.wrong)
    BY <1>1, <1>2, WrongLeft
  <2>2. Counts(1) /\ Top.wrong => SomeWrong
    BY TopIs DEF SomeWrong
  <2> QED BY <1>2, <2>1, <2>2
<1>4. WrongMatches'
  <2>1. Matches'
    BY <1>1, <1>2, <1>3, MatchesIs DEF RunHonest, Matches
  <2> QED BY <1>1, <1>2, <2>1 DEF WrongMatches, Matches, SomeWrong
<1>5. ASSUME session'.issues.real = 0
      PROVE  AbortedMatches' /\ SeenMatches'
  <2>1. AbortedMatches /\ SeenMatches
    BY <1>1, <1>2, <1>5 DEF RunHonest
  <2>2. Issues' = Issues
    BY <1>1 DEF Issues
  <2>3. Top.wrong => Top.saw
    BY <2>1, TopIs DEF SeenMatches
  <2>4. frames[2].wrong => frames[2].saw
    BY <1>1, <2>1, TopIs DEF SeenMatches, BlockLeft
  <2>5. SeenMatches'
    BY <1>1, <1>2, <2>1, <2>2, <2>3, <2>4, SeenLeft DEF Facts
  <2> QED BY <1>1, <2>1, <2>5 DEF AbortedMatches
<1> QED BY <1>4, <1>5 DEF RunHonest

LEMMA UnmetHonest ==
    ASSUME Shaped, Facts, Facts', RunHonest, Unmet, aborting \in BOOLEAN,
           swallowed \in BOOLEAN, ~swallowed'
    PROVE  RunHonest'
<1>1. /\ unwinding # "trap" /\ Top.block # "known"
      /\ BlockLeft(TRUE, TRUE)
      /\ \/ session' = Recorded(session) /\ aborting' = FALSE
         \/ session' = Aborted(Recorded(session)) /\ aborting' = TRUE
      /\ unwinding' \in {"no", "throw"} /\ ~(aborting /\ InKnown)
  BY DEF Unmet, Calm, Stopped
<1>2. /\ ~Over /\ ~Over' /\ Top'.saw = TRUE /\ frames[2].wrong \in BOOLEAN
      /\ Counts(1) <=> Counts(2)
  BY <1>1, LeftIs
<1>3. /\ Recorded(session) \in Session
      /\ Count(Recorded(session).issues) = Count(session.issues) + 1
      /\ Recorded(session).issues.real = IF session.known_depth > 0 THEN session.issues.real
                                         ELSE session.issues.real + 1
      /\ Recorded(session).aborted = session.aborted
      /\ Recorded(session).known_depth = session.known_depth
  BY SessionIs DEF Facts
<1>4. /\ Aborted(Recorded(session)).issues = Recorded(session).issues
      /\ Aborted(Recorded(session)).known_depth = Recorded(session).known_depth
      /\ Aborted(Recorded(session)).aborted = TRUE
  BY <1>3, SessionIs
<1>5. /\ Issues' = Issues + 1 /\ session'.known_depth = session.known_depth
      /\ session'.issues.real = IF session.known_depth > 0 THEN session.issues.real
                                ELSE session.issues.real + 1
      /\ \/ session'.aborted = session.aborted /\ aborting' = FALSE
         \/ session'.aborted = TRUE /\ aborting' = TRUE
  BY <1>1, <1>3, <1>4 DEF Issues
<1>6. SomeWrong' <=> SomeWrong \/ Counts(2)
  <2>1. BlockLeft(TRUE, frames[2].wrong \/ TRUE)
    <3>1. (frames[2].wrong \/ TRUE) = TRUE
      OBVIOUS
    <3> QED BY <1>1, <3>1 DEF BlockLeft
  <2> QED BY <1>1, <2>1, WrongLeft
<1>7. WrongMatches'
  <2>1. Matches'
    BY <1>1, <1>2, <1>5, <1>6, MatchesIs DEF RunHonest, Matches, Facts
  <2> QED BY <1>1, <1>2, <2>1 DEF WrongMatches, Matches, SomeWrong
<1>8. ASSUME session'.issues.real = 0
      PROVE  AbortedMatches' /\ SeenMatches'
  <2>1. session.issues.real = 0 /\ session.known_depth > 0
    BY <1>5, <1>8 DEF Facts
  <2>2. AbortedMatches /\ SeenMatches
    BY <1>1, <1>2, <2>1 DEF RunHonest
  <2>3. Top.before <= Issues /\ Top.before \in Nat
    BY <2>2, TopIs DEF SeenMatches, Issues, FrameType
  <2>4. Issues' >= Issues /\ Issues' > Top.before /\ Issues' \in Nat
    BY <1>5, <2>3 DEF Facts
  <2>5. SeenMatches'
    BY <1>1, <2>2, <2>4, SeenLeft DEF Facts
  <2>6. InKnown'
    BY <1>5, <2>1 DEF Facts
  <2> QED BY <1>1, <1>2, <1>5, <2>2, <2>5, <2>6 DEF AbortedMatches
<1> QED BY <1>7, <1>8 DEF RunHonest

\* It excuses what it saw go wrong, or is wrong if it saw nothing.
LEMMA KnownLeftHonest ==
    ASSUME Shaped, Facts, Facts', RunHonest, KnownLeft, aborting \in BOOLEAN,
           aborting => unwinding = "throw"
    PROVE  RunHonest'
<1>1. /\ unwinding = "no" /\ Top.block = "known"
      /\ BlockLeft(TRUE, frames[2].wrong \/ ~Top.saw)
      /\ session' = IF NewlyRecorded THEN Popped(session) ELSE Recorded(Popped(session))
      /\ unwinding' = "no" /\ aborting' = FALSE /\ aborting = FALSE
  BY DEF KnownLeft, Calm
<1>2. /\ ~Over /\ ~Over' /\ Top.saw \in BOOLEAN /\ frames[2].wrong \in BOOLEAN /\ ~Counts(1)
  BY <1>1, LeftIs
<1>3. /\ Popped(session) \in Session /\ Popped(session).issues = session.issues
      /\ Popped(session).aborted = session.aborted
      /\ Popped(session).known_depth
           = (IF session.known_depth = 0 THEN 0 ELSE session.known_depth - 1)
  BY SessionIs DEF Facts
<1>4. /\ Count(Recorded(Popped(session)).issues) = Count(session.issues) + 1
      /\ Recorded(Popped(session)).issues.real
           = IF Popped(session).known_depth > 0 THEN session.issues.real
             ELSE session.issues.real + 1
      /\ Recorded(Popped(session)).aborted = session.aborted
      /\ Recorded(Popped(session)).known_depth = Popped(session).known_depth
  <2> DEFINE p == Popped(session)
  <2>1. p \in Session /\ p.issues = session.issues /\ p.aborted = session.aborted
    BY <1>3
  <2> HIDE DEF p
  <2>2. /\ Count(Recorded(p).issues) = Count(p.issues) + 1
        /\ Recorded(p).issues.real = IF p.known_depth > 0 THEN p.issues.real ELSE p.issues.real + 1
        /\ Recorded(p).aborted = p.aborted
        /\ Recorded(p).known_depth = p.known_depth
    BY <2>1, SessionIs
  <2>3. /\ Count(Recorded(p).issues) = Count(session.issues) + 1
        /\ Recorded(p).issues.real
             = IF p.known_depth > 0 THEN session.issues.real ELSE session.issues.real + 1
        /\ Recorded(p).aborted = session.aborted
        /\ Recorded(p).known_depth = p.known_depth
    BY <2>1, <2>2
  <2> QED BY <2>3 DEF p
<1>5. /\ session'.aborted = session.aborted
      /\ NewlyRecorded => Issues' = Issues /\ session'.issues.real = session.issues.real
      /\ ~NewlyRecorded =>
            /\ Issues' = Issues + 1
            /\ session'.issues.real
                 = IF session'.known_depth > 0 THEN session.issues.real
                   ELSE session.issues.real + 1
  BY <1>1, <1>3, <1>4 DEF Issues
<1>6. session'.known_depth = 0 <=> Counts(2)
  <2>1. session'.known_depth = 0 <=> Counts(1)'
    BY DEF Facts
  <2>2. 1 \in 1..Len(frames') /\ 1 + 1 = 2
    BY <1>1, TopIs DEF BlockLeft
  <2>3. Counts(1)' <=> Counts(1 + 1)
    BY <1>1, <2>2, CountsNext
  <2> QED BY <2>1, <2>2, <2>3
<1>7. SomeWrong' <=> SomeWrong \/ (Counts(2) /\ ~Top.saw)
  BY <1>1, <1>2, WrongLeft
<1>8. NewlyRecorded <=> Issues > Top.before
  BY DEF NewlyRecorded, Issues
<1>9. ASSUME session.issues.real = 0
      PROVE  AbortedMatches /\ SeenMatches /\ (NewlyRecorded <=> Top.saw)
  <2>1. AbortedMatches /\ SeenMatches
    BY <1>1, <1>2, <1>9 DEF RunHonest
  <2>2. Issues > frames[1].before <=> \E j \in 1..1 : frames[j].saw
    BY <2>1, TopIs DEF SeenMatches, Issues
  <2>3. (\E j \in 1..1 : frames[j].saw) <=> frames[1].saw
    OBVIOUS
  <2> QED BY <1>8, <2>1, <2>2, <2>3, TopIs
<1>10. Matches'
  <2>1. session.issues.real > 0 <=> SomeWrong
    BY <1>1, MatchesIs DEF RunHonest, Matches
  <2> QED BY <1>5, <1>6, <1>7, <1>9, <2>1 DEF Matches, Facts
<1>11. WrongMatches'
  BY <1>1, <1>10 DEF WrongMatches, Matches, SomeWrong
<1>12. ASSUME session'.issues.real = 0
       PROVE  AbortedMatches' /\ SeenMatches'
  <2>1. session.issues.real = 0
    BY <1>5, <1>12 DEF Facts
  <2>2. Top.before <= Issues /\ Top.before \in Nat
    BY <1>9, <2>1, TopIs DEF SeenMatches, Issues, FrameType
  <2>3. Issues' >= Issues /\ Issues' > Top.before /\ Issues' \in Nat
    BY <1>5, <1>8, <2>2 DEF Facts
  <2>4. (frames[2].wrong \/ ~Top.saw) \in BOOLEAN
    BY <1>2
  <2>5. SeenMatches'
    BY <1>1, <1>9, <2>1, <2>3, <2>4, SeenLeft DEF Facts
  <2> QED BY <1>1, <1>5, <1>9, <2>1, <2>5 DEF AbortedMatches
<1> QED BY <1>11, <1>12 DEF RunHonest

\* The throw it stops is an issue, or was one when a #require began it.
LEMMA KnownThrownHonest ==
    ASSUME Shaped, Facts, Facts', RunHonest, KnownThrown, aborting \in BOOLEAN
    PROVE  RunHonest'
<1>1. /\ unwinding # "trap" /\ Top.block = "known"
      /\ BlockLeft(TRUE, frames[2].wrong)
      /\ unwinding' = "no" /\ aborting' = FALSE
      /\ session' = Popped([(IF session.aborted THEN session ELSE Recorded(session))
                              EXCEPT !.aborted = FALSE])
  BY DEF KnownThrown, Calm
<1>2. /\ ~Over /\ ~Over' /\ frames[2].wrong \in BOOLEAN /\ ~Counts(1)
  BY <1>1, LeftIs
<1>3. session.known_depth > 0
  BY <1>2 DEF Facts
<1>4. /\ session'.issues.real = session.issues.real /\ session'.aborted = FALSE
      /\ Issues' = IF session.aborted THEN Issues ELSE Issues + 1
  <2> DEFINE s == IF session.aborted THEN session ELSE Recorded(session)
             t == [s EXCEPT !.aborted = FALSE]
  <2>1. /\ Recorded(session) \in Session
        /\ Recorded(session).issues.real = session.issues.real
        /\ Count(Recorded(session).issues) = Count(session.issues) + 1
    BY <1>3, SessionIs DEF Facts
  <2>2. /\ s \in Session /\ s.issues.real = session.issues.real
        /\ Count(s.issues) = IF session.aborted THEN Count(session.issues)
                             ELSE Count(session.issues) + 1
    BY <2>1 DEF Facts
  <2> HIDE DEF s
  <2>3. t \in Session /\ t.issues = s.issues /\ t.aborted = FALSE
    BY <2>2, SessionIs
  <2>4. session' = Popped(t)
    BY <1>1 DEF s
  <2> HIDE DEF t
  <2>5. session'.issues = t.issues /\ session'.aborted = FALSE
    BY <2>3, <2>4, SessionIs
  <2> QED BY <2>2, <2>3, <2>5 DEF Issues
<1>5. SomeWrong' <=> SomeWrong
  <2>1. BlockLeft(TRUE, frames[2].wrong \/ FALSE)
    <3>1. (frames[2].wrong \/ FALSE) = frames[2].wrong
      BY <1>2
    <3> QED BY <1>1, <3>1 DEF BlockLeft
  <2>2. SomeWrong' <=> SomeWrong \/ (Counts(2) /\ FALSE)
    BY <1>1, <2>1, WrongLeft
  <2> QED BY <2>2
<1>6. WrongMatches'
  <2>1. Matches'
    BY <1>1, <1>2, <1>4, <1>5, MatchesIs DEF RunHonest, Matches
  <2> QED BY <1>1, <2>1 DEF WrongMatches, Matches, SomeWrong
<1>7. ASSUME session'.issues.real = 0
      PROVE  AbortedMatches' /\ SeenMatches'
  <2>1. AbortedMatches /\ SeenMatches
    BY <1>1, <1>2, <1>4, <1>7 DEF RunHonest
  <2>2. Top = frames[1] /\ 1 \in 1..Len(frames) /\ Top.before \in Nat
    BY TopIs DEF FrameType
  <2>3. /\ Top.before <= Issues
        /\ Issues > Top.before <=> \E j \in 1..1 : frames[j].saw
    BY <2>1, <2>2 DEF SeenMatches, Issues
  <2>4. (\E j \in 1..1 : frames[j].saw) <=> Top.saw
    BY <2>2
  <2>5. session.aborted => Top.saw
    BY <2>1 DEF AbortedMatches
  <2>6. Issues' >= Issues /\ Issues' > Top.before /\ Issues' \in Nat
    BY <1>4, <2>2, <2>3, <2>4, <2>5 DEF Facts
  <2>7. SeenMatches'
    BY <1>1, <1>2, <2>1, <2>6, SeenLeft DEF Facts
  <2> QED BY <1>1, <1>4, <2>7 DEF AbortedMatches
<1> QED BY <1>6, <1>7 DEF RunHonest

LEMMA TrapHonest ==
    ASSUME Shaped, Facts, Facts', RunHonest, TrapPassed, aborting \in BOOLEAN,
           aborting => unwinding = "throw"
    PROVE  RunHonest'
<1>1. /\ unwinding' = "trap" /\ aborting' = FALSE /\ aborting = FALSE
      /\ session' \in {session, Popped(session)}
  BY DEF TrapPassed, TrappedOut
<1>2. ~Over'
  BY LeftIs DEF TrapPassed
<1>3. session'.issues = session.issues /\ session'.aborted = session.aborted
  <2>1. Popped(session).issues = session.issues /\ Popped(session).aborted = session.aborted
    BY SessionIs DEF Facts
  <2> QED BY <1>1, <2>1
<1>4. WrongMatches'
  BY <1>1, <1>2 DEF WrongMatches
<1>5. session'.issues.real = 0 => AbortedMatches'
  BY <1>1, <1>3 DEF RunHonest, AbortedMatches
<1> QED BY <1>1, <1>4, <1>5 DEF RunHonest

LEMMA HonestStep ==
    ASSUME RunShape, ScopesInv, HonestInv, [Next]_vars
    PROVE  HonestInv'
<1>0. RunShape' /\ ScopesInv'
  BY ScopesStep
<1>1. CASE Body
  <2> SUFFICES ASSUME session' # None, ~swallowed' PROVE RunHonest'
    BY DEF HonestInv, RunHonest
  <2>1. session # None /\ Shaped /\ BodySteps /\ Facts
    BY <1>1, BodyIs, FactsHold
  <2>2. Facts'
    <3>1. (RunShape /\ ScopesInv /\ session # None => Shaped /\ Facts)'
      BY FactsHold, PTL
    <3> QED BY <1>0, <3>1
  <2>3. /\ unwinding \in {"no", "throw", "trap"} /\ aborting \in BOOLEAN /\ swallowed \in BOOLEAN
        /\ aborting => unwinding = "throw"
    BY DEF RunShape
  <2>4. ~swallowed
    BY <2>1, <2>3
       DEF BodySteps, Checked, Required, Failed, BlockEntered, BodyOver, Passed, Unmet, KnownLeft,
           KnownThrown, TrapPassed, Stopped
  <2>5. RunHonest
    BY <2>1, <2>4 DEF HonestInv, RunHonest
  <2>6. CASE Checked \/ Required
    BY <2>1, <2>2, <2>3, <2>5, <2>6, CheckedHonest
  <2>7. CASE Failed
    BY <2>1, <2>2, <2>3, <2>5, <2>7, FailedHonest
  <2>8. ASSUME NEW block \in Blocks, BlockEntered(block) PROVE RunHonest'
    BY <2>1, <2>2, <2>3, <2>5, <2>8, EnteredHonest
  <2>9. CASE BodyOver
    BY <2>1, <2>2, <2>3, <2>5, <2>9, OverHonest
  <2>10. CASE Passed
    BY <2>1, <2>2, <2>3, <2>5, <2>10, PassedHonest
  <2>11. CASE Unmet
    BY <2>1, <2>2, <2>3, <2>5, <2>11, UnmetHonest
  <2>12. CASE KnownLeft
    BY <2>1, <2>2, <2>3, <2>5, <2>12, KnownLeftHonest
  <2>13. CASE KnownThrown
    BY <2>1, <2>2, <2>3, <2>5, <2>13, KnownThrownHonest
  <2>14. CASE TrapPassed
    BY <2>1, <2>2, <2>3, <2>5, <2>14, TrapHonest
  <2> QED BY <2>1, <2>6, <2>7, <2>8, <2>9, <2>10, <2>11, <2>12, <2>13, <2>14 DEF BodySteps
<1>2. CASE Begin
  <2>1. /\ session'.issues.real = 0 /\ session'.aborted = FALSE /\ Count(session'.issues) = 0
        /\ frames' \in Seq(FrameType) /\ Len(frames') = 1 /\ frames'[1].before = 0
        /\ frames'[1].saw = FALSE /\ frames'[1].wrong = FALSE /\ frames'[1].block = "body"
    BY <1>2, BeginIs
  <2>2. Top' = frames'[1] /\ unwinding' = "no" /\ aborting' = FALSE
    BY <1>2, <2>1 DEF Top, Begin
  <2>3. WrongMatches'
    BY <2>1, <2>2 DEF WrongMatches, Over
  <2>4. AbortedMatches'
    BY <2>1, <2>2 DEF AbortedMatches
  <2>5. SeenMatches'
    <3>1. \A i \in 1..Len(frames') : i = 1
      BY <2>1
    <3>2. \A j \in 1..1 : j = 1
      OBVIOUS
    <3> QED BY <2>1, <3>1, <3>2 DEF SeenMatches
  <2> QED BY <2>3, <2>4, <2>5 DEF HonestInv
<1>3. CASE Finish
  BY <1>3 DEF Finish, HonestInv
<1>4. CASE PlanCase \/ SelectIds \/ NoRun \/ UNCHANGED vars
  <2>1. UNCHANGED runVars
    BY <1>4 DEF PlanCase, SelectIds, NoRun, vars
  <2> QED BY <2>1
         DEF runVars, HonestInv, WrongMatches, AbortedMatches, SeenMatches, Over, Top, Counts, InKnown
<1> QED BY <1>1, <1>2, <1>3, <1>4 DEF Next

LEMMA FinishHonest ==
    ASSUME RunShape, ScopesInv, HonestInv, Finish
    PROVE  StatusHonest'
<1>1. session # None /\ Over /\ Shaped /\ Facts
  BY FactsHold DEF Finish, Over
<1>2. SUFFICES ASSUME ~swallowed
               PROVE  last'.failed = last'.wrong
  BY DEF Finish, StatusHonest
<1>3. PICK late \in {0, 1} :
         last' = [failed |-> session.issues.real + late + OutcomeIssues > 0,
                  wrong |-> Top.wrong \/ late = 1,
                  trapped |-> unwinding = "trap", swallowed |-> swallowed]
  BY DEF Finish
<1>4. /\ Top = frames[1] /\ Len(frames) = 1 /\ Top.wrong \in BOOLEAN /\ Top.block = "over"
      /\ Counts(1) /\ ~InKnown /\ (SomeWrong <=> Top.wrong)
  <2>1. Top = frames[1] /\ Len(frames) = 1 /\ Top.wrong \in BOOLEAN /\ Top.block = "over"
    BY <1>1, TopIs DEF Over, FrameType
  <2>2. Counts(1)
    BY <2>1 DEF Counts
  <2>3. SomeWrong <=> Top.wrong
    BY <2>1, <2>2 DEF SomeWrong
  <2> QED BY <1>1, <2>1, <2>2, <2>3 DEF Facts
<1>5. session.issues.real \in Nat /\ OutcomeIssues \in {0, 1}
  BY <1>1 DEF Facts, OutcomeIssues
<1>6. session.issues.real + OutcomeIssues > 0 <=> Top.wrong
  <2>1. CASE unwinding = "no"
    <3>1. session.issues.real > 0 <=> Top.wrong
      BY <1>1, <1>2, <1>4, <2>1 DEF HonestInv, WrongMatches, SomeWrong
    <3> QED BY <1>5, <2>1, <3>1 DEF OutcomeIssues
  <2>2. CASE unwinding # "no"
    <3>1. Top.wrong
      BY <1>1, <1>2, <2>2 DEF HonestInv, WrongMatches
    <3>2. session.issues.real = 0 => ~session.aborted
      BY <1>1, <1>2, <1>4 DEF HonestInv, AbortedMatches
    <3> QED BY <1>5, <2>2, <3>1, <3>2 DEF OutcomeIssues
  <2> QED BY <2>1, <2>2
<1>7. session.issues.real + late + OutcomeIssues > 0 <=> Top.wrong \/ late = 1
  BY <1>3, <1>5, <1>6
<1> QED BY <1>3, <1>7

\* A test fails exactly when something went wrong in it that no withKnownIssue
\* around it expected (run_one), whatever the body does and however its blocks
\* are nested.
THEOREM StatusIsHonest == Spec => []StatusHonest
<1>1. Init => RunShape /\ ScopesInv /\ HonestInv /\ StatusHonest
  BY ScopesInit DEF Init, HonestInv, StatusHonest
<1>2. /\ RunShape /\ ScopesInv /\ HonestInv /\ StatusHonest
      /\ [Next]_vars
      => RunShape' /\ ScopesInv' /\ HonestInv' /\ StatusHonest'
  <2> SUFFICES ASSUME RunShape, ScopesInv, HonestInv, StatusHonest, [Next]_vars
               PROVE  RunShape' /\ ScopesInv' /\ HonestInv' /\ StatusHonest'
    OBVIOUS
  <2>1. RunShape' /\ ScopesInv' /\ HonestInv'
    BY ScopesStep, HonestStep
  <2>2. CASE Finish
    BY <2>1, <2>2, FinishHonest
  <2>3. CASE NoRun
    BY <2>1, <2>3 DEF NoRun, StatusHonest
  <2>4. CASE Body \/ Begin \/ PlanCase \/ SelectIds \/ UNCHANGED vars
    <3>1. last' = last
      BY <2>4 DEF Body, ExpectFails, RequireFails, Fails, Enter, Leave, Throw, Trap, Operates, SameRun,
                  Begin, PlanCase, SelectIds, vars
    <3> QED BY <2>1, <3>1 DEF StatusHonest
  <2> QED BY <2>2, <2>3, <2>4 DEF Next
<1> QED BY <1>1, <1>2, PTL DEF Spec

\* What run_one promises of traps, with the one thing that breaks it named.
TrapsFailUnlessSwallowed == last.trapped /\ ~last.swallowed => last.failed

\* A trap fails its test (run_one), except after the body itself stopped a
\* #require's throw within a withKnownIssue: the flag that throw left raised is
\* the only thing that can hide a trap.
THEOREM OnlySwallowingHidesTraps == Spec => []TrapsFailUnlessSwallowed
<1> DEFINE Inv == RunShape /\ ScopesInv /\ HonestInv /\ TrapsFailUnlessSwallowed
<1>1. Init => Inv
  BY ScopesInit DEF Init, HonestInv, TrapsFailUnlessSwallowed
<1>2. Inv /\ [Next]_vars => Inv'
  <2> SUFFICES ASSUME Inv, [Next]_vars PROVE TrapsFailUnlessSwallowed'
    BY ScopesStep, HonestStep
  <2>1. CASE Finish
    <3> SUFFICES ASSUME last'.trapped, ~last'.swallowed PROVE last'.failed
      BY DEF TrapsFailUnlessSwallowed
    <3>1. PICK late \in {0, 1} :
             last' = [failed |-> session.issues.real + late + OutcomeIssues > 0,
                      wrong |-> Top.wrong \/ late = 1,
                      trapped |-> unwinding = "trap", swallowed |-> swallowed]
      BY <2>1 DEF Finish
    <3>2. unwinding = "trap" /\ Over /\ session # None /\ ~swallowed
      BY <2>1, <3>1 DEF Finish, Over
    <3>3. last'.wrong
      BY <3>1, <3>2 DEF HonestInv, WrongMatches
    <3>4. StatusHonest'
      BY <2>1, FinishHonest
    <3> QED BY <3>1, <3>2, <3>3, <3>4 DEF StatusHonest
  <2>2. CASE NoRun
    BY <2>2 DEF NoRun, TrapsFailUnlessSwallowed
  <2>3. CASE Body \/ Begin \/ PlanCase \/ SelectIds \/ UNCHANGED vars
    <3>1. last' = last
      BY <2>3 DEF Body, ExpectFails, RequireFails, Fails, Enter, Leave, Throw, Trap, Operates, SameRun,
                  Begin, PlanCase, SelectIds, vars
    <3> QED BY <3>1 DEF TrapsFailUnlessSwallowed
  <2> QED BY <2>1, <2>2, <2>3 DEF Next
<1> QED BY <1>1, <1>2, PTL DEF Spec

-----------------------------------------------------------------------------
(* The selection                                                           *)

\* The members of K counted from below: no two have the same count, and every
\* count up to the last is some member's.
LEMMA Ranks ==
    ASSUME NEW n \in Nat, NEW K \in SUBSET (1..n)
    PROVE  /\ Cardinality(K) \in Nat
           /\ \A i \in K : Cardinality(K \cap (1..i)) \in 1..Cardinality(K)
           /\ \A i, j \in K : Cardinality(K \cap (1..i)) = Cardinality(K \cap (1..j)) => i = j
           /\ \A k \in 1..Cardinality(K) : \E i \in K : Cardinality(K \cap (1..i)) = k
<1> DEFINE below(i) == K \cap (1..i)
           rank == [i \in K |-> Cardinality(below(i))]
<1>1. IsFiniteSet(K) /\ Cardinality(K) \in Nat
  <2>1. IsFiniteSet(1..n)
    BY FS_Interval
  <2>2. IsFiniteSet(K)
    BY <2>1, FS_Subset
  <2> QED BY <2>2, FS_CardinalityType
<1>2. \A i : IsFiniteSet(below(i)) /\ Cardinality(below(i)) \in Nat
             /\ Cardinality(below(i)) <= Cardinality(K)
  BY <1>1, FS_Subset, FS_CardinalityType
<1>3. \A i \in K : Cardinality(below(i)) \in 1..Cardinality(K)
  <2> SUFFICES ASSUME NEW i \in K PROVE Cardinality(below(i)) \in 1..Cardinality(K)
    OBVIOUS
  <2>1. i \in below(i)
    OBVIOUS
  <2>2. Cardinality(below(i)) # 0
    BY <1>2, <2>1, FS_EmptySet
  <2> QED BY <1>1, <1>2, <2>2
<1>4. \A i, j \in K : i < j => Cardinality(below(i)) # Cardinality(below(j))
  <2> SUFFICES ASSUME NEW i \in K, NEW j \in K, i < j
               PROVE  Cardinality(below(i)) # Cardinality(below(j))
    OBVIOUS
  <2>1. below(i) \subseteq below(j) /\ j \in below(j) /\ j \notin below(i)
    OBVIOUS
  <2> HIDE DEF below
  <2> QED BY <1>2, <2>1, FS_Subset
<1>5. \A i, j \in K : Cardinality(below(i)) = Cardinality(below(j)) => i = j
  <2> HIDE DEF below
  <2> QED BY <1>4
<1>6. rank \in [K -> 1..Cardinality(K)] /\ \A i \in K : rank[i] = Cardinality(below(i))
  BY <1>3
<1> HIDE DEF rank
<1>7. rank \in Injection(K, 1..Cardinality(K))
  BY <1>5, <1>6 DEF Injection, IsInjective
<1>8. rank \in Surjection(K, 1..Cardinality(K))
  <2>1. IsFiniteSet(1..Cardinality(K)) /\ Cardinality(1..Cardinality(K)) = Cardinality(K)
    BY <1>1, FS_Interval
  <2> QED BY <1>7, <2>1, FS_Injection
<1>9. \A k \in 1..Cardinality(K) : \E i \in K : Cardinality(below(i)) = k
  BY <1>6, <1>8 DEF Surjection
<1> QED BY <1>1, <1>3, <1>5, <1>9

PlanType == [case : Case, id : Ids, what : {"run", "skip", "fail"}]
ResultType == [case : Case, id : Ids]

\* Exactly the plans the ids name are kept.
LEMMA ChosenIs ==
    ASSUME NEW ids, plans \in Seq(PlanType)
    PROVE  /\ Chosen(ids) \in Seq(PlanType)
           /\ \A i \in 1..Len(plans) : Named(plans[i], ids) =>
                 \E k \in 1..Len(Chosen(ids)) : Chosen(ids)[k] = plans[i]
           /\ \A k \in 1..Len(Chosen(ids)) : Named(Chosen(ids)[k], ids)
<1> DEFINE K == {i \in DOMAIN plans : Named(plans[i], ids)}
           at(k) == CHOOSE i \in K : Cardinality(K \cap (1..i)) = k
<1>1. Len(plans) \in Nat /\ DOMAIN plans = 1..Len(plans) /\ K \in SUBSET (1..Len(plans))
  OBVIOUS
<1>2. \A i \in K : plans[i] \in PlanType /\ Named(plans[i], ids)
  OBVIOUS
<1>3. \A i \in 1..Len(plans) : Named(plans[i], ids) => i \in K
  OBVIOUS
<1>4. Chosen(ids) = [k \in 1..Cardinality(K) |-> plans[at(k)]]
  BY DEF Chosen
<1> HIDE DEF K
<1>5. /\ Cardinality(K) \in Nat
      /\ \A i \in K : Cardinality(K \cap (1..i)) \in 1..Cardinality(K)
      /\ \A i, j \in K : Cardinality(K \cap (1..i)) = Cardinality(K \cap (1..j)) => i = j
      /\ \A k \in 1..Cardinality(K) : \E i \in K : Cardinality(K \cap (1..i)) = k
  BY <1>1, Ranks
<1>6. \A k \in 1..Cardinality(K) : at(k) \in K /\ Cardinality(K \cap (1..at(k))) = k
  BY <1>5
<1> HIDE DEF at
<1>7. /\ Chosen(ids) \in Seq(PlanType) /\ Len(Chosen(ids)) = Cardinality(K)
      /\ \A k \in 1..Cardinality(K) : Chosen(ids)[k] = plans[at(k)]
  <2> DEFINE m == Cardinality(K)
             s == [k \in 1..m |-> plans[at(k)]]
  <2>1. m \in Nat /\ \A k \in 1..m : plans[at(k)] \in PlanType
    BY <1>2, <1>5, <1>6
  <2> HIDE DEF m
  <2>2. s \in Seq(PlanType) /\ Len(s) = m /\ \A k \in 1..m : s[k] = plans[at(k)]
    BY <2>1
  <2> QED BY <1>4, <2>2 DEF m
<1>8. \A i \in K : \E k \in 1..Cardinality(K) : at(k) = i
  BY <1>5, <1>6
<1> QED BY <1>2, <1>3, <1>6, <1>7, <1>8

LEMMA PlansOfIs ==
    ASSUME NEW c \in Case, NEW p \in PlansOf(c)
    PROVE  p \in Seq(PlanType) /\ Len(p) > 0 /\ p[1].case = c
<1>1. CASE \E what \in {"skip", "fail", "run"} : p = Single(c, what)
  BY <1>1 DEF Single, PlanType, Ids
<1>2. CASE \E m \in 1..MaxRuns : p = RunsOf(c, m)
  <2>1. PICK m \in 1..MaxRuns : p = RunsOf(c, m)
    BY <1>2
  <2>2. m \in Nat \ {0} /\ \A i \in 1..m : <<c, i>> \in Ids
    BY RunsAssumption DEF Ids
  <2>3. p = [i \in 1..m |-> [case |-> c, id |-> <<c, i>>, what |-> "run"]]
    BY <2>1 DEF RunsOf
  <2>4. \A i \in 1..m : [case |-> c, id |-> <<c, i>>, what |-> "run"] \in PlanType
    BY <2>2 DEF PlanType
  <2>5. p \in Seq(PlanType) /\ Len(p) = m
    BY <2>2, <2>3, <2>4
  <2>6. p[1] = [case |-> c, id |-> <<c, 1>>, what |-> "run"]
    BY <2>2, <2>3
  <2> QED BY <2>2, <2>5, <2>6
<1> QED BY <1>1, <1>2 DEF PlansOf

\* An id asked for has its result, or a plan that will be one.
Pending(id) ==
    \/ \E i \in 1..Len(report) : Named(report[i], {id})
    \/ \E i \in 1..Len(plans) : Named(plans[i], {id})

Selected ==
    /\ plans \in Seq(PlanType) /\ report \in Seq(ResultType)
    /\ todo \subseteq Case
    /\ asked = None /\ report = <<>> =>
          \A c \in Case \ todo : \E i \in 1..Len(plans) : plans[i].case = c
    /\ asked # None => todo = {}
    /\ session # None => plans # <<>>
    /\ asked # None /\ ~refused => \A id \in asked : Pending(id)

LEMMA SelectedInit == Init => Selected
<1> SUFFICES ASSUME Init PROVE Selected
  OBVIOUS
<1>1. plans = <<>> /\ report = <<>> /\ todo = Case /\ asked = None /\ session = None
  BY DEF Init
<1>2. <<>> \in Seq(PlanType) /\ <<>> \in Seq(ResultType)
  OBVIOUS
<1> QED BY <1>1, <1>2 DEF Selected

LEMMA SelectedPlan == ASSUME Selected, PlanCase PROVE Selected'
<1>1. PICK c \in todo : \E p \in PlansOf(c) : plans' = plans \o p /\ todo' = todo \ {c}
  BY DEF PlanCase
<1>2. PICK p \in PlansOf(c) : plans' = plans \o p /\ todo' = todo \ {c}
  BY <1>1
<1>3. c \in Case /\ plans \in Seq(PlanType)
  BY DEF Selected
<1>4. p \in Seq(PlanType) /\ Len(p) > 0 /\ p[1].case = c
  BY <1>3, PlansOfIs
<1>5. /\ plans' \in Seq(PlanType) /\ Len(plans') = Len(plans) + Len(p)
      /\ Len(plans) \in Nat /\ Len(p) \in Nat
      /\ \A i \in 1..(Len(plans) + Len(p)) :
            plans'[i] = IF i <= Len(plans) THEN plans[i] ELSE p[i - Len(plans)]
  BY <1>2, <1>3, <1>4, ConcatProperties
<1>6. asked' = asked /\ refused' = refused /\ report' = report
  BY DEF PlanCase
<1>7. asked = None
  BY DEF Selected
<1>8. ASSUME report = <<>>, NEW d \in Case \ todo'
      PROVE  \E i \in 1..Len(plans') : plans'[i].case = d
  <2>1. CASE d = c
    <3>1. Len(plans) + 1 \in 1..Len(plans') /\ plans'[Len(plans) + 1] = p[1]
      BY <1>4, <1>5
    <3> QED BY <1>4, <2>1, <3>1
  <2>2. CASE d # c
    <3>1. PICK i \in 1..Len(plans) : plans[i].case = d
      BY <1>2, <1>7, <1>8, <2>2 DEF Selected
    <3>2. i \in 1..Len(plans') /\ plans'[i] = plans[i]
      BY <1>5
    <3> QED BY <3>1, <3>2
  <2> QED BY <2>1, <2>2
<1>9. todo' \subseteq Case /\ report' \in Seq(ResultType)
  BY <1>2, <1>6 DEF Selected
<1>10. plans' # <<>>
  BY <1>4, <1>5
<1> QED BY <1>10, <1>5, <1>6, <1>7, <1>8, <1>9 DEF Selected

LEMMA SelectedSelect == ASSUME Selected, SelectIds PROVE Selected'
<1>0. /\ todo = {} /\ asked = None /\ report = <<>>
      /\ todo' = todo /\ report' = report /\ session' = None
      /\ plans \in Seq(PlanType)
      /\ \A c \in Case : \E i \in 1..Len(plans) : plans[i].case = c
  BY DEF SelectIds, Selected, runVars
<1>1. PICK ids \in SUBSET Ids :
         /\ asked' = ids
         /\ refused' = ~(ids \subseteq Known)
         /\ plans' = IF ids \subseteq Known THEN Chosen(ids) ELSE <<>>
  BY DEF SelectIds
<1>2. asked' # None
  BY <1>1, NoneAssumption
<1>3. report' \in Seq(ResultType)
  BY <1>0 DEF Selected
<1>4. CASE ~(ids \subseteq Known)
  <2>1. plans' = <<>> /\ refused' = TRUE
    BY <1>1, <1>4
  <2>2. plans' \in Seq(PlanType)
    BY <2>1
  <2> QED BY <1>0, <1>2, <1>3, <2>1, <2>2 DEF Selected
<1>5. CASE ids \subseteq Known
  <2>1. plans' = Chosen(ids)
    BY <1>1, <1>5
  <2>2. /\ plans' \in Seq(PlanType)
        /\ \A i \in 1..Len(plans) : Named(plans[i], ids) =>
              \E k \in 1..Len(plans') : plans'[k] = plans[i]
    BY <1>0, <2>1, ChosenIs
  <2>3. ASSUME NEW id \in ids
        PROVE  \E k \in 1..Len(plans') : Named(plans'[k], {id})
    <3>1. PICK i \in 1..Len(plans) : Named(plans[i], {id})
      <4>1. id \in Case \/ \E i \in DOMAIN plans : id = plans[i].id
        BY <1>5, <2>3 DEF Known
      <4>2. DOMAIN plans = 1..Len(plans)
        BY <1>0
      <4> QED BY <1>0, <4>1, <4>2 DEF Named
    <3>2. Named(plans[i], ids)
      BY <2>3, <3>1 DEF Named
    <3> QED BY <2>2, <3>1, <3>2
  <2>4. \A id \in asked' : Pending(id)'
    BY <1>1, <2>3 DEF Pending, Named
  <2> QED BY <1>0, <1>2, <1>3, <2>2, <2>4 DEF Selected
<1> QED BY <1>4, <1>5

\* A plan that is carried out leaves its result.
LEMMA SelectedCarriedOut ==
    ASSUME Selected, plans # <<>>, plans' = Tail(plans),
           report' = Append(report, [case |-> Head(plans).case, id |-> Head(plans).id]),
           UNCHANGED <<todo, asked, refused>>, session' = None
    PROVE  Selected'
<1> DEFINE r == [case |-> Head(plans).case, id |-> Head(plans).id]
<1>1. plans \in Seq(PlanType) /\ report \in Seq(ResultType)
  BY DEF Selected
<1>2. Head(plans) = plans[1] /\ plans[1] \in PlanType
  BY <1>1
<1>3. r \in ResultType
  BY <1>2 DEF PlanType, ResultType
<1>4. \A id : Named(plans[1], {id}) => Named(r, {id})
  BY <1>2 DEF Named
<1>5. report' = Append(report, r)
  OBVIOUS
<1> HIDE DEF r
<1>6. /\ report' \in Seq(ResultType) /\ Len(report') = Len(report) + 1
      /\ Len(report) \in Nat
      /\ \A i \in 1..Len(report) : report'[i] = report[i]
      /\ report'[Len(report) + 1] = r
  BY <1>1, <1>3, <1>5, AppendProperties
<1>7. /\ plans' \in Seq(PlanType) /\ Len(plans') = Len(plans) - 1
      /\ Len(plans) \in Nat
      /\ \A i \in 1..Len(plans') : plans'[i] = plans[i + 1]
  BY <1>1, HeadTailProperties
<1>8. report' # <<>>
  BY <1>6
<1>9. ASSUME NEW id, Pending(id) PROVE Pending(id)'
  <2>1. CASE \E i \in 1..Len(report) : Named(report[i], {id})
    <3>1. PICK i \in 1..Len(report) : Named(report[i], {id})
      BY <2>1
    <3>2. i \in 1..Len(report') /\ Named(report'[i], {id})
      BY <1>6, <3>1
    <3> QED BY <3>2 DEF Pending, Named
  <2>2. CASE \E i \in 1..Len(plans) : Named(plans[i], {id})
    <3>1. PICK i \in 1..Len(plans) : Named(plans[i], {id})
      BY <2>2
    <3>2. CASE i = 1
      <4>1. Len(report) + 1 \in 1..Len(report') /\ Named(report'[Len(report) + 1], {id})
        <5>1. Named(r, {id})
          BY <1>4, <3>1, <3>2
        <5> QED BY <1>6, <5>1
      <4> QED BY <4>1 DEF Pending, Named
    <3>3. CASE i # 1
      <4>1. i - 1 \in 1..Len(plans') /\ plans'[i - 1] = plans[i]
        BY <1>7, <3>3
      <4> QED BY <3>1, <4>1 DEF Pending, Named
    <3> QED BY <3>2, <3>3
  <2> QED BY <1>9, <2>1, <2>2 DEF Pending
<1>10. asked' # None /\ ~refused' => \A id \in asked' : Pending(id)'
  BY <1>9 DEF Selected
<1> QED BY <1>6, <1>7, <1>8, <1>10 DEF Selected

LEMMA SelectedNext == ASSUME Selected, [Next]_vars PROVE Selected'
<1>1. CASE PlanCase
  BY <1>1, SelectedPlan
<1>2. CASE SelectIds
  BY <1>2, SelectedSelect
<1>3. CASE Finish
  <2>1. /\ session # None /\ session' = None /\ plans' = Tail(plans)
        /\ report' = Append(report, [case |-> Head(plans).case, id |-> Head(plans).id])
        /\ UNCHANGED <<todo, asked, refused>>
    BY <1>3 DEF Finish
  <2>2. plans # <<>>
    BY <2>1 DEF Selected
  <2> QED BY <2>1, <2>2, SelectedCarriedOut
<1>4. CASE NoRun
  BY <1>4, SelectedCarriedOut DEF NoRun, runVars
<1>5. CASE Begin \/ Body \/ UNCHANGED vars
  <2>1. UNCHANGED <<todo, plans, asked, refused, report>>
    BY <1>5 DEF Begin, Body, ExpectFails, RequireFails, Fails, Enter, Leave, Throw, Trap,
                Operates, SameRun, vars
  <2>2. session' # None => plans # <<>>
    BY <1>5 DEF Selected, Begin, Body, ExpectFails, RequireFails, Fails, Enter, Leave, Throw,
                Trap, Operates, Running, vars, runVars
  <2> QED BY <2>1, <2>2 DEF Selected, Pending, Named
<1> QED BY <1>1, <1>2, <1>3, <1>4, <1>5 DEF Next

\* Every id asked for has a result once no plan is left, whatever the traits and
\* the arguments make of the tests, unless the whole selection is refused.
THEOREM SelectionIsHeard == Spec => []SelectionHeard
<1>1. Selected => SelectionHeard
  <2> SUFFICES ASSUME Selected, asked # None, ~refused, plans = <<>>, NEW id \in asked
               PROVE  \E i \in DOMAIN report : Named(report[i], {id})
    BY DEF SelectionHeard
  <2>1. Pending(id) /\ Len(plans) = 0 /\ DOMAIN report = 1..Len(report)
    <3>1. Pending(id) /\ report \in Seq(ResultType)
      BY DEF Selected
    <3> QED BY <3>1
  <2>2. \E i \in 1..Len(report) : Named(report[i], {id})
    <3>1. ~ \E i \in 1..Len(plans) : Named(plans[i], {id})
      BY <2>1
    <3> QED BY <2>1, <3>1 DEF Pending
  <2> QED BY <2>1, <2>2, Zenon
<1> QED BY <1>1, SelectedInit, SelectedNext, PTL DEF Spec
=============================================================================
