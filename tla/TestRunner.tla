----------------------------- MODULE TestRunner -----------------------------
(***************************************************************************)
(* Running @Test functions (crates/tswift-testing/src/lib.rs) with the     *)
(* recording session their checks report to (session.rs) and the macros    *)
(* and functions that report (expect.rs).                                  *)
(*                                                                         *)
(* A body is abstract: it checks, throws, traps and nests blocks as it     *)
(* likes.  A failed #require unwinds it as a throw that do/catch, try? and *)
(* #expect(throws:) can stop, and only the flag aborted tells the throw    *)
(* from one of the program's own.                                          *)
(*                                                                         *)
(* Beside the session the model keeps what the blocks themselves say: a    *)
(* frame is wrong when something in it went wrong, and withKnownIssue      *)
(* excuses what it saw go wrong in it, or is wrong if it saw nothing.      *)
(***************************************************************************)
EXTENDS Naturals, Sequences, FiniteSets

CONSTANTS
    Case,      \* discovered tests
    MaxRuns,   \* argument lists of a parameterized test (bounds the model)
    MaxOps,    \* checks, throws and blocks of a run (bounds the model)
    MaxNest,   \* blocks in each other (bounds the model)
    None       \* no id selection

ASSUME RunsAssumption == MaxRuns \in Nat

Blocks == {"known", "catch", "expectThrows", "requireThrows"}
Ids == Case \cup (Case \X (1..MaxRuns))

ASSUME NoneAssumption == \A ids \in SUBSET Ids : ids # None

VARIABLES
    todo,      \* the tests no plan has been made for
    plans,     \* the plans left to carry out
    asked,     \* the ids asked for, None for all tests
    refused,   \* an id names neither a test nor a run: nothing is run
    report,    \* a result for each plan carried out, by case and id
    last,      \* the last result's status, and what the frames said of it
    session,   \* None, or the issues, aborted and known_depth of a run
    frames,    \* the blocks the run is in, innermost first
    unwinding, \* "no", "throw" or "trap"
    aborting,  \* the throw under way is a failed #require's
    swallowed, \* such a throw was stopped, in a withKnownIssue, by another block
    ops        \* of this run (bounds the model)

runVars == <<session, frames, unwinding, aborting, swallowed, ops>>
vars == <<todo, plans, asked, refused, report, last, runVars>>
-----------------------------------------------------------------------------
(* Plans                                                                   *)

\* A case has an id of its own only among several; ids are 1, 2 and so on here.
RunsOf(c, n) == [i \in 1..n |-> [case |-> c, id |-> <<c, i>>, what |-> "run"]]
Single(c, what) == <<[case |-> c, id |-> c, what |-> what]>>

\* skip_reason and expand: a trait or a predicate decides, or a run is planned
\* for each argument list; an empty collection is a skip.
PlansOf(c) ==
    {Single(c, what) : what \in {"skip", "fail", "run"}} \cup {RunsOf(c, n) : n \in 1..MaxRuns}

PlanCase ==
    /\ \E c \in todo : \E p \in PlansOf(c) : plans' = plans \o p /\ todo' = todo \ {c}
    /\ UNCHANGED <<asked, refused, report, last, runVars>>

Known == Case \cup {plans[i].id : i \in DOMAIN plans}

\* Mutant: only the id of the plan itself is looked up.
NamedExactly(p, ids) == p.id \in ids

\* An id of a test stands for all its runs.
Named(p, ids) == p.case \in ids \/ p.id \in ids

\* The plans the ids name, in the order they were made: the k-th of them is the
\* one with k named plans up to it.
Chosen(ids) ==
    LET named == {i \in DOMAIN plans : Named(plans[i], ids)}
    IN [k \in 1..Cardinality(named) |->
           plans[CHOOSE i \in named : Cardinality(named \cap (1..i)) = k]]

\* Exact ids are applied once all plans are made.
SelectIds ==
    /\ todo = {} /\ asked = None /\ session = None /\ report = <<>>
    /\ \E ids \in SUBSET Ids :
          /\ ids # {}
          /\ asked' = ids
          /\ refused' = ~(ids \subseteq Known)
          /\ plans' = IF ids \subseteq Known THEN Chosen(ids) ELSE <<>>
    /\ UNCHANGED <<todo, report, last, runVars>>
-----------------------------------------------------------------------------
(* The recording session                                                   *)

NoIssues == [known |-> 0, real |-> 0]
Count(issues) == issues.known + issues.real

\* record_issue: known in a withKnownIssue block.
Recorded(s) ==
    IF s.known_depth > 0 THEN [s EXCEPT !.issues.known = @ + 1]
    ELSE [s EXCEPT !.issues.real = @ + 1]

Aborted(s) == [s EXCEPT !.aborted = TRUE]
Pushed(s) == [s EXCEPT !.known_depth = @ + 1]
Popped(s) == [s EXCEPT !.known_depth = IF @ = 0 THEN 0 ELSE @ - 1]

Frame(block) == [block |-> block, before |-> Count(session.issues), saw |-> FALSE, wrong |-> FALSE]
Top == Head(frames)
Wrong == [frames EXCEPT ![1].saw = TRUE, ![1].wrong = TRUE]
\* The blocks around the innermost one: something was seen in them too if it was
\* there or w, what is wrong with that block, says so.
Around(w) == [Tail(frames) EXCEPT ![1].saw = @ \/ Top.saw \/ w, ![1].wrong = @ \/ w]
-----------------------------------------------------------------------------
(* The body of a run                                                       *)

Begin ==
    /\ todo = {} /\ session = None
    /\ plans # <<>> /\ Head(plans).what = "run"
    /\ session' = [issues |-> NoIssues, aborted |-> FALSE, known_depth |-> 0]
    /\ frames' = <<[block |-> "body", before |-> 0, saw |-> FALSE, wrong |-> FALSE]>>
    /\ unwinding' = "no" /\ aborting' = FALSE /\ swallowed' = FALSE /\ ops' = 0
    /\ UNCHANGED <<todo, plans, asked, refused, report, last>>

Running == session # None /\ unwinding = "no" /\ Top.block # "over"
SameRun == UNCHANGED <<todo, plans, asked, refused, report, last>>

Operates == Running /\ ops < MaxOps /\ ops' = ops + 1 /\ SameRun

\* A false #expect, or Issue.record.
ExpectFails ==
    /\ Operates
    /\ session' = Recorded(session)
    /\ frames' = Wrong
    /\ UNCHANGED <<unwinding, aborting, swallowed>>

RequireFails ==
    /\ Operates
    /\ session' = Aborted(Recorded(session))
    /\ frames' = Wrong
    /\ unwinding' = "throw" /\ aborting' = TRUE
    /\ UNCHANGED swallowed

\* The program throws, or traps.
Fails ==
    /\ Operates
    /\ unwinding' \in {"throw", "trap"} /\ aborting' = FALSE
    /\ UNCHANGED <<session, frames, swallowed>>

\* do/catch or try?, a withKnownIssue, a #expect(throws:) or #require(throws:).
Enter(block) ==
    /\ Operates /\ Len(frames) <= MaxNest
    /\ session' = IF block = "known" THEN Pushed(session) ELSE session
    /\ frames' = <<Frame(block)>> \o frames
    /\ UNCHANGED <<unwinding, aborting, swallowed>>
-----------------------------------------------------------------------------
(* Leaving a block                                                         *)

Calm == unwinding' = "no" /\ aborting' = FALSE

\* Mutant: an issue from before the block passes for one of its own.
AnyRecorded == Count(session.issues) > 0

NewlyRecorded == Count(session.issues) > Top.before

\* Mutant: the known scope is left open by a trap.
AfterTrap == session

\* with_known_issue pops its scope however its closure ends.
TrappedOut == IF Top.block = "known" THEN Popped(session) ELSE session

\* The closure or body ends normally.
Leave ==
    /\ Running /\ SameRun
    /\ CASE Top.block = "body" ->
              /\ frames' = <<[Top EXCEPT !.block = "over"]>>
              /\ UNCHANGED session
              /\ Calm
         [] Top.block = "catch" ->
              /\ frames' = Around(Top.wrong)
              /\ UNCHANGED session
              /\ Calm
         [] Top.block = "known" ->
              /\ session' = IF NewlyRecorded THEN Popped(session) ELSE Recorded(Popped(session))
              /\ frames' = Around(~Top.saw)
              /\ Calm
         [] Top.block = "expectThrows" ->
              /\ session' = Recorded(session)
              /\ frames' = Around(TRUE)
              /\ Calm
         [] Top.block = "requireThrows" ->
              /\ session' = Aborted(Recorded(session))
              /\ frames' = Around(TRUE)
              /\ unwinding' = "throw" /\ aborting' = TRUE
         [] OTHER -> FALSE
    /\ UNCHANGED <<swallowed, ops>>

InKnown == \E i \in DOMAIN frames : frames[i].block = "known"

\* A throw leaves the body, or the innermost block stops it.
Throw ==
    /\ session # None /\ unwinding = "throw" /\ SameRun
    /\ CASE Top.block = "body" ->
              /\ frames' = <<[Top EXCEPT !.block = "over", !.wrong = TRUE]>>
              /\ UNCHANGED <<session, unwinding, aborting, swallowed>>
         [] Top.block = "catch" ->
              /\ frames' = Around(Top.wrong)
              /\ UNCHANGED session
              /\ Calm
              /\ swallowed' = (swallowed \/ (aborting /\ InKnown))
         [] Top.block = "known" ->
              /\ session' = Popped([(IF session.aborted THEN session ELSE Recorded(session))
                                      EXCEPT !.aborted = FALSE])
              /\ frames' = [Around(FALSE) EXCEPT ![1].saw = TRUE]
              /\ Calm
              /\ UNCHANGED swallowed
         \* The error is of the type asked for, or not: a failed #require's never.
         [] Top.block \in {"expectThrows", "requireThrows"} ->
              \/ /\ ~aborting
                 /\ frames' = Around(Top.wrong)
                 /\ UNCHANGED <<session, swallowed>>
                 /\ Calm
              \/ /\ frames' = Around(TRUE)
                 /\ swallowed' = (swallowed \/ (aborting /\ InKnown))
                 /\ IF Top.block = "expectThrows"
                    THEN session' = Recorded(session) /\ Calm
                    ELSE /\ session' = Aborted(Recorded(session))
                         /\ aborting' = TRUE
                         /\ UNCHANGED unwinding
         [] OTHER -> FALSE
    /\ UNCHANGED ops

\* No block stops a trap.
Trap ==
    /\ session # None /\ unwinding = "trap" /\ SameRun
    /\ Top.block # "over"
    /\ session' = TrappedOut
    /\ frames' = IF Top.block = "body" THEN <<[Top EXCEPT !.block = "over", !.wrong = TRUE]>>
                 ELSE Around(Top.wrong)
    /\ UNCHANGED <<unwinding, aborting, swallowed, ops>>
-----------------------------------------------------------------------------
(* Results                                                                 *)

\* An error that left the body is an issue unless a #require aborted it.
OutcomeIssues == IF unwinding # "no" /\ ~session.aborted THEN 1 ELSE 0

\* run_one's result; the time limit, if there is one, may have been exceeded.
Finish ==
    /\ session # None /\ Top.block = "over"
    /\ \E late \in {0, 1} :
          last' = [failed |-> session.issues.real + late + OutcomeIssues > 0,
                   wrong |-> Top.wrong \/ late = 1,
                   trapped |-> unwinding = "trap", swallowed |-> swallowed]
    /\ report' = Append(report, [case |-> Head(plans).case, id |-> Head(plans).id])
    /\ plans' = Tail(plans)
    /\ session' = None /\ frames' = <<>>
    /\ unwinding' = "no" /\ aborting' = FALSE /\ swallowed' = FALSE /\ ops' = 0
    /\ UNCHANGED <<todo, asked, refused>>

\* skipped_result and failed_result.
NoRun ==
    /\ todo = {} /\ session = None
    /\ plans # <<>> /\ Head(plans).what # "run"
    /\ report' = Append(report, [case |-> Head(plans).case, id |-> Head(plans).id])
    /\ last' = [failed |-> Head(plans).what = "fail", wrong |-> Head(plans).what = "fail",
                trapped |-> FALSE, swallowed |-> FALSE]
    /\ plans' = Tail(plans)
    /\ UNCHANGED <<todo, asked, refused, runVars>>
-----------------------------------------------------------------------------
Init ==
    /\ todo = Case /\ plans = <<>> /\ asked = None /\ refused = FALSE /\ report = <<>>
    /\ last = [failed |-> FALSE, wrong |-> FALSE, trapped |-> FALSE, swallowed |-> FALSE]
    /\ session = None /\ frames = <<>> /\ unwinding = "no" /\ aborting = FALSE
    /\ swallowed = FALSE /\ ops = 0

Body == ExpectFails \/ RequireFails \/ Fails \/ (\E b \in Blocks : Enter(b)) \/ Leave \/ Throw \/ Trap

Next == PlanCase \/ SelectIds \/ Begin \/ Body \/ Finish \/ NoRun

Spec == Init /\ [][Next]_vars
-----------------------------------------------------------------------------
(* Properties                                                              *)

\* A test fails exactly when something went wrong in it that no withKnownIssue
\* around it expected: a check, an error that left the body, a known issue that
\* did not occur, the time limit.  Unless the body itself stopped a #require's
\* throw within a withKnownIssue.
StatusHonest ==
    ~last.swallowed => last.failed = last.wrong

\* "An uncaught throw or a runtime trap that is *not* a `#require` abort is
\* itself a test failure" (lib.rs, run_one).
TrapsFail == last.trapped => last.failed

\* Issues are marked known in exactly the withKnownIssue blocks the body is in,
\* however the blocks in it were left.
KnownScopesBalance ==
    session # None =>
        session.known_depth = Cardinality({i \in DOMAIN frames : frames[i].block = "known"})

\* Each id asked for has a result when the runner is done, or the run is refused:
\* "never a silent zero-tests success" (lib.rs).
SelectionHeard ==
    asked # None /\ ~refused /\ plans = <<>> =>
        \A id \in asked : \E i \in DOMAIN report : Named(report[i], {id})
=============================================================================
