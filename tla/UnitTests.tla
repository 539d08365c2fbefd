------------------------------ MODULE UnitTests ------------------------------
(***************************************************************************)
(* The test programs: main of calcTest.c and of cTests.c with their tests,  *)
(* on a model of the code they test.  That code may also be broken: a call  *)
(* fails its ASSERT, raises a signal, or exits.                            *)
(***************************************************************************)
EXTENDS TcTest, CalcTest, CTests

CONSTANT
  MaxFaults   \* bound: what goes wrong in the code under test

VARIABLES
  suite,        \* "calcTest" or "cTests"
  only,         \* the test that is named on the command line, or 0
  objs,         \* the fixture: the variables of a calculator, or a stack
  expectedExit,
  exitBuf,      \* the test whose frame exitBuf points to, or 0
  \* history
  broken,       \* the tests in which something went wrong
  fatal,        \* the process met a signal that it does not handle
  stray         \* exit has jumped to the frame of a test that had returned

testvars == <<tctestvars, suite, only, objs, expectedExit, exitBuf, broken, fatal, stray>>
control == <<suite, only, expectedExit, exitBuf, broken, fatal, stray>>

TestsOf(prog) == IF prog = "calcTest" THEN CalcSuite ELSE CSuite
Tests == TestsOf(suite)
Body == Tests[test]
Statement == Body[at]

NoTests ==
  /\ tpc = "none" /\ test = 1 /\ at = 1 /\ executed = 0 /\ failures = 0 /\ assertline = 0
  /\ blocked = {} /\ env = {} /\ reported = 0
  /\ suite = "calcTest" /\ only = 0 /\ objs = <<>>
  /\ expectedExit = FALSE /\ exitBuf = 0 /\ broken = {} /\ fatal = FALSE /\ stray = FALSE

\* main of cTests.c with an argument runs one test; with two it runs none.
MainStarts ==
  /\ TestInit
  /\ suite \in {"calcTest", "cTests"}
  /\ only \in IF suite = "calcTest" THEN {0} ELSE 0 .. Len(CSuite)
  /\ objs = <<>> /\ expectedExit = FALSE /\ exitBuf = 0
  /\ broken = {} /\ fatal = FALSE /\ stray = FALSE

Selected == only \in {0, test}
RunTest == test <= Len(Tests) /\ Selected /\ Begin /\ UNCHANGED <<control, objs>>
SkipTest == test <= Len(Tests) /\ ~Selected /\ NotSelected /\ UNCHANGED <<control, objs>>
EndOfTests == test > Len(Tests) /\ Fini /\ UNCHANGED <<control, objs>>

Fixture(prog) == IF prog = "calcTest" THEN EmptyStore ELSE <<>>
SetUpFixture ==
  /\ SetUp /\ UNCHANGED control
  /\ objs' = Fixture(suite)
ReturnFromTest == tpc = "body" /\ at > Len(Body) /\ Returns /\ UNCHANGED <<control, objs>>
CleanUpFixture == Passed /\ UNCHANGED <<control, objs>>

-----------------------------------------------------------------------------
\* A statement, when the code under test does what the model of it does.

Does(kind) == tpc = "body" /\ at <= Len(Body) /\ Statement.kind = kind

CalcAssert ==
  /\ suite = "calcTest" /\ Does("assert") /\ UNCHANGED control
  /\ LET r == EvalExpr(objs, Statement.call[2])
     IN  objs' = r.vars /\ AssertThat(Statement.line, r.out = Statement.want)
CAssert ==
  /\ suite = "cTests" /\ Does("assert") /\ UNCHANGED control
  /\ LET r == CallC(Statement.call, objs)
     IN  objs' = r.objs /\ AssertThat(Statement.line, r.st = "ok" /\ r.val \in Statement.want)
CCall ==
  /\ Does("call") /\ GoOn /\ UNCHANGED control
  /\ objs' = CallC(Statement.call, objs).objs
ExpectExit ==
  /\ Does("expect") /\ GoOn
  /\ expectedExit' = TRUE
  /\ UNCHANGED <<suite, only, objs, exitBuf, broken, fatal, stray>>

\* exit jumps to the sigsetjmp of this statement, and the test goes on after it.
CExits ==
  /\ Does("exits") /\ exitBuf' = test
  /\ IF CallC(Statement.call, objs).st = "exit" THEN GoOn ELSE FailNow(0)
  /\ UNCHANGED <<suite, only, objs, expectedExit, broken, fatal, stray>>

-----------------------------------------------------------------------------
\* The code under test is broken.

Breaks ==
  /\ Cardinality(broken) < MaxFaults
  /\ tpc \in {"setup", "body", "cleanup"}
  /\ broken' = broken \cup {test}
  /\ UNCHANGED <<suite, only, objs, expectedExit>>

LineOf == IF tpc = "body" /\ at <= Len(Body) THEN Statement.line ELSE 0

Signalled ==
  /\ Breaks /\ UNCHANGED <<exitBuf, stray>>
  /\ \E sig \in Signals : Raise(sig, LineOf) /\ fatal' = (sig \notin Caught)
WrongAnswer ==
  /\ Breaks /\ Does("assert") /\ AssertThat(Statement.line, FALSE)
  /\ UNCHANGED <<exitBuf, fatal, stray>>
DoesNotExit ==
  /\ Breaks /\ Does("exits") /\ FailNow(0)
  /\ exitBuf' = test
  /\ UNCHANGED <<fatal, stray>>

\* exit, where the test does not expect it.  FAIL, as long as no test has set
\* expectedExit: none resets it.
ExitsUnexpected ==
  /\ Breaks /\ suite = "cTests" /\ (Does("assert") \/ Does("call"))
  /\ ~expectedExit /\ FailNow(Statement.line)
  /\ UNCHANGED <<exitBuf, fatal, stray>>
\* Afterwards, siglongjmp to a frame that is gone, unless it is the test's own:
\* the process may end, crash into the handler, or run on as if nothing had been.
ExitsStray ==
  /\ Breaks /\ suite = "cTests" /\ (Does("assert") \/ Does("call"))
  /\ expectedExit /\ exitBuf # test
  /\ stray' = TRUE
  /\ UNCHANGED <<exitBuf, assertline, reported>>
  /\ \/ tpc' = "killed" /\ fatal' = TRUE
        /\ UNCHANGED <<test, at, counters, blocked, env>>
     \/ FailNow(0) /\ UNCHANGED fatal
     \/ tpc' = "cleanup" /\ UNCHANGED <<fatal, test, at, counters, blocked, env>>

TestsNext ==
  \/ RunTest \/ SkipTest \/ EndOfTests
  \/ SetUpFixture \/ ReturnFromTest \/ CleanUpFixture
  \/ CalcAssert \/ CAssert \/ CCall \/ ExpectExit \/ CExits
  \/ Signalled \/ WrongAnswer \/ DoesNotExit \/ ExitsUnexpected \/ ExitsStray

TestsSpec == MainStarts /\ [][TestsNext]_testvars

-----------------------------------------------------------------------------
\* What the tests are written for: the model of the code does what each statement
\* asks for, on what the statements before it have left behind.  That depends on
\* the ints, which have to be wide enough for the results that calcTest.c expects.

Leaves(prog, s, o) ==
  IF s.kind \notin {"assert", "call"} THEN o
  ELSE IF s.kind = "assert" /\ prog = "calcTest" THEN EvalExpr(o, s.call[2]).vars
  ELSE CallC(s.call, o).objs
Holds(prog, s, o) ==
  /\ s.kind = "assert" /\ prog = "calcTest" => EvalExpr(o, s.call[2]).out = s.want
  /\ s.kind = "assert" /\ prog = "cTests" =>
       CallC(s.call, o).st = "ok" /\ CallC(s.call, o).val \in s.want
  /\ s.kind = "exits" => CallC(s.call, o).st = "exit"

LeftBefore(prog, t) ==
  LET body == TestsOf(prog)[t]
      left[i \in 1 .. Len(body) + 1] ==
        IF i = 1 THEN Fixture(prog) ELSE Leaves(prog, body[i - 1], left[i - 1])
  IN  left

ASSUME SuitesAssumption ==
  \A prog \in {"calcTest", "cTests"} : \A t \in 1 .. Len(TestsOf(prog)) :
    LET body == TestsOf(prog)[t]
        left == LeftBefore(prog, t)
    IN  /\ Len(body) \in Nat
        /\ left[1] = Fixture(prog)
        /\ \A i \in 1 .. Len(body) :
             /\ left[i + 1] = Leaves(prog, body[i], left[i])
             /\ Holds(prog, body[i], left[i])

-----------------------------------------------------------------------------

\* The run survives whatever the code under test does, except for a signal that
\* tctest does not handle and the jump of a stale exit.  Every test that was asked
\* for is executed, and exactly those in which something went wrong are counted
\* as failed: on the model of the code they test, the tests of the repository hold.
EveryTestCounted ==
  ~stray =>
    /\ tpc = "killed" => fatal
    /\ tpc = "done" =>
         /\ executed = IF only = 0 THEN Len(Tests) ELSE 1
         /\ failures = Cardinality(broken)

\* The message of a crash blames an ASSERT of the test that crashed, or none.
LinesOf(t) == {Tests[t][i].line : i \in 1 .. Len(Tests[t])}
BlamesOwnTest ==
  [][reported' # reported => reported' \in LinesOf(test) \cup {-1}]_testvars
=============================================================================
