-------------------------------- MODULE TcTest --------------------------------
(***************************************************************************)
(* The unit test framework (tctest.h, tctest.c): its macros, as steps of a  *)
(* test program, and the handler of the signals that it registers.         *)
(*                                                                         *)
(* A test that fails leaves through siglongjmp, from wherever it is: its    *)
(* fixture is never freed.  The callbacks do nothing that is modelled.     *)
(***************************************************************************)
EXTENDS Integers, FiniteSets

CONSTANT
  Signals     \* what the code under test may raise

VARIABLES
  tpc,        \* "main", "setup", "body", "cleanup", "done", "killed" or "none"
  test,       \* the TEST that main is at
  at,         \* the statement that the test is at
  executed, failures,
  assertline, \* tctest_assertion_line
  blocked,    \* the process's signal mask
  env,        \* the mask in tctest_env
  reported    \* the line in the message of the last signal

counters == <<executed, failures>>
tctestvars == <<tpc, test, at, counters, assertline, blocked, env, reported>>

\* tctest_signal_list
Caught == {"SIGFPE", "SIGSEGV", "SIGBUS", "SIGABRT", "SIGTRAP", "SIGSYS"}

\* TEST_INIT
TestInit ==
  /\ tpc = "main" /\ test = 1 /\ at = 1
  /\ executed = 0 /\ failures = 0 /\ assertline = 0
  /\ blocked = {} /\ env = {} /\ reported = 0

-----------------------------------------------------------------------------
\* TEST

\* Seeded fault: the line of the last ASSERT is not forgotten.
BeginKeepsLine ==
  /\ tpc = "main" /\ tpc' = "setup" /\ at' = 1
  /\ executed' = executed + 1
  /\ env' = blocked
  /\ UNCHANGED <<test, failures, assertline, blocked, reported>>

Begin ==
  /\ tpc = "main" /\ tpc' = "setup" /\ at' = 1
  /\ executed' = executed + 1
  /\ assertline' = -1
  /\ env' = blocked
  /\ UNCHANGED <<test, failures, blocked, reported>>
NotSelected ==
  /\ tpc = "main" /\ test' = test + 1
  /\ UNCHANGED <<tpc, at, counters, assertline, blocked, env, reported>>
SetUp ==
  /\ tpc = "setup" /\ tpc' = "body"
  /\ UNCHANGED <<test, at, counters, assertline, blocked, env, reported>>
Returns ==
  /\ tpc = "body" /\ tpc' = "cleanup"
  /\ UNCHANGED <<test, at, counters, assertline, blocked, env, reported>>
Passed ==
  /\ tpc = "cleanup" /\ tpc' = "main" /\ test' = test + 1
  /\ UNCHANGED <<at, counters, assertline, blocked, env, reported>>

\* Seeded fault: sigsetjmp(tctest_env, 0), the mask is not restored.
MaskKept(mask) == mask

\* siglongjmp(tctest_env, 1), with what sigsetjmp(tctest_env, 1) has saved.
MaskRestored(mask) == env

JumpBack(mask) ==
  /\ blocked' = MaskRestored(mask)
  /\ failures' = failures + 1
  /\ tpc' = "main" /\ test' = test + 1
  /\ UNCHANGED <<at, executed, env>>

-----------------------------------------------------------------------------
\* ASSERT and FAIL, and a statement that is neither.  ASSERT sets the line
\* before its condition is evaluated (0: there is no ASSERT).

Blame(line) == assertline' = IF line = 0 THEN assertline ELSE line

AssertThat(line, holds) ==
  /\ tpc = "body" /\ Blame(line) /\ UNCHANGED reported
  /\ IF holds THEN at' = at + 1 /\ UNCHANGED <<tpc, test, counters, blocked, env>>
     ELSE JumpBack(blocked)
FailNow(line) ==
  /\ tpc = "body" /\ Blame(line) /\ UNCHANGED reported
  /\ JumpBack(blocked)
GoOn ==
  /\ tpc = "body" /\ at' = at + 1
  /\ UNCHANGED <<tpc, test, counters, assertline, blocked, env, reported>>

\* tctest_signal_handler, which blocks its signal.  One that is blocked already
\* or has no handler ends the process.
Killed == tpc' = "killed" /\ UNCHANGED <<test, at, counters, blocked, env, reported>>
Raise(sig, line) ==
  /\ tpc \in {"setup", "body", "cleanup"}
  /\ Blame(line)
  /\ IF sig \in blocked \/ sig \notin Caught THEN Killed
     ELSE reported' = assertline' /\ JumpBack(blocked \cup {sig})

\* TEST_FINI
Fini ==
  /\ tpc = "main" /\ tpc' = "done"
  /\ UNCHANGED <<test, at, counters, assertline, blocked, env, reported>>
=============================================================================
