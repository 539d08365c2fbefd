----------------------------- MODULE AtomicCalc -----------------------------
(***************************************************************************)
(* What a calculator shared by several threads promises: every calc_eval   *)
(* takes effect at one instant between its call and its return, as if no   *)
(* other evaluation were in progress (linearizability).  CalcMutex is shown *)
(* to implement it, and CalcServer relies on it: there an evaluation is one *)
(* step.                                                                   *)
(***************************************************************************)
EXTENDS Calc

CONSTANTS
  Threads,    \* the threads that share the calculator
  Lines       \* the lines they may evaluate

VARIABLES
  vars,       \* the calculator's variables
  alive,      \* the process has not been terminated by an evaluation
  state,      \* where a thread's call stands
  line,       \* the line of that call
  ans         \* its outcome, from the instant of evaluation to the return

avars == <<vars, alive, state, line, ans>>

Init ==
  /\ vars = EmptyStore
  /\ alive = TRUE
  /\ state = [t \in Threads |-> "idle"]
  /\ line = [t \in Threads |-> <<>>]
  /\ ans = [t \in Threads |-> No]

Call(t, e) ==
  /\ alive
  /\ state[t] = "idle"
  /\ state' = [state EXCEPT ![t] = "called"]
  /\ line' = [line EXCEPT ![t] = e]
  /\ UNCHANGED <<vars, alive, ans>>

Eval(t) ==
  /\ alive
  /\ state[t] = "called"
  /\ LET r == EvalExpr(vars, line[t])
     IN  /\ r.out.st # "abort"
         /\ vars' = r.vars
         /\ ans' = [ans EXCEPT ![t] = r.out]
  /\ state' = [state EXCEPT ![t] = "done"]
  /\ UNCHANGED <<alive, line>>

\* An uncaught exception or a trap: no caller ever sees an answer again.
Die(t) ==
  /\ alive
  /\ state[t] = "called"
  /\ EvalExpr(vars, line[t]).out.st = "abort"
  /\ alive' = FALSE
  /\ UNCHANGED <<vars, state, line, ans>>

\* ans[t] is handed to the caller.
Return(t) ==
  /\ alive
  /\ state[t] = "done"
  /\ state' = [state EXCEPT ![t] = "idle"]
  /\ line' = [line EXCEPT ![t] = <<>>]
  /\ ans' = [ans EXCEPT ![t] = No]
  /\ UNCHANGED <<vars, alive>>

Next ==
  \E t \in Threads :
    \/ \E e \in Lines : Call(t, e)
    \/ Eval(t)
    \/ Die(t)
    \/ Return(t)

Spec == Init /\ [][Next]_avars
=============================================================================
