------------------------------ MODULE CalcMutex ------------------------------
(***************************************************************************)
(* Calc::evalExpr of csf_assign06/calc.cpp, run by several threads at once: *)
(* the mutex, and between lock and unlock each place where the shared map   *)
(* is read or written as a step of its own.                                *)
(***************************************************************************)
EXTENDS Calc

CONSTANTS
  Threads,    \* the threads that share the calculator
  Lines,      \* the lines they may evaluate
  MaxCalls    \* bound: evaluations per thread

Free == "free"

ASSUME MutexAssumption ==
  /\ Lines \subseteq Seq(Token)
  /\ MaxCalls \in Nat
  /\ Free \notin Threads

VARIABLES
  vars,       \* the map<string,int>
  lock,       \* the thread that holds the mutex, or Free
  alive,      \* the process has not been terminated
  pc,         \* where a thread is in evalExpr
  line,       \* its argument expr
  whole,      \* evalOpr works on expr (line 93), not on rest (line 85)
  val1,       \* evalOpr's val1
  ret,        \* what evalOpr returned, with the result it wrote
  calls       \* evaluations begun by a thread, for the bound

mvars == <<vars, lock, alive, pc, line, whole, val1, ret, calls>>

\* The program points after the lock is taken and before it is released.
Critical == {"opr", "second", "ret", "unlock"}
Points == {"idle", "lock"} \cup Critical

Init ==
  /\ vars = EmptyStore
  /\ lock = Free
  /\ alive = TRUE
  /\ pc = [t \in Threads |-> "idle"]
  /\ line = [t \in Threads |-> <<>>]
  /\ whole = [t \in Threads |-> TRUE]
  /\ val1 = [t \in Threads |-> 0]
  /\ ret = [t \in Threads |-> No]
  /\ calls = [t \in Threads |-> 0]

\* The string evalOpr is called with.
Arg(t) == IF whole[t] THEN line[t] ELSE Rest(line[t])

Call(t, e) ==
  /\ alive
  /\ pc[t] = "idle"
  /\ calls[t] < MaxCalls
  /\ pc' = [pc EXCEPT ![t] = "lock"]
  /\ line' = [line EXCEPT ![t] = e]
  /\ calls' = [calls EXCEPT ![t] = @ + 1]
  /\ UNCHANGED <<vars, lock, alive, whole, val1, ret>>

\* Seeded fault: the mutex is not taken.
LockWithoutMutex(t) ==
  /\ alive
  /\ pc[t] = "lock"
  /\ lock' = t
  /\ pc' = [pc EXCEPT ![t] = "opr"]
  /\ whole' = [whole EXCEPT ![t] = ~IsAssignment(line[t])]
  /\ UNCHANGED <<vars, alive, line, val1, ret, calls>>

Lock(t) ==
  /\ alive
  /\ pc[t] = "lock"
  /\ lock = Free
  /\ lock' = t
  /\ pc' = [pc EXCEPT ![t] = "opr"]
  /\ whole' = [whole EXCEPT ![t] = ~IsAssignment(line[t])]
  /\ UNCHANGED <<vars, alive, line, val1, ret, calls>>

\* evalOpr, or evalExpr through it, is left with outcome o.
Leave(t, o) ==
  IF o.st = "abort"
    THEN alive' = FALSE /\ UNCHANGED <<pc, ret>>
    ELSE /\ ret' = [ret EXCEPT ![t] = o]
         /\ pc' = [pc EXCEPT ![t] = "ret"]
         /\ UNCHANGED alive

\* evalOpr up to and including the first getVal.
First(t) ==
  /\ alive
  /\ pc[t] = "opr"
  /\ LET l == GetVal(vars, Arg(t)[1])
     IN  \/ /\ Len(Arg(t)) \in {0, 2}
            /\ Leave(t, No)
            /\ UNCHANGED val1
         \/ /\ Len(Arg(t)) \notin {0, 2}
            /\ ~(IsBinary(Arg(t)) /\ l.st = "ok")
            /\ Leave(t, l)
            /\ UNCHANGED val1
         \/ /\ IsBinary(Arg(t)) /\ l.st = "ok"
            /\ val1' = [val1 EXCEPT ![t] = l.val]
            /\ pc' = [pc EXCEPT ![t] = "second"]
            /\ UNCHANGED <<alive, ret>>
  /\ UNCHANGED <<vars, lock, line, whole, calls>>

\* Seeded fault: the mutex protects evalOpr but not the assignment after it.
SecondUnlocks(t) ==
  /\ alive
  /\ pc[t] = "second"
  /\ Leave(t, SecondOperand(vars, Arg(t), val1[t]))
  /\ lock' = Free
  /\ UNCHANGED <<vars, line, whole, val1, calls>>

\* The second getVal, and evalOp on the two values.
Second(t) ==
  /\ alive
  /\ pc[t] = "second"
  /\ Leave(t, SecondOperand(vars, Arg(t), val1[t]))
  /\ UNCHANGED <<vars, lock, line, whole, val1, calls>>

\* Seeded fault: vars.insert, which leaves the value of a known variable alone.
AssignInserts(t) ==
  /\ alive
  /\ pc[t] = "ret"
  /\ ~whole[t]
  /\ ret[t].st = "ok"
  /\ vars' = IF line[t][1].name \in DOMAIN vars
               THEN vars ELSE Put(vars, line[t][1].name, ret[t].val)
  /\ pc' = [pc EXCEPT ![t] = "unlock"]
  /\ UNCHANGED <<lock, alive, line, whole, val1, ret, calls>>

\* `var = rest' and rest has a value: store it.
Assign(t) ==
  /\ alive
  /\ pc[t] = "ret"
  /\ ~whole[t]
  /\ ret[t].st = "ok"
  /\ vars' = Put(vars, line[t][1].name, ret[t].val)
  /\ pc' = [pc EXCEPT ![t] = "unlock"]
  /\ UNCHANGED <<lock, alive, line, whole, val1, ret, calls>>

\* Seeded fault: evalExpr returns 0 as soon as rest has no value.
FallbackForgotten(t) ==
  /\ alive
  /\ pc[t] = "ret"
  /\ ~whole[t]
  /\ ret[t].st # "ok"
  /\ pc' = [pc EXCEPT ![t] = "unlock"]
  /\ UNCHANGED <<vars, lock, alive, line, whole, val1, ret, calls>>

\* `var = rest' and rest has none: evaluate the whole line instead.
Fallback(t) ==
  /\ alive
  /\ pc[t] = "ret"
  /\ ~whole[t]
  /\ ret[t].st # "ok"
  /\ whole' = [whole EXCEPT ![t] = TRUE]
  /\ pc' = [pc EXCEPT ![t] = "opr"]
  /\ UNCHANGED <<vars, lock, alive, line, val1, ret, calls>>

\* evalOpr has dealt with the whole line.
Finish(t) ==
  /\ alive
  /\ pc[t] = "ret"
  /\ whole[t]
  /\ pc' = [pc EXCEPT ![t] = "unlock"]
  /\ UNCHANGED <<vars, lock, alive, line, whole, val1, ret, calls>>

\* The frame of evalExpr is gone.
Forget(t) ==
  /\ line' = [line EXCEPT ![t] = <<>>]
  /\ whole' = [whole EXCEPT ![t] = TRUE]
  /\ val1' = [val1 EXCEPT ![t] = 0]
  /\ ret' = [ret EXCEPT ![t] = No]

\* Seeded fault: no unlock on the early return after an assignment.
UnlockForgotten(t) ==
  /\ alive
  /\ pc[t] = "unlock"
  /\ lock' = IF whole[t] THEN Free ELSE lock
  /\ pc' = [pc EXCEPT ![t] = "idle"]
  /\ Forget(t)
  /\ UNCHANGED <<vars, alive, calls>>

\* pthread_mutex_unlock on either return, and the return itself.
Unlock(t) ==
  /\ alive
  /\ pc[t] = "unlock"
  /\ lock' = Free
  /\ pc' = [pc EXCEPT ![t] = "idle"]
  /\ Forget(t)
  /\ UNCHANGED <<vars, alive, calls>>

Step(t) ==
  Lock(t) \/ First(t) \/ Second(t) \/ Assign(t) \/ Fallback(t) \/ Finish(t) \/ Unlock(t)

\* Nothing is left to do: the process is gone, or every thread is through.
Finished == ~alive \/ \A t \in Threads : pc[t] = "idle" /\ calls[t] = MaxCalls

Next ==
  \/ \E t \in Threads : Step(t) \/ \E e \in Lines : Call(t, e)
  \/ Finished /\ UNCHANGED mvars

\* A runnable thread is eventually scheduled.  The mutex itself need not be
\* fair: with finitely many calls a waiting thread gets it in the end.
Fairness == \A t \in Threads : WF_mvars(Step(t))

Spec == Init /\ [][Next]_mvars
FairSpec == Spec /\ Fairness

-----------------------------------------------------------------------------

\* Types of the program's state; ret and val1 stay within the C int range.
TypeOK ==
  /\ vars \in Store
  /\ lock \in Threads \cup {Free}
  /\ alive \in BOOLEAN
  /\ pc \in [Threads -> Points]
  /\ line \in [Threads -> Seq(Token)]
  /\ whole \in [Threads -> BOOLEAN]
  /\ val1 \in [Threads -> CInt]
  /\ ret \in [Threads -> Outcome]
  /\ calls \in [Threads -> 0 .. MaxCalls]

\* Between lock (line 73) and unlock (lines 87, 96) a thread is alone, and it
\* is the one the mutex names: no path leaves with the mutex held, none
\* releases it twice.
InCritical(t) == pc[t] \in Critical
MutualExclusion ==
  \A t \in Threads :
    /\ InCritical(t) <=> lock = t
    /\ \A u \in Threads : InCritical(t) /\ InCritical(u) => t = u

\* evalOpr has rest for its argument only when the line is an assignment.
RestOfAssignment ==
  \A t \in Threads : InCritical(t) /\ ~whole[t] => IsAssignment(line[t])

\* What evalOpr has found so far is what it finds in the variables as they
\* are now; and it works on the whole line of an assignment only because rest
\* has no value.
SoFarAt(t) ==
  /\ pc[t] = "second" =>
       IsBinary(Arg(t)) /\ GetVal(vars, Arg(t)[1]) = Ok(val1[t])
  /\ pc[t] = "ret" =>
       ret[t] = EvalOpr(vars, Arg(t)) /\ ret[t].st # "abort"
  /\ pc[t] \in {"opr", "second", "ret"} /\ whole[t] /\ IsAssignment(line[t]) =>
       EvalOpr(vars, Rest(line[t])).st = "no"
SoFar == \A t \in Threads : SoFarAt(t)

IInv == TypeOK /\ MutualExclusion /\ RestOfAssignment /\ SoFar

\* An evaluation takes effect when its result is stored or its outcome is
\* settled; until then the thread counts as waiting for its turn.
AbstractState(t) ==
  CASE pc[t] = "idle"   -> "idle"
    [] pc[t] = "unlock" -> "done"
    [] OTHER            -> "called"

Abstract == INSTANCE AtomicCalc WITH
  state <- [t \in Threads |-> AbstractState(t)],
  ans <- [t \in Threads |-> IF pc[t] = "unlock" THEN ret[t] ELSE No]

\* Concurrent calls of calc_eval are linearizable: each has the outcome, and
\* leaves the variables, of one evaluation alone (calc.cpp:72 `First lock the
\* mutex').
RefinesAtomic == Abstract!Spec

\* Every call of calc_eval returns, unless an evaluation ends the process: on
\* each of evalExpr's returns the mutex is free for the threads that wait.
EveryCallReturns ==
  \A t \in Threads : pc[t] # "idle" ~> (pc[t] = "idle" \/ ~alive)
=============================================================================
