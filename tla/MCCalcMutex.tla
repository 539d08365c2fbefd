---------------------------- MODULE MCCalcMutex ----------------------------
(***************************************************************************)
(* Three threads evaluate increments, reads and every kind of line that    *)
(* takes another path through evalExpr, on a three bit int.                *)
(***************************************************************************)
EXTENDS CalcMutex

\* a = a + 1, as sent by the clients of test_server_concurrent_stress.sh
Inc == <<Word("a"), Op("="), Word("a"), Op("+"), Num(1)>>
Reset == <<Word("a"), Op("="), Num(0)>>
MCIntMin == -4
MCLines == {
  Inc,
  Reset,
  <<Word("a")>>,
  <<Word("a"), Dash, Num(-4)>>,
  <<Word("a"), Op("="), BadNum, Dash>>,            \* aborts only when a is set
  <<Word("b"), Op("="), Word("a"), Op("%"), Num(2)>> }

\* What is stored in a is counted: another line assigns another variable, or nothing
\* whatever the variables are.
OnlyCounted ==
  \A e \in Lines : IsAssignment(e) /\ e[1].name = "a" /\ e \notin {Inc, Reset} =>
    \A store \in Store : EvalOpr(store, Rest(e)).st # "ok"
ASSUME MCCalcMutexAssumption == OnlyCounted

VARIABLE count    \* history: increments stored since a was last reset

StoredBy(t) == pc[t] = "ret" /\ pc'[t] = "unlock" /\ ~whole[t]

MCInit == Init /\ count = 0
MCNext ==
  /\ Next
  /\ count' =
       IF \E t \in Threads : StoredBy(t) /\ line[t] = Inc THEN count + 1
       ELSE IF \E t \in Threads : StoredBy(t) /\ line[t] = Reset THEN 0
       ELSE count

MCSpec == MCInit /\ [][MCNext]_<<mvars, count>> /\ Fairness

\* No increment is lost: what test_server_concurrent_stress.sh compares at the
\* end holds after every step, although an increment reads a in one step and
\* writes it in another.
StrictCount == "a" \in DOMAIN vars => vars["a"] = Wrap(count)
=============================================================================
