----------------------------- MODULE CalcService -----------------------------
(***************************************************************************)
(* What the concurrent calculator server promises its clients: each line a *)
(* client sends is taken in order, at most once, and answered as one        *)
(* indivisible evaluation against the variables all clients share; nothing  *)
(* is answered after the client's quit or shutdown; and the service only    *)
(* winds up after a client asked for it.  CalcServer is shown to implement  *)
(* it.  The service may fail at any time (Fail), but not answer wrongly.    *)
(***************************************************************************)
EXTENDS CalcRequests

VARIABLES
  vars,       \* the variables all clients share
  inbox,      \* lines sent by a client and not yet answered
  on,         \* the client's session has not ended
  res,        \* the outcome of a client's latest line, until it is written
  stopping,   \* a client has asked for shutdown
  over,       \* the calculator is gone: answers are worth nothing
  down        \* the server process has ended

svars == <<vars, inbox, on, res, stopping, over, down>>

Init ==
  /\ vars = EmptyStore
  /\ inbox = [c \in Clients |-> <<>>]
  /\ on = [c \in Clients |-> TRUE]
  /\ res = [c \in Clients |-> No]
  /\ stopping = FALSE
  /\ over = FALSE
  /\ down = FALSE

Send(c, r) ==
  /\ on[c]
  /\ inbox' = [inbox EXCEPT ![c] = Append(@, r)]
  /\ UNCHANGED <<vars, on, res, stopping, over, down>>

Pending(c) == inbox[c] # <<>> /\ on[c] /\ ~down

Answer(c) ==
  /\ Pending(c)
  /\ ~over
  /\ Head(inbox[c]).cmd = "eval"
  /\ LET r == EvalExpr(vars, Head(inbox[c]).expr)
     IN  /\ r.out.st # "abort"
         /\ vars' = r.vars
         /\ res' = [res EXCEPT ![c] = r.out]
  /\ inbox' = [inbox EXCEPT ![c] = Tail(@)]
  /\ UNCHANGED <<on, stopping, over, down>>

\* The calculator has been destroyed: whatever comes back is no promise.
AnswerAfterEnd(c) ==
  /\ Pending(c)
  /\ over
  /\ \E o \in Outcome : res' = [res EXCEPT ![c] = o]
  /\ inbox' = [inbox EXCEPT ![c] = Tail(@)]
  /\ UNCHANGED <<vars, on, stopping, over, down>>

Written(c) ==
  /\ ~down
  /\ res' = [res EXCEPT ![c] = No]
  /\ UNCHANGED <<vars, inbox, on, stopping, over, down>>

\* The end of a session: quit, or the client is gone, or its connection broke.
End(c) ==
  /\ ~down
  /\ on' = [on EXCEPT ![c] = FALSE]
  /\ inbox' = [inbox EXCEPT ![c] = <<>>]
  /\ UNCHANGED <<vars, res, stopping, over, down>>

Stop(c) ==
  /\ Pending(c)
  /\ Head(inbox[c]).cmd = "shutdown"
  /\ stopping' = TRUE
  /\ on' = [on EXCEPT ![c] = FALSE]
  /\ inbox' = [inbox EXCEPT ![c] = <<>>]
  /\ UNCHANGED <<vars, res, over, down>>

WindUp ==
  /\ stopping
  /\ ~down
  /\ over' = TRUE
  /\ UNCHANGED <<vars, inbox, on, res, stopping, down>>

Fail == down' = TRUE /\ UNCHANGED <<vars, inbox, on, res, stopping, over>>

Next ==
  \/ \E c \in Clients :
       \/ \E r \in Requests : Send(c, r)
       \/ Answer(c) \/ AnswerAfterEnd(c) \/ Written(c) \/ End(c) \/ Stop(c)
  \/ WindUp
  \/ Fail

Spec == Init /\ [][Next]_svars
=============================================================================
