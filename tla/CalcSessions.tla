---------------------------- MODULE CalcSessions ----------------------------
(***************************************************************************)
(* What the sequential calculator promises: one session at a time; the      *)
(* lines of a session are answered in their order, each by one evaluation,  *)
(* and nothing else is written; the variables outlive the session.  A line  *)
(* is what comes before a newline, if it fits the buffer.  Only a program   *)
(* with a shutdown command has more than one session.                       *)
(***************************************************************************)
EXTENDS Calc

CONSTANTS
  Clients, None,
  Nl, Cr,       \* newline and carriage return, which belong to no token
  LineSize,     \* a longer line counts as several
  Scripts,      \* what a client may send
  Error         \* "Error"

VARIABLES
  commands,     \* the words that are commands: "quit" and perhaps "shutdown"
  vars,
  todo,         \* bytes sent by a client and not yet dealt with
  ended,        \* of each client: "away", "open", "eof" or "reset"
  last,         \* the client served has sent its last bytes, and that was noticed
  said,         \* what was promised to each client as its replies
  serving,      \* the client whose session it is
  had,          \* the clients whose session has ended
  stopping, down

svars == <<commands, vars, todo, ended, last, said, serving, had, stopping, down>>

Stops(bytes) == {k \in 1 .. Len(bytes) : bytes[k] = Nl \/ k = LineSize - 1}
FirstLine(bytes) ==
  IF Stops(bytes) = {} THEN bytes
  ELSE SubSeq(bytes, 1, CHOOSE k \in Stops(bytes) : \A j \in Stops(bytes) : k <= j)
After(bytes, l) == SubSeq(bytes, Len(l) + 1, Len(bytes))

Expr(l) == SelectSeq(l, LAMBDA b : b \notin {Nl, Cr})
Is(name, l) == name \in commands /\ l \in {<<Word(name), Nl>>, <<Word(name), Cr, Nl>>}
Reply(outcome) == <<IF outcome.st = "ok" THEN Num(outcome.val) ELSE Error, Nl>>

Init ==
  /\ commands \in {{"quit"}, {"quit", "shutdown"}}
  /\ vars = EmptyStore
  /\ todo = [c \in Clients |-> <<>>] /\ said = [c \in Clients |-> <<>>]
  /\ ended = [c \in Clients |-> "away"]
  /\ last = FALSE /\ serving = None /\ had = {} /\ stopping = FALSE /\ down = FALSE

Arrive(c) ==
  /\ ended[c] = "away" /\ ended' = [ended EXCEPT ![c] = "open"]
  /\ \E bytes \in Scripts : todo' = [todo EXCEPT ![c] = bytes]
  /\ UNCHANGED <<vars, last, said, serving, had, stopping, down>>
Leave(c) ==
  /\ ended[c] = "open" /\ ended' = [ended EXCEPT ![c] = "eof"]
  /\ UNCHANGED <<vars, todo, last, said, serving, had, stopping, down>>
\* What a client sent and was not dealt with may be lost with the connection.
Break(c) ==
  /\ ended[c] \in {"open", "eof"} /\ ended' = [ended EXCEPT ![c] = "reset"]
  /\ \E k \in 0 .. Len(todo[c]) : todo' = [todo EXCEPT ![c] = SubSeq(@, 1, k)]
  /\ UNCHANGED <<vars, last, said, serving, had, stopping, down>>

Begin(c) ==
  /\ serving = None /\ ~stopping /\ ~down /\ c \notin had /\ ended[c] # "away"
  /\ serving' = c
  /\ UNCHANGED <<vars, todo, ended, last, said, had, stopping, down>>

Notice(c) ==
  /\ serving = c /\ ~down /\ ended[c] = "eof" /\ Stops(todo[c]) = {} /\ todo[c] # <<>>
  /\ last' = TRUE
  /\ UNCHANGED <<vars, todo, ended, said, serving, had, stopping, down>>

Answer(c) ==
  LET l == FirstLine(todo[c])
      r == EvalExpr(vars, Expr(l))
  IN  /\ serving = c /\ ~down /\ (last \/ Stops(todo[c]) # {})
      /\ ~Is("quit", l) /\ ~Is("shutdown", l) /\ r.out.st # "abort"
      /\ vars' = r.vars
      /\ said' = [said EXCEPT ![c] = @ \o Reply(r.out)]
      /\ todo' = [todo EXCEPT ![c] = After(@, l)]
      /\ last' = FALSE
      /\ UNCHANGED <<ended, serving, had, stopping, down>>

\* A reply is cut short, but only by a connection that broke.
Cut(c) ==
  /\ ended[c] = "reset"
  /\ \E k \in 0 .. Len(said[c]) : said' = [said EXCEPT ![c] = SubSeq(@, 1, k)]
  /\ UNCHANGED <<vars, todo, ended, last, serving, had, stopping, down>>

\* A session ends with a command, with the client's last line, or when the
\* connection breaks.
Over(c) ==
  \/ Is("quit", FirstLine(todo[c])) \/ Is("shutdown", FirstLine(todo[c]))
  \/ ended[c] = "eof" /\ todo[c] = <<>>
  \/ ended[c] = "reset"
End(c) ==
  /\ serving = c /\ ~down /\ Over(c)
  /\ serving' = None /\ had' = had \cup {c}
  /\ stopping' = (Is("shutdown", FirstLine(todo[c])) \/ "shutdown" \notin commands)
  /\ todo' = [todo EXCEPT ![c] = <<>>]
  /\ UNCHANGED <<vars, ended, last, said, down>>

Fail == down' = TRUE /\ last' = FALSE /\ UNCHANGED <<vars, todo, ended, said, serving, had, stopping>>

Next ==
  /\ \/ \E c \in Clients :
          \/ Arrive(c) \/ Leave(c) \/ Break(c)
          \/ Begin(c) \/ Notice(c) \/ Answer(c) \/ Cut(c) \/ End(c)
     \/ Fail
  /\ UNCHANGED commands

Spec == Init /\ [][Next]_svars
=============================================================================
