------------------------------ MODULE SeqServer ------------------------------
(***************************************************************************)
(* The two calculator programs of csf_assign05.  calcServer.c:              *)
(* open_listenfd, then one session after the other, read and written        *)
(* through Rio and evaluated by Calc (calc.cpp is that of assignment 6      *)
(* without the mutex).  calcInteractive.c: one such session on the terminal *)
(* it was started on, where shutdown is no command.                         *)
(*                                                                         *)
(* A byte is a whole token here, or one of the two characters at the end of *)
(* a line: a line is cut between tokens only.                              *)
(***************************************************************************)
EXTENDS Rio, Calc, FiniteSets

CONSTANTS
  None, Cr, Error,
  Scripts,    \* what a client may send
  MaxAddrs    \* bound: addresses that getaddrinfo returns

ASSUME SeqServerAssumption ==
  /\ MaxAddrs \in Nat /\ None \notin Clients
  /\ Scripts \subseteq Seq(Token \cup {Nl, Cr})

VARIABLES
  program,    \* "server" or "interactive"
  pc,
  addrs,      \* addresses that open_listenfd has not tried yet
  fds,        \* descriptors of the process: "listen", "client"
  clientfd,   \* the client it is connected to
  had,        \* clients whose connection was closed
  shutdown, vars

mainvars == <<program, pc, addrs, fds, clientfd, had, shutdown, vars>>
allvars == <<riovars, mainvars>>
listening == <<riovars, program, clientfd, had, shutdown, vars>>

Interactive == program = "interactive"

Start ==
  /\ stream = [c \in Clients |-> <<>>] /\ got = [c \in Clients |-> <<>>]
  /\ peer = [c \in Clients |-> "away"]
  /\ buf = <<>> /\ line = <<>> /\ out = <<>>
  /\ addrs = 0 /\ fds = {} /\ clientfd = None /\ had = {}
  /\ shutdown = FALSE /\ vars = EmptyStore

ServerStarts == Start /\ program = "server" /\ pc = "getaddrinfo"
InteractiveStarts == Start /\ program = "interactive" /\ pc = "chat"
Init == ServerStarts \/ InteractiveStarts

-----------------------------------------------------------------------------
\* open_listenfd.  main does not look at the result: Accept ends the process.

GetAddrInfo ==
  /\ pc = "getaddrinfo"
  /\ \/ pc' = "bind" /\ addrs' \in 0 .. MaxAddrs
     \/ pc' = "accept" /\ UNCHANGED addrs
  /\ UNCHANGED <<fds, listening>>

\* Seeded fault: a socket that could not be bound stays open.
BindFailsOpen ==
  /\ pc = "bind" /\ addrs > 0
  /\ addrs' = addrs - 1 /\ fds' = fds \cup {"unbound"} /\ UNCHANGED <<pc, listening>>

\* socket fails, or bind does and the socket is closed: on to the next address,
\* unless close reports an error.
BindFails ==
  /\ pc = "bind" /\ addrs > 0
  /\ addrs' = addrs - 1 /\ pc' \in {"bind", "accept"}
  /\ UNCHANGED <<fds, listening>>
Bind ==
  /\ pc = "bind" /\ addrs > 0 /\ pc' = "listen" /\ fds' = fds \cup {"listen"}
  /\ UNCHANGED <<addrs, listening>>
NoAddress ==
  /\ pc = "bind" /\ addrs = 0 /\ pc' = "accept" /\ UNCHANGED <<addrs, fds, listening>>
ListenOn ==
  /\ pc = "listen" /\ pc' = "accept"
  /\ fds' \in {fds, fds \ {"listen"}}    \* closed when listen fails
  /\ UNCHANGED <<addrs, listening>>

-----------------------------------------------------------------------------
\* main

EndProcess ==
  /\ pc' = "down" /\ fds' = {}
  /\ UNCHANGED <<riovars, program, addrs, clientfd, had, shutdown, vars>>

AcceptFails == pc = "accept" /\ "listen" \in fds /\ EndProcess
AcceptInvalid == pc = "accept" /\ "listen" \notin fds /\ EndProcess

\* Seeded fault: what is left of the last session's input is read again.
AcceptKeepsBuffer(c) ==
  /\ pc = "accept" /\ "listen" \in fds /\ peer[c] # "away" /\ c \notin had
  /\ clientfd' = c /\ fds' = fds \cup {"client"} /\ pc' = "read"
  /\ line' = <<>> /\ out' = <<>>
  /\ UNCHANGED <<stream, peer, got, buf, program, addrs, had, shutdown, vars>>

Accept(c) ==
  /\ pc = "accept" /\ "listen" \in fds /\ peer[c] # "away" /\ c \notin had
  /\ clientfd' = c /\ fds' = fds \cup {"client"} /\ pc' = "read"
  /\ ReadInitB
  /\ UNCHANGED <<stream, peer, got, program, addrs, had, shutdown, vars>>

\* close, and the loop condition: calc_destroy and the end of main follow.
Close ==
  /\ pc = "close" /\ ~Interactive
  /\ clientfd' = None /\ had' = had \cup {clientfd}
  /\ pc' = IF shutdown THEN "done" ELSE "accept"
  /\ fds' = IF shutdown THEN {} ELSE fds \ {"client"}
  /\ UNCHANGED <<riovars, program, addrs, shutdown, vars>>

\* main of calcInteractive.c, with the descriptors 0 and 1 it was given.
Chat(c) ==
  /\ pc = "chat" /\ peer[c] # "away"
  /\ clientfd' = c /\ pc' = "read"
  /\ ReadInitB
  /\ UNCHANGED <<stream, peer, got, program, addrs, fds, had, shutdown, vars>>
ChatOver ==
  /\ pc = "close" /\ Interactive
  /\ clientfd' = None /\ had' = had \cup {clientfd} /\ pc' = "done"
  /\ UNCHANGED <<riovars, program, addrs, fds, shutdown, vars>>

-----------------------------------------------------------------------------
\* chat_with_client

session == <<program, addrs, fds, clientfd, had, vars>>

Fill == pc = "read" /\ ~Ends(line) /\ Refill(clientfd) /\ UNCHANGED <<pc, shutdown, session>>
Take ==
  /\ pc = "read" /\ ~Ends(line) /\ TakeByte
  /\ pc' = IF Ends(line') THEN "line" ELSE "read"
  /\ UNCHANGED <<shutdown, session>>

\* The end in the middle of a line makes a line of what there is; an error does not.
ReadEnd ==
  /\ pc = "read" /\ ReadsEnd(clientfd)
  /\ pc' = IF line = <<>> THEN "close" ELSE "line"
  /\ UNCHANGED <<riovars, shutdown, session>>
ReadError ==
  /\ pc = "read" /\ ReadsError(clientfd) /\ pc' = "close"
  /\ UNCHANGED <<riovars, shutdown, session>>

IsQuit(l) == l \in {<<Word("quit"), Nl>>, <<Word("quit"), Cr, Nl>>}
\* Seeded fault: the interactive program has the server's commands.
IsShutdownAnywhere(l) ==
  l \in {<<Word("shutdown"), Nl>>, <<Word("shutdown"), Cr, Nl>>}

IsShutdown(l) ==
  ~Interactive /\ l \in {<<Word("shutdown"), Nl>>, <<Word("shutdown"), Cr, Nl>>}

Quit ==
  /\ pc = "line" /\ IsQuit(line) /\ pc' = "close"
  /\ UNCHANGED <<riovars, shutdown, session>>
Shutdown ==
  /\ pc = "line" /\ IsShutdown(line) /\ pc' = "close" /\ shutdown' = TRUE
  /\ UNCHANGED <<riovars, session>>

Expression == pc = "line" /\ ~IsQuit(line) /\ ~IsShutdown(line)
Tokens(l) == SelectSeq(l, LAMBDA b : b \notin {Nl, Cr})
Format(outcome) == IF outcome.st = "ok" THEN <<Num(outcome.val), Nl>> ELSE <<Error, Nl>>

Evaluate ==
  LET r == EvalExpr(vars, Tokens(line))
  IN  /\ Expression /\ r.out.st # "abort"
      /\ vars' = r.vars
      /\ out' = Format(r.out) /\ line' = <<>> /\ pc' = "write"
      /\ UNCHANGED <<stream, peer, got, buf, program, addrs, fds, clientfd, had, shutdown>>
EvaluateAborts ==
  /\ Expression /\ EvalExpr(vars, Tokens(line)).out.st = "abort" /\ EndProcess

Write ==
  /\ pc = "write" /\ WriteSome(clientfd)
  /\ pc' = IF out' = <<>> THEN "read" ELSE "write"
  /\ UNCHANGED <<shutdown, session>>

\* Seeded fault: an error of rio_writen makes it start over.
WriteFailsForEver ==
  /\ pc = "write" /\ peer[clientfd] = "reset"
  /\ UNCHANGED allvars

\* rio_writen's result is not looked at; or SIGPIPE ends the process.
WriteFails ==
  /\ pc = "write" /\ peer[clientfd] = "reset"
  /\ pc' = "read" /\ out' = <<>>
  /\ UNCHANGED <<stream, peer, got, buf, line, shutdown, session>>
WriteKills == pc = "write" /\ peer[clientfd] = "reset" /\ EndProcess

-----------------------------------------------------------------------------

\* The loop of calcInteractive.c; the server's has Shutdown as well.
Chatting ==
  \/ Fill \/ Take \/ ReadEnd \/ ReadError
  \/ Quit \/ Evaluate \/ EvaluateAborts
  \/ Write \/ WriteFails

Progress ==
  \/ GetAddrInfo \/ BindFails \/ Bind \/ NoAddress \/ ListenOn
  \/ AcceptInvalid \/ (\E c \in Clients : Accept(c) \/ Chat(c)) \/ Close \/ ChatOver
  \/ Chatting \/ Shutdown

\* There is one terminal.
Client(c) ==
  /\ \/ /\ Interactive => \A d \in Clients : peer[d] = "away"
        /\ \E bytes \in Scripts : Connect(c, bytes)
     \/ HangUp(c) \/ Reset(c)
  /\ UNCHANGED mainvars

Next == Progress \/ AcceptFails \/ WriteKills \/ \E c \in Clients : Client(c)

Spec == Init /\ [][Next]_allvars
FairSpec == Spec /\ WF_allvars(Progress)

-----------------------------------------------------------------------------

\* No descriptor is left open: whichever addresses fail and however sessions end,
\* the server has the socket it listens on and the connection it serves, and the
\* interactive program what it was started with.
Descriptors ==
  /\ pc \in {"getaddrinfo", "bind", "done", "down"} \/ Interactive => fds = {}
  /\ pc = "accept" => fds \subseteq {"listen"}
  /\ pc \in {"read", "line", "write", "close"} /\ ~Interactive => fds = {"listen", "client"}

\* What a client has sent and the server has not dealt with.
Remaining(c) ==
  IF c \in had THEN <<>>
  ELSE IF c = clientfd THEN line \o buf \o stream[c] ELSE stream[c]

Sessions == INSTANCE CalcSessions WITH
  commands <- IF Interactive THEN {"quit"} ELSE {"quit", "shutdown"},
  todo <- [c \in Clients |-> Remaining(c)],
  ended <- peer,
  last <- (pc = "line" /\ ~Ends(line)),
  said <- [c \in Clients |-> IF c = clientfd THEN got[c] \o out ELSE got[c]],
  serving <- clientfd,
  stopping <- clientfd = None /\ (shutdown \/ (Interactive /\ had # {})),
  down <- (pc = "down")

\* Each client gets the answers to its own lines, in order and whole unless its
\* connection breaks, however read and write cut the bytes; a line or a part of a
\* line is never taken twice, and nothing is left over from another session.
RefinesSessions == Sessions!Spec

\* Nobody waits for ever, if nobody holds on to a session for ever.
EveryoneServed ==
  (\A c \in Clients : []<>(peer[c] # "open")) =>
    \A c \in Clients : peer[c] = "open" ~> (c \in had \/ pc \in {"done", "down"})
=============================================================================
