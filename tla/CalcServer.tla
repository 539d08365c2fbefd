----------------------------- MODULE CalcServer -----------------------------
(***************************************************************************)
(* csf_assign06/calcServer.c: the main thread's accept loop, one detached  *)
(* thread per client, the unprotected globals they share, and the kernel's  *)
(* descriptor table and sockets as far as the program depends on them.      *)
(* An evaluation is one step: CalcMutex shows that it may be.               *)
(***************************************************************************)
EXTENDS CalcRequests, FiniteSets

CONSTANTS
  MaxSend,    \* bound: lines sent by each client
  MaxFd       \* MAX_FD, which is also taken as the process's descriptor limit

None == "none"
Listen == 0                 \* listenfd; lower descriptors are left out
Fds == 1 .. MaxFd - 1       \* descriptors left for connections

ASSUME ServerAssumption ==
  /\ MaxSend \in [Clients -> Nat]
  /\ MaxFd \in Nat /\ MaxFd > 1
  /\ None \notin Clients
  /\ IsFiniteSet(Clients)

VARIABLES
  \* the main thread
  pcM,        \* where it is in its loop
  pos,        \* fd in the scan of lines 91-102
  rdy,        \* rfds after select
  maxfd, table,
  \* the globals
  shutdown, cnt, sem,
  \* per connection: struct Client, and the thread that works on it
  fd, heap, pcW,
  reg,        \* the value of cnt loaded by the cnt++ or cnt-- under way
  req,        \* linebuf
  res,        \* what calc_eval returned
  \* the calculator
  vars, calc,
  \* the kernel and the clients
  owner,      \* the connection a descriptor refers to
  backlog,    \* connections not yet accepted
  peer,       \* the client's end of the connection
  inbox,      \* bytes received, as lines, and not yet read
  sends,      \* lines sent, for the bound
  ended       \* how the process ended

mainvars == <<pcM, pos, rdy, maxfd, table>>
globals == <<shutdown, cnt, sem>>
connvars == <<fd, heap>>
threadvars == <<pcW, reg, req, res>>
calcvars == <<vars, calc>>
netvars == <<owner, backlog, peer, inbox, sends>>
allvars == <<mainvars, globals, connvars, threadvars, calcvars, netvars, ended>>

Running == ended = "no"
OnlyMain == UNCHANGED <<globals, connvars, threadvars, calcvars, netvars, ended>>
EndProcess(how) ==
  /\ ended' = how
  /\ UNCHANGED <<mainvars, globals, connvars, threadvars, calcvars, netvars>>

Init ==
  /\ pcM = "test" /\ pos = 0 /\ rdy = {} /\ maxfd = Listen
  /\ table = [d \in Fds |-> None]
  /\ shutdown = FALSE /\ cnt = 0 /\ sem = MaxFd
  /\ fd = [c \in Clients |-> 0]
  /\ heap = [c \in Clients |-> "none"]
  /\ pcW = [c \in Clients |-> "none"]
  /\ reg = [c \in Clients |-> 0]
  /\ req = [c \in Clients |-> Quit]
  /\ res = [c \in Clients |-> No]
  /\ vars = EmptyStore /\ calc = "live"
  /\ owner = [d \in Fds |-> None]
  /\ backlog = <<>>
  /\ peer = [c \in Clients |-> "out"]
  /\ inbox = [c \in Clients |-> <<>>]
  /\ sends = [c \in Clients |-> 0]
  /\ ended = "no"

-----------------------------------------------------------------------------
(* The clients.  The kernel completes connections and takes data on behalf  *)
(* of a server that has not yet accepted them.                              *)

OnlyClient == UNCHANGED <<mainvars, globals, connvars, threadvars, calcvars, ended>>

Connect(c) ==
  /\ Running
  /\ calc = "live"              \* listenfd is closed just before calc_destroy
  /\ peer[c] = "out"
  /\ peer' = [peer EXCEPT ![c] = "up"]
  /\ backlog' = Append(backlog, c)
  /\ OnlyClient /\ UNCHANGED <<owner, inbox, sends>>

Send(c, r) ==
  /\ Running
  /\ peer[c] = "up"
  /\ sends[c] < MaxSend[c]
  /\ inbox' = [inbox EXCEPT ![c] = Append(@, r)]
  /\ sends' = [sends EXCEPT ![c] = @ + 1]
  /\ OnlyClient /\ UNCHANGED <<owner, backlog, peer>>

\* The client closes its end.  When replies are lost by that, or the next one
\* arrives, its kernel resets the connection.
HangUp(c) ==
  /\ Running
  /\ peer[c] = "up"
  /\ \E p \in {"gone", "reset"} : peer' = [peer EXCEPT ![c] = p]
  /\ OnlyClient /\ UNCHANGED <<owner, backlog, inbox, sends>>

-----------------------------------------------------------------------------
(* The main thread.                                                          *)

MainAt(p) == Running /\ pcM = p

\* Seeded fault: the loop runs while clients are counted.
TestShutdownForgotten ==
  /\ MainAt("test")
  /\ pcM' = "testcnt"
  /\ OnlyMain /\ UNCHANGED <<pos, rdy, maxfd, table>>

\* `while (!shutdown_volatile || cnt > 0)' reads one global after the other.
TestShutdown ==
  /\ MainAt("test")
  /\ pcM' = IF shutdown THEN "testcnt" ELSE "select"
  /\ OnlyMain /\ UNCHANGED <<pos, rdy, maxfd, table>>

TestCnt ==
  /\ MainAt("testcnt")
  /\ pcM' = IF cnt > 0 THEN "select" ELSE "destroy"
  /\ OnlyMain /\ UNCHANGED <<pos, rdy, maxfd, table>>

\* End of input and errors make a socket readable too.
Readable(c) == inbox[c] # <<>> \/ peer[c] # "up"
Watched == {d \in Fds : d <= maxfd /\ table[d] # None}

\* select.  A connection nothing was written to is always writable, so wfds
\* never keeps a readable descriptor from being served.  With nothing readable,
\* the pass over the table does nothing and the loop starts again, whether
\* select timed out or found descriptors that are only writable.
Select ==
  /\ MainAt("select")
  /\ rdy' = {d \in Watched : Readable(table[d])}
              \cup (IF backlog # <<>> THEN {Listen} ELSE {})
  /\ pcM' = IF rdy' = {} THEN "test" ELSE "accept"
  /\ OnlyMain /\ UNCHANGED <<pos, maxfd, table>>

\* A negative result of select ends the process (line 68).
SelectFails ==
  /\ MainAt("select")
  /\ EndProcess("failed")

\* Line 75: whether a connection will be accepted.
DecideAccept ==
  /\ MainAt("accept")
  /\ pcM' = IF Listen \in rdy /\ ~shutdown THEN "accepting" ELSE "scan"
  /\ pos' = 0
  /\ OnlyMain /\ UNCHANGED <<rdy, maxfd, table>>

FreeFds == {d \in Fds : owner[d] = None}

\* Seeded fault: maxfd is not updated.
AcceptForgetsMaxfd ==
  /\ MainAt("accepting")
  /\ FreeFds # {}
  /\ LET c == Head(backlog)
         d == CHOOSE x \in FreeFds : \A y \in FreeFds : x <= y
     IN  /\ owner' = [owner EXCEPT ![d] = c]
         /\ fd' = [fd EXCEPT ![c] = d]
         /\ heap' = [heap EXCEPT ![c] = "live"]
         /\ table' = [table EXCEPT ![d] = c]
  /\ backlog' = Tail(backlog)
  /\ pcM' = "scan"
  /\ UNCHANGED <<pos, rdy, maxfd, globals, threadvars, calcvars, peer, inbox, sends, ended>>

\* Accept takes the lowest free descriptor; make_nonblocking changes the
\* listening socket only.
AcceptClient ==
  /\ MainAt("accepting")
  /\ FreeFds # {}
  /\ LET c == Head(backlog)
         d == CHOOSE x \in FreeFds : \A y \in FreeFds : x <= y
     IN  /\ owner' = [owner EXCEPT ![d] = c]
         /\ fd' = [fd EXCEPT ![c] = d]
         /\ heap' = [heap EXCEPT ![c] = "live"]
         /\ table' = [table EXCEPT ![d] = c]
         /\ maxfd' = IF d > maxfd THEN d ELSE maxfd
  /\ backlog' = Tail(backlog)
  /\ pcM' = "scan"
  /\ UNCHANGED <<pos, rdy, globals, threadvars, calcvars, peer, inbox, sends, ended>>

\* No descriptor is left: the csapp wrapper Accept exits the process.
AcceptFails ==
  /\ MainAt("accepting")
  /\ FreeFds = {}
  /\ EndProcess("failed")

\* What the scan has still to do: table changes by the main thread alone.
Servable == {d \in Watched : d \in rdy /\ d >= pos}
NextFd == CHOOSE x \in Servable : \A y \in Servable : x <= y

\* pthread_create succeeds: the thread runs from here on.
Spawn ==
  /\ MainAt("scan")
  /\ Servable # {}
  /\ pcW' = [pcW EXCEPT ![table[NextFd]] = "start"]
  /\ pos' = NextFd
  /\ pcM' = "clear"
  /\ UNCHANGED <<rdy, maxfd, table, globals, connvars, reg, req, res, calcvars, netvars, ended>>

SpawnFails ==
  /\ MainAt("scan")
  /\ Servable # {}
  /\ EndProcess("failed")

\* Seeded fault: client_conn keeps the connection.
ClearForgotten ==
  /\ MainAt("clear")
  /\ pos' = pos + 1
  /\ pcM' = "scan"
  /\ OnlyMain /\ UNCHANGED <<rdy, maxfd, table>>

\* client_conn[fd] = NULL, after the thread has been let loose.
Clear ==
  /\ MainAt("clear")
  /\ table' = [table EXCEPT ![pos] = None]
  /\ pos' = pos + 1
  /\ pcM' = "scan"
  /\ OnlyMain /\ UNCHANGED <<rdy, maxfd>>

ScanDone ==
  /\ MainAt("scan")
  /\ Servable = {}
  /\ pos' = 0 /\ rdy' = {}
  /\ pcM' = "test"
  /\ OnlyMain /\ UNCHANGED <<maxfd, table>>

\* close(listenfd) and calc_destroy(calc)
Destroy ==
  /\ MainAt("destroy")
  /\ calc' = "destroyed"
  /\ pcM' = "return"
  /\ UNCHANGED <<pos, rdy, maxfd, table, globals, connvars, threadvars, vars, netvars, ended>>

\* Returning from main ends every thread.
Exit ==
  /\ MainAt("return")
  /\ EndProcess("normal")

Main ==
  \/ TestShutdown \/ TestCnt \/ Select \/ SelectFails
  \/ DecideAccept \/ AcceptClient \/ AcceptFails
  \/ Spawn \/ SpawnFails \/ Clear \/ ScanDone
  \/ Destroy \/ Exit
-----------------------------------------------------------------------------
(* A client's thread: worker, and chat_with_client within it.               *)

WorkerAt(c, p) == Running /\ pcW[c] = p
OnlyThread == UNCHANGED <<mainvars, connvars, calcvars, netvars, ended>>
GoTo(c, p) == pcW' = [pcW EXCEPT ![c] = p]
\* The connection that a thread's descriptor refers to, if any.
Socket(c) == owner[fd[c]]

\* Seeded fault: V without P.
StartWithoutP(c) ==
  /\ WorkerAt(c, "start")
  /\ GoTo(c, "inc")
  /\ OnlyThread /\ UNCHANGED <<globals, reg, req, res>>

\* P(&semaphore)
Start(c) ==
  /\ WorkerAt(c, "start")
  /\ sem > 0
  /\ sem' = sem - 1
  /\ GoTo(c, "inc")
  /\ OnlyThread /\ UNCHANGED <<shutdown, cnt, reg, req, res>>

\* cnt++ and cnt-- load a volatile int and store it again.
LoadCnt(c) ==
  /\ \E p \in {"inc", "dec"} :
       /\ WorkerAt(c, p)
       /\ GoTo(c, IF p = "inc" THEN "inc2" ELSE "dec2")
  /\ reg' = [reg EXCEPT ![c] = cnt]
  /\ OnlyThread /\ UNCHANGED <<globals, req, res>>

StoreCnt(c) ==
  /\ \/ WorkerAt(c, "inc2") /\ cnt' = reg[c] + 1 /\ GoTo(c, "read")
     \/ WorkerAt(c, "dec2") /\ cnt' = reg[c] - 1 /\ GoTo(c, "post")
  /\ reg' = [reg EXCEPT ![c] = 0]
  /\ OnlyThread /\ UNCHANGED <<shutdown, sem, req, res>>

\* Seeded fault: quit is taken for an expression.
QuitIgnored(c) ==
  LET d == Socket(c)
      r == Head(inbox[d])
  IN  /\ WorkerAt(c, "read")
      /\ d # None
      /\ inbox[d] # <<>>
      /\ inbox' = [inbox EXCEPT ![d] = Tail(@)]
      /\ req' = [req EXCEPT ![c] = r]
      /\ GoTo(c, CASE r.cmd = "quit"     -> "eval"
                   [] r.cmd = "shutdown" -> "flag"
                   [] r.cmd = "eval"     -> "eval")
      /\ UNCHANGED <<mainvars, globals, connvars, reg, res, calcvars,
                     owner, backlog, peer, sends, ended>>

\* rio_readlineb returns a line, which is told apart from the two commands.
ReadLine(c) ==
  LET d == Socket(c)
      r == Head(inbox[d])
  IN  /\ WorkerAt(c, "read")
      /\ d # None
      /\ inbox[d] # <<>>
      /\ inbox' = [inbox EXCEPT ![d] = Tail(@)]
      /\ req' = [req EXCEPT ![c] = r]
      /\ GoTo(c, CASE r.cmd = "quit"     -> "close"
                   [] r.cmd = "shutdown" -> "flag"
                   [] r.cmd = "eval"     -> "eval")
      /\ UNCHANGED <<mainvars, globals, connvars, reg, res, calcvars,
                     owner, backlog, peer, sends, ended>>

\* Seeded fault: chat_with_client closes the descriptor, as worker does again.
ReadEndCloses(c) ==
  LET d == Socket(c)
  IN  /\ WorkerAt(c, "read")
      /\ d # None => peer[d] = "reset" \/ (peer[d] # "up" /\ inbox[d] = <<>>)
      /\ owner' = [owner EXCEPT ![fd[c]] = None]
      /\ GoTo(c, "close")
      /\ UNCHANGED <<mainvars, globals, connvars, reg, req, res, calcvars,
                     backlog, peer, inbox, sends, ended>>

\* rio_readlineb returns 0 or -1: the client has closed its end.  After a reset
\* lines that have arrived may or may not be read first.
ReadEnd(c) ==
  LET d == Socket(c)
  IN  /\ WorkerAt(c, "read")
      /\ d # None => peer[d] = "reset" \/ (peer[d] # "up" /\ inbox[d] = <<>>)
      /\ GoTo(c, "close")
      /\ OnlyThread /\ UNCHANGED <<globals, reg, req, res>>

\* calc_eval.  On a calculator that main has destroyed it is undefined: any
\* answer, or the end of the process.
Evaluate(c) ==
  /\ WorkerAt(c, "eval")
  /\ \/ /\ calc = "live"
        /\ LET r == EvalExpr(vars, req[c].expr)
           IN  /\ r.out.st # "abort"
               /\ res' = [res EXCEPT ![c] = r.out]
               /\ vars' = r.vars
     \/ /\ calc = "destroyed"
        /\ \E o \in {No} \cup {Ok(v) : v \in CInt} : res' = [res EXCEPT ![c] = o]
        /\ UNCHANGED vars
  /\ req' = [req EXCEPT ![c] = Quit]         \* linebuf is used again
  /\ GoTo(c, "reply")
  /\ UNCHANGED <<mainvars, globals, connvars, reg, calc, netvars, ended>>

EvaluateAborts(c) ==
  /\ WorkerAt(c, "eval")
  /\ calc = "destroyed" \/ EvalExpr(vars, req[c].expr).out.st = "abort"
  /\ EndProcess("killed")

\* rio_writen, whose result is ignored.  A client that is gone answers with a
\* reset.
Reply(c) ==
  /\ WorkerAt(c, "reply")
  /\ LET d == Socket(c)
     IN  IF d # None /\ peer[d] = "gone"
           THEN \E p \in {"gone", "reset"} : peer' = [peer EXCEPT ![d] = p]
           ELSE UNCHANGED peer
  /\ res' = [res EXCEPT ![c] = No]
  /\ GoTo(c, "read")
  /\ UNCHANGED <<mainvars, globals, connvars, reg, req, calcvars,
                 owner, backlog, inbox, sends, ended>>

\* Writing to a connection that has been reset raises SIGPIPE, which nothing
\* handles.
ReplyKills(c) ==
  /\ WorkerAt(c, "reply")
  /\ Socket(c) # None /\ peer[Socket(c)] = "reset"
  /\ EndProcess("killed")

\* shutdown_volatile = 1
Flag(c) ==
  /\ WorkerAt(c, "flag")
  /\ shutdown' = TRUE
  /\ req' = [req EXCEPT ![c] = Quit]
  /\ GoTo(c, "close")
  /\ OnlyThread /\ UNCHANGED <<cnt, sem, reg, res>>

\* close(info->clientfd): the descriptor may be given to the next client.
Close(c) ==
  /\ WorkerAt(c, "close")
  /\ owner' = [owner EXCEPT ![fd[c]] = None]
  /\ peer' = [peer EXCEPT ![Socket(c)] = "gone"]
  /\ inbox' = [inbox EXCEPT ![Socket(c)] = <<>>]
  /\ GoTo(c, "free")
  /\ UNCHANGED <<mainvars, globals, connvars, reg, req, res, calcvars,
                 backlog, sends, ended>>

FreeInfo(c) ==
  /\ WorkerAt(c, "free")
  /\ heap' = [heap EXCEPT ![c] = "freed"]
  /\ fd' = [fd EXCEPT ![c] = 0]
  /\ GoTo(c, "dec")
  /\ UNCHANGED <<mainvars, globals, reg, req, res, calcvars, netvars, ended>>

\* Seeded fault: P without V.
PostForgotten(c) ==
  /\ WorkerAt(c, "post")
  /\ GoTo(c, "done")
  /\ OnlyThread /\ UNCHANGED <<globals, reg, req, res>>

\* V(&semaphore), and the thread ends.
Post(c) ==
  /\ WorkerAt(c, "post")
  /\ sem' = sem + 1
  /\ GoTo(c, "done")
  /\ OnlyThread /\ UNCHANGED <<shutdown, cnt, reg, req, res>>

Worker(c) ==
  \/ Start(c) \/ LoadCnt(c) \/ StoreCnt(c)
  \/ ReadLine(c) \/ ReadEnd(c)
  \/ Evaluate(c) \/ EvaluateAborts(c) \/ Reply(c) \/ ReplyKills(c)
  \/ Flag(c) \/ Close(c) \/ FreeInfo(c) \/ Post(c)

-----------------------------------------------------------------------------

Client(c) == Connect(c) \/ HangUp(c) \/ \E r \in Requests : Send(c, r)

Next ==
  \/ Main
  \/ \E c \in Clients : Worker(c) \/ Client(c)
  \/ ~Running /\ UNCHANGED allvars

\* Threads that can run are scheduled; nothing is assumed of the clients.
Fairness == WF_allvars(Main) /\ \A c \in Clients : WF_allvars(Worker(c))

Spec == Init /\ [][Next]_allvars
FairSpec == Spec /\ Fairness

-----------------------------------------------------------------------------

\* Types of the program's state.  cnt may be any int: it is not reliable.
TypeOK ==
  /\ pcM \in {"test", "testcnt", "select", "accept", "accepting", "scan", "clear",
              "destroy", "return"}
  /\ pos \in 0 .. MaxFd
  /\ rdy \subseteq Fds \cup {Listen}
  /\ maxfd \in Fds \cup {Listen}
  /\ table \in [Fds -> Clients \cup {None}]
  /\ shutdown \in BOOLEAN /\ cnt \in Int /\ sem \in 0 .. MaxFd
  /\ fd \in [Clients -> Fds \cup {0}]
  /\ heap \in [Clients -> {"none", "live", "freed"}]
  /\ pcW \in [Clients -> {"none", "start", "inc", "inc2", "read", "eval", "reply",
                          "flag", "close", "free", "dec", "dec2", "post", "done"}]
  /\ reg \in [Clients -> Int]
  /\ req \in [Clients -> Request]
  /\ res \in [Clients -> Outcome]
  /\ vars \in Store /\ calc \in {"live", "destroyed"}
  /\ owner \in [Fds -> Clients \cup {None}]
  /\ backlog \in Seq(Clients)
  /\ peer \in [Clients -> {"out", "up", "gone", "reset"}]
  /\ inbox \in [Clients -> Seq(Request)]
  /\ sends \in [Clients -> Nat]
  /\ ended \in {"no", "normal", "failed", "killed"}

\* From spawn to close a thread's descriptor is its own connection's, although
\* descriptors are reused at once (lines 76, 179); struct Client is not used
\* after free; and client_conn holds exactly the connections without a thread,
\* except between pthread_create and the next line (96-99), where the thread
\* may be through with the connection already.
UsesSocket(c) ==
  pcW[c] \in {"start", "inc", "inc2", "read", "eval", "reply", "flag", "close"}
Ownership ==
  /\ \A c \in Clients : UsesSocket(c) => owner[fd[c]] = c
  /\ \A c \in Clients : UsesSocket(c) \/ pcW[c] = "free" => heap[c] = "live"
  /\ \A d \in Fds : table[d] # None =>
       \/ pcW[table[d]] = "none" /\ owner[d] = table[d] /\ heap[table[d]] = "live"
       \/ pcM = "clear" /\ pos = d

\* The semaphore counts the threads between P and V, and nothing else.
Holding(c) == pcW[c] \notin {"none", "start", "done"}
SlotAccounting == sem + Cardinality({c \in Clients : Holding(c)}) = MaxFd

\* No connection is given to two threads, and none to a second one later.
SpawnedOnce ==
  [][\A c \in Clients : pcW'[c] = "start" => pcW[c] \in {"none", "start"}]_allvars

\* A line counts as waiting until it has been evaluated or acted upon, and a
\* session as over once its thread makes for close.
Taken(c) == IF pcW[c] \in {"eval", "flag"} THEN <<req[c]>> ELSE <<>>
SessionOn(c) == pcW[c] \notin {"close", "free", "dec", "dec2", "post", "done"}

Service == INSTANCE CalcService WITH
  inbox <- [c \in Clients |-> IF SessionOn(c) THEN Taken(c) \o inbox[c] ELSE <<>>],
  on <- [c \in Clients |-> SessionOn(c)],
  stopping <- shutdown,
  over <- calc = "destroyed",
  down <- ~Running

\* Sessions of chat_with_client that run side by side answer as CalcService
\* says (test_server_concurrent1.sh, test_server_concurrent_stress.sh).
RefinesService == Service!Spec

\* Whatever the other clients do, connected and idle or half way through their
\* own lines, a client has all it sent evaluated and replied to
\* (test_server_concurrent1.sh), also the lines it sends later: from whenever
\* lines of a session wait, the thread gets back to reading with none left,
\* unless the client leaves, somebody asks for a shutdown, or the process ends.
\* It is about clients that do not quit: what is behind a quit is not answered.
Answered(c) == inbox[c] = <<>> /\ pcW[c] = "read"
Left(c) == peer[c] # "up" /\ SessionOn(c)
EveryLineAnswered ==
  \A c \in Clients :
    inbox[c] # <<>> /\ SessionOn(c) ~> Answered(c) \/ Left(c) \/ shutdown \/ ~Running

\* What the code does not keep: `shared data was made safe by using the mutex'
\* (README:1-2), but main destroys the calculator and its mutex while a thread
\* that is spawned and not yet counted has an evaluation to come.
NoUseAfterDestroy == calc = "destroyed" => \A c \in Clients : pcW[c] # "eval"

\* What the code does not keep: shutdown_volatile is there `to signal a
\* shutdown' (calcServer.c:16), but a lost decrement of cnt keeps main in its
\* loop after the last thread has gone.
AllThreadsGone == \A c \in Clients : pcW[c] \in {"none", "done"}
ShutdownEnds == shutdown /\ AllThreadsGone ~> ~Running \/ ~AllThreadsGone
=============================================================================
