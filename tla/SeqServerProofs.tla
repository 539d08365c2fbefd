--------------------------- MODULE SeqServerProofs ---------------------------
(***************************************************************************)
(* The programs of assignment 5 leave no descriptor open, whatever the      *)
(* clients send, however many addresses there are, and whatever fails; and  *)
(* they hold the sessions that CalcSessions describes.  Their unit tests    *)
(* are counted right, and a crash is blamed on the test that crashed.       *)
(***************************************************************************)
EXTENDS SeqServer, UnitTests, SequenceTheorems, FiniteSetTheorems, TLAPS

\* The descriptors of each place in the code, those between the steps of
\* open_listenfd included.
Open ==
  /\ pc \in {"getaddrinfo", "bind", "chat", "done", "down"} \/ Interactive => fds = {}
  /\ pc = "listen" => fds = {"listen"}
  /\ pc = "accept" => fds \subseteq {"listen"}
  /\ pc \in {"read", "line", "write", "close"} /\ ~Interactive => fds = {"listen", "client"}
\* Only the server goes where there are sockets.
Places ==
  /\ pc \in {"getaddrinfo", "bind", "listen", "accept"} => ~Interactive
  /\ pc = "chat" => Interactive

IOpen == Open /\ Places

\* No descriptor is open at first.
LEMMA InitOpen == Init => IOpen
BY DEF Init, ServerStarts, InteractiveStarts, Start, Interactive, IOpen, Open, Places

\* open_listenfd: a socket that is not used is closed (csapp.c:1031, 1045).
LEMMA ListeningKeepsOpen ==
  ASSUME IOpen, GetAddrInfo \/ BindFails \/ Bind \/ NoAddress \/ ListenOn
  PROVE  IOpen'
<1> USE DEF IOpen, Open, Places, Interactive, listening
<1>1. CASE GetAddrInfo
  BY <1>1 DEF GetAddrInfo
<1>2. CASE BindFails
  BY <1>2 DEF BindFails
<1>3. CASE Bind
  BY <1>3 DEF Bind
<1>4. CASE NoAddress
  BY <1>4 DEF NoAddress
<1>5. CASE ListenOn
  BY <1>5 DEF ListenOn
<1> QED BY <1>1, <1>2, <1>3, <1>4, <1>5

\* The process ends, and its descriptors with it.
LEMMA EndKeepsOpen ==
  ASSUME IOpen, EndProcess
  PROVE  IOpen'
BY DEF EndProcess, IOpen, Open, Places, Interactive

\* main: a connection is closed before the next is accepted (calcServer.c:28-38).
LEMMA MainKeepsOpen ==
  ASSUME IOpen, (\E c \in Clients : Accept(c) \/ Chat(c)) \/ Close \/ ChatOver
  PROVE  IOpen'
<1> USE DEF IOpen, Open, Places, Interactive
<1>1. CASE \E c \in Clients : Accept(c)
  BY <1>1 DEF Accept
<1>2. CASE Close
  BY <1>2 DEF Close
<1>3. CASE \E c \in Clients : Chat(c)
  BY <1>3 DEF Chat
<1>4. CASE ChatOver
  BY <1>4 DEF ChatOver
<1> QED BY <1>1, <1>2, <1>3, <1>4

\* A session neither opens nor closes anything, unless the process ends.
LEMMA SessionKeepsOpen ==
  ASSUME IOpen, Chatting \/ Shutdown
  PROVE  IOpen'
<1> USE DEF IOpen, Open, Places, Interactive, session
<1>1. CASE Fill
  BY <1>1 DEF Fill
<1>2. CASE Take
  BY <1>2 DEF Take
<1>3. CASE ReadEnd
  BY <1>3 DEF ReadEnd
<1>4. CASE ReadError
  BY <1>4 DEF ReadError
<1>5. CASE Quit
  BY <1>5 DEF Quit
<1>6. CASE Shutdown
  BY <1>6 DEF Shutdown
<1>7. CASE Evaluate
  BY <1>7 DEF Evaluate, Expression
<1>8. CASE EvaluateAborts
  BY <1>8, EndKeepsOpen DEF EvaluateAborts
<1>9. CASE Write
  BY <1>9 DEF Write
<1>10. CASE WriteFails
  BY <1>10 DEF WriteFails
<1> QED
  BY <1>1, <1>2, <1>3, <1>4, <1>5, <1>6, <1>7, <1>8, <1>9, <1>10 DEF Chatting

\* Every step keeps count of the open descriptors.
LEMMA StepKeepsOpen == IOpen /\ [Next]_allvars => IOpen'
<1> SUFFICES ASSUME IOpen, [Next]_allvars PROVE IOpen'
  OBVIOUS
<1>1. CASE Progress
  <2>1. CASE GetAddrInfo \/ BindFails \/ Bind \/ NoAddress \/ ListenOn
    BY <2>1, ListeningKeepsOpen
  <2>2. CASE AcceptInvalid
    BY <2>2, EndKeepsOpen DEF AcceptInvalid
  <2>3. CASE (\E c \in Clients : Accept(c) \/ Chat(c)) \/ Close \/ ChatOver
    BY <2>3, MainKeepsOpen
  <2>4. CASE Chatting \/ Shutdown
    BY <2>4, SessionKeepsOpen
  <2> QED BY <1>1, <2>1, <2>2, <2>3, <2>4 DEF Progress
<1>2. CASE AcceptFails \/ WriteKills
  BY <1>2, EndKeepsOpen DEF AcceptFails, WriteKills
<1>3. CASE \E c \in Clients : Client(c)
  BY <1>3 DEF Client, mainvars, IOpen, Open, Places, Interactive
<1>4. CASE UNCHANGED allvars
  BY <1>4 DEF allvars, mainvars, IOpen, Open, Places, Interactive
<1> QED BY <1>1, <1>2, <1>3, <1>4 DEF Next

\* IOpen has what Descriptors says.
LEMMA OpenDescriptors == IOpen => Descriptors
BY DEF IOpen, Open, Descriptors

\* No descriptor is left open by open_listenfd, by the loop of main, or by a
\* session, for any clients, lines and addresses (calcServer.c, csapp.c:1003-1049).
THEOREM NothingLeftOpen == Spec => []Descriptors
<1>1. Spec => []IOpen
  BY InitOpen, StepKeepsOpen, PTL DEF Spec
<1> QED BY <1>1, OpenDescriptors, PTL

-----------------------------------------------------------------------------
(* The refinement: the bytes of a session on their way from the socket      *)
(* through the read buffer into the line, and each step a step of           *)
(* CalcSessions, or none.                                                   *)

Byte == Token \cup {Nl, Cr}

\* Some sequence: what is written is never looked at.
IsSeq(s) == \E S : s \in Seq(S)

\* The evaluator of CalcSessions is the evaluator.
LEMMA SameTokens == \A l : Sessions!Expr(l) = Tokens(l)
BY DEF Tokens, Sessions!Expr

\* Both evaluate an expression to the same result.
LEMMA SameEval ==
  /\ Sessions!EmptyStore = EmptyStore
  /\ \A s, e : Sessions!EvalExpr(s, e) = EvalExpr(s, e)
<1>1. /\ Sessions!No = No /\ Sessions!Abort = Abort /\ Sessions!EmptyStore = EmptyStore
      /\ Sessions!Dash = Dash /\ (\A v : Sessions!Ok(v) = Ok(v))
      /\ \A s : Sessions!Op(s) = Op(s)
  BY DEF No, Abort, EmptyStore, Dash, Ok, Op,
         Sessions!No, Sessions!Abort, Sessions!EmptyStore, Sessions!Dash, Sessions!Ok, Sessions!Op
<1>2. \A s, tok : Sessions!GetVal(s, tok) = GetVal(s, tok)
  BY <1>1 DEF GetVal, IsAlphabetic, IsNumeric, Stoi,
              Sessions!GetVal, Sessions!IsAlphabetic, Sessions!IsNumeric, Sessions!Stoi
<1>3. \A x : Sessions!Wrap(x) = Wrap(x)
  BY DEF Wrap, Sessions!Wrap
<1>4. \A l, r : Sessions!Divide(l, r) = Divide(l, r)
  BY <1>1 DEF Divide, Quotient, AbsVal, Overflows,
              Sessions!Divide, Sessions!Quotient, Sessions!AbsVal, Sessions!Overflows
<1>5. \A l, op, r : Sessions!EvalOp(l, op, r) = EvalOp(l, op, r)
  BY <1>1, <1>3, <1>4 DEF EvalOp, Sessions!EvalOp
<1>6. \A s, e : Sessions!EvalOpr(s, e) = EvalOpr(s, e)
  BY <1>1, <1>2, <1>5 DEF EvalOpr, SecondOperand, IsBinary,
                          Sessions!EvalOpr, Sessions!SecondOperand, Sessions!IsBinary
<1> QED
  BY <1>1, <1>6 DEF EvalExpr, IsAssignment, IsAlphabetic, Rest, Put,
                    Sessions!EvalExpr, Sessions!IsAssignment, Sessions!IsAlphabetic,
                    Sessions!Rest, Sessions!Put

\* One sequence behind another.
LEMMA ConcatType == ASSUME NEW s, NEW t, IsSeq(s), IsSeq(t) PROVE IsSeq(s \o t)
<1>1. PICK S, T : s \in Seq(S) /\ t \in Seq(T)
  BY DEF IsSeq
<1>2. s \in Seq(S \cup T) /\ t \in Seq(S \cup T)
  BY <1>1, SeqMonotonic
<1>3. s \o t \in Seq(S \cup T)
  BY <1>2, ConcatProperties
<1> QED BY <1>3 DEF IsSeq

\* A sequence is cut anywhere.
LEMMA CutAnywhere ==
  ASSUME NEW S, NEW s \in Seq(S), NEW k \in 0 .. Len(s)
  PROVE  /\ SubSeq(s, 1, k) \in Seq(S) /\ SubSeq(s, k + 1, Len(s)) \in Seq(S)
         /\ SubSeq(s, 1, k) \o SubSeq(s, k + 1, Len(s)) = s
<1>1. Len(s) \in Nat /\ \A i \in 1 .. Len(s) : s[i] \in S
  BY LenProperties
<1>2. SubSeq(s, 1, k) \in Seq(S)
  <2>1. \A i \in 1 .. k : s[i] \in S
    BY <1>1
  <2> QED BY <2>1, SubSeqProperties
<1>3. SubSeq(s, k + 1, Len(s)) \in Seq(S)
  <2>1. \A i \in k + 1 .. Len(s) : s[i] \in S
    BY <1>1
  <2> QED BY <1>1, <2>1, SubSeqProperties
<1>4. SubSeq(s, 1, k) \o SubSeq(s, k + 1, Len(s)) = SubSeq(s, 1, Len(s))
  <2>1. 1 \in 1 .. Len(s) + 1 /\ k \in 1 - 1 .. Len(s) /\ Len(s) \in k .. Len(s)
    BY <1>1
  <2> QED BY <2>1, ConcatAdjacentSubSeq, Zenon
<1> QED BY <1>2, <1>3, <1>4, SubSeqFull

\* What comes first, and what comes after it.
LEMMA CutBetween ==
  ASSUME NEW S, NEW s \in Seq(S), NEW t \in Seq(S)
  PROVE  SubSeq(s \o t, 1, Len(s)) = s /\ SubSeq(s \o t, Len(s) + 1, Len(s \o t)) = t
<1> DEFINE w == s \o t
           n == Len(s)
<1>1. /\ Len(s) \in Nat /\ Len(t) \in Nat /\ w \in Seq(S) /\ Len(w) = n + Len(t)
      /\ \A i \in 1 .. n + Len(t) : w[i] = IF i <= n THEN s[i] ELSE t[i - n]
      /\ \A i \in 1 .. Len(w) : w[i] \in S
  BY ConcatProperties, LenProperties
<1> HIDE DEF w
<1>2. /\ SubSeq(w, 1, n) \in Seq(S) /\ Len(SubSeq(w, 1, n)) = n
      /\ \A i \in 1 .. n : SubSeq(w, 1, n)[i] = w[i]
  BY <1>1, SubSeqProperties
<1>3. SubSeq(w, 1, n) = s
  BY <1>1, <1>2, SeqEqual
<1>4. /\ SubSeq(w, n + 1, Len(w)) \in Seq(S) /\ Len(SubSeq(w, n + 1, Len(w))) = Len(t)
      /\ \A i \in 1 .. Len(t) : SubSeq(w, n + 1, Len(w))[i] = w[n + 1 + i - 1]
  BY <1>1, SubSeqProperties
<1>5. SubSeq(w, n + 1, Len(w)) = t
  BY <1>1, <1>4, SeqEqual
<1> QED BY <1>3, <1>5 DEF w

\* A line goes no further than its first newline, or than the buffer.
NoStopWithin(l) == \A k \in 1 .. Len(l) - 1 : l[k] # Nl /\ k # LineSize - 1

\* The first line of some bytes is the line that ends among them,
LEMMA WholeLine ==
  ASSUME NEW l \in Seq(Byte), NEW r \in Seq(Byte), NoStopWithin(l), Ends(l)
  PROVE  Sessions!Stops(l \o r) # {} /\ Sessions!FirstLine(l \o r) = l
<1> DEFINE w == l \o r
           n == Len(l)
           K == Sessions!Stops(w)
<1>1. /\ n \in Nat /\ Len(r) \in Nat /\ w \in Seq(Byte) /\ Len(w) = n + Len(r)
      /\ \A i \in 1 .. n + Len(r) : w[i] = IF i <= n THEN l[i] ELSE r[i - n]
  BY ConcatProperties, LenProperties
<1>2. n \in 1 .. n /\ SubSeq(w, 1, n) = l
  BY <1>1, CutBetween DEF Ends
<1> HIDE DEF w
<1>3. K = {k \in 1 .. Len(w) : w[k] = Nl \/ k = LineSize - 1}
  BY DEF Sessions!Stops
<1>4. n \in K
  BY <1>1, <1>2, <1>3 DEF Ends
<1>5. \A k \in K : k \in Nat /\ n <= k
  BY <1>1, <1>2, <1>3 DEF NoStopWithin
<1> HIDE DEF K, n
<1>6. (CHOOSE k \in K : \A j \in K : k <= j) = n
  <2>1. \A j \in K : n <= j
    BY <1>5
  <2>2. \A k \in K : (\A j \in K : k <= j) => k = n
    BY <1>4, <1>5
  <2> QED BY <1>4, <2>1, <2>2
<1>7. Sessions!FirstLine(w) = SubSeq(w, 1, n)
  BY <1>4, <1>6 DEF Sessions!FirstLine, K
<1> QED BY <1>2, <1>4, <1>7 DEF w, K

\* or all of them when none does.
LEMMA PartLine ==
  ASSUME NEW l \in Seq(Byte), NoStopWithin(l), ~Ends(l)
  PROVE  Sessions!Stops(l) = {} /\ Sessions!FirstLine(l) = l
<1>1. Len(l) \in Nat /\ (l = <<>> => Len(l) = 0)
  BY LenProperties
<1>2. ASSUME NEW k \in 1 .. Len(l) PROVE l[k] # Nl /\ k # LineSize - 1
  <2>1. CASE k \in 1 .. Len(l) - 1
    BY <2>1 DEF NoStopWithin
  <2>2. CASE k = Len(l)
    BY <1>1, <1>2, <2>2 DEF Ends
  <2> QED BY <1>1, <2>1, <2>2
<1>3. Sessions!Stops(l) = {}
  BY <1>2 DEF Sessions!Stops
<1> QED BY <1>3 DEF Sessions!FirstLine

-----------------------------------------------------------------------------
InSession == pc \in {"read", "line", "write", "close"}

Types ==
  /\ stream \in [Clients -> Seq(Byte)] /\ buf \in Seq(Byte) /\ line \in Seq(Byte)
  /\ peer \in [Clients -> {"away", "open", "eof", "reset"}]
  /\ DOMAIN got = Clients /\ (\A c \in Clients : IsSeq(got[c])) /\ IsSeq(out)
  /\ had \subseteq Clients /\ clientfd \in Clients \cup {None}

\* One session at a time, of a client that came and had none before.
OneSession ==
  /\ \A c \in Clients : c \in had \/ c = clientfd => peer[c] # "away"
  /\ \A c \in Clients : peer[c] = "reset" => stream[c] = <<>>
  /\ pc \in {"getaddrinfo", "bind", "listen", "accept", "chat"} => clientfd = None /\ ~shutdown
  /\ pc = "chat" => had = {}
  /\ InSession => clientfd \in Clients \ had
  /\ pc = "down" \/ InSession \/ clientfd = None

\* What the session has read and has to write.
Reading ==
  /\ InSession => NoStopWithin(line) /\ (pc # "write" => out = <<>>)
  /\ pc = "read" => ~Ends(line)
  /\ pc = "line" /\ ~Ends(line) => line # <<>> /\ buf = <<>> /\ stream[clientfd] = <<>>
                                     /\ peer[clientfd] # "open"
  /\ pc = "write" => line = <<>>
  /\ pc \in {"read", "line", "write"} => ~shutdown

\* Why a session is over.
Closing ==
  pc = "close" =>
    \/ IsQuit(line) /\ ~shutdown
    \/ IsShutdown(line) /\ shutdown
    \/ /\ ~Ends(line) /\ buf = <<>> /\ stream[clientfd] = <<>> /\ ~shutdown
       /\ peer[clientfd] = "reset" \/ (line = <<>> /\ peer[clientfd] \in {"eof", "reset"})

IServe == IOpen /\ Types /\ OneSession /\ Reading /\ Closing

\* The invariant holds at the start of either program.
LEMMA InitServe == Init => IServe
<1> SUFFICES ASSUME Init PROVE IServe
  OBVIOUS
<1> USE DEF Init, ServerStarts, InteractiveStarts, Start
<1>1. IOpen
  BY InitOpen
<1>2. Types
  <2>1. IsSeq(<<>>)
    BY EmptySeq DEF IsSeq
  <2> QED BY <2>1, EmptySeq DEF Types
<1>3. OneSession /\ Reading /\ Closing
  BY SeqServerAssumption DEF OneSession, Reading, Closing, InSession
<1> QED BY <1>1, <1>2, <1>3 DEF IServe

\* open_listenfd
LEMMA ListeningServes ==
  ASSUME IServe, GetAddrInfo \/ BindFails \/ Bind \/ NoAddress \/ ListenOn
  PROVE  IServe'
<1>1. /\ pc \in {"getaddrinfo", "bind", "listen"} /\ pc' \in {"bind", "accept", "listen"}
      /\ UNCHANGED <<stream, peer, got, buf, line, out, program, clientfd, had, shutdown, vars>>
  BY DEF GetAddrInfo, BindFails, Bind, NoAddress, ListenOn, listening, riovars
<1>2. IOpen'
  BY ListeningKeepsOpen DEF IServe
<1>3. Types' /\ OneSession' /\ Reading' /\ Closing'
  BY <1>1 DEF IServe, Types, OneSession, Reading, Closing, InSession
<1> QED BY <1>2, <1>3 DEF IServe

\* exit, and SIGPIPE and SIGFPE
LEMMA EndServes == ASSUME IServe, EndProcess PROVE IServe'
<1>1. /\ pc' = "down"
      /\ UNCHANGED <<stream, peer, got, buf, line, out, program, clientfd, had, shutdown, vars>>
  BY DEF EndProcess, riovars
<1>2. IOpen'
  BY EndKeepsOpen DEF IServe
<1>3. Types' /\ OneSession' /\ Reading' /\ Closing'
  BY <1>1 DEF IServe, Types, OneSession, Reading, Closing, InSession
<1> QED BY <1>2, <1>3 DEF IServe

\* A session begins with nothing read and nothing to write.
LEMMA BeginServes == ASSUME IServe, NEW c \in Clients, Accept(c) \/ Chat(c) PROVE IServe'
<1>1. /\ pc \in {"accept", "chat"} /\ pc' = "read" /\ clientfd' = c /\ c \notin had
      /\ peer[c] # "away" /\ buf' = <<>> /\ line' = <<>> /\ out' = <<>>
      /\ UNCHANGED <<stream, peer, got, program, had, shutdown, vars>>
  BY DEF Accept, Chat, ReadInitB, IServe, OneSession
<1>2. IOpen'
  BY MainKeepsOpen DEF IServe
<1>3. Types'
  <2>1. IsSeq(<<>>)
    BY EmptySeq DEF IsSeq
  <2> QED BY <1>1, <2>1, EmptySeq DEF IServe, Types
<1>4. OneSession' /\ Reading' /\ Closing'
  BY <1>1 DEF IServe, OneSession, Reading, Closing, InSession, NoStopWithin, Ends
<1> QED BY <1>2, <1>3, <1>4 DEF IServe

\* close, and the loop condition of main.
LEMMA CloseServes == ASSUME IServe, Close \/ ChatOver PROVE IServe'
<1>1. /\ pc = "close" /\ clientfd' = None /\ had' = had \cup {clientfd}
      /\ \/ pc' = "done"
         \/ pc' = "accept" /\ ~shutdown
      /\ UNCHANGED <<stream, peer, got, buf, line, out, program, shutdown, vars>>
  BY DEF Close, ChatOver, riovars
<1>2. IOpen'
  BY MainKeepsOpen DEF IServe
<1>3. Types' /\ OneSession' /\ Reading' /\ Closing'
  BY <1>1, SeqServerAssumption DEF IServe, Types, OneSession, Reading, Closing, InSession
<1> QED BY <1>2, <1>3 DEF IServe

\* rio_read fetches bytes that are there.
LEMMA FillServes == ASSUME IServe, Fill PROVE IServe'
<1> DEFINE c == clientfd
<1>1. /\ pc = "read" /\ c \in Clients
      /\ UNCHANGED <<peer, got, line, out, pc, shutdown, program, clientfd, had, vars>>
  BY DEF Fill, Refill, session, IServe, OneSession, InSession
<1>2. PICK k \in 1 .. Len(stream[c]) :
        /\ buf' = SubSeq(stream[c], 1, k)
        /\ stream' = [stream EXCEPT ![c] = SubSeq(@, k + 1, Len(@))]
  BY DEF Fill, Refill
<1>3. stream[c] \in Seq(Byte) /\ k \in 0 .. Len(stream[c]) /\ stream[c] # <<>>
  BY <1>1, <1>2 DEF IServe, Types, Fill, Refill
<1>4. buf' \in Seq(Byte) /\ SubSeq(stream[c], k + 1, Len(stream[c])) \in Seq(Byte)
  BY <1>2, <1>3, CutAnywhere
<1>5. stream' \in [Clients -> Seq(Byte)] /\ \A x \in Clients : x # c => stream'[x] = stream[x]
  BY <1>2, <1>4 DEF IServe, Types
<1>6. IOpen'
  BY SessionKeepsOpen DEF IServe, Chatting
<1>7. Types'
  BY <1>1, <1>4, <1>5 DEF IServe, Types
<1>8. OneSession' /\ Reading' /\ Closing'
  BY <1>1, <1>3, <1>5 DEF IServe, OneSession, Reading, Closing, InSession
<1> QED BY <1>6, <1>7, <1>8 DEF IServe

\* A byte joins the line, which did not end before.
LEMMA TakeServes == ASSUME IServe, Take PROVE IServe'
<1>1. /\ pc = "read" /\ ~Ends(line) /\ buf # <<>>
      /\ line' = Append(line, Head(buf)) /\ buf' = Tail(buf)
      /\ pc' = IF Ends(line') THEN "line" ELSE "read"
      /\ UNCHANGED <<stream, peer, got, out, shutdown, program, clientfd, had, vars>>
  BY DEF Take, TakeByte, session
<1>2. /\ Head(buf) \in Byte /\ buf' \in Seq(Byte)
      /\ line' \in Seq(Byte) /\ Len(line') = Len(line) + 1 /\ Len(line) \in Nat
      /\ \A i \in 1 .. Len(line) : line'[i] = line[i]
  BY <1>1, HeadTailProperties, AppendProperties, LenProperties DEF IServe, Types
<1>3. NoStopWithin(line')
  <2>1. ASSUME NEW k \in 1 .. Len(line') - 1 PROVE line'[k] # Nl /\ k # LineSize - 1
    <3>1. k \in 1 .. Len(line) /\ line'[k] = line[k]
      BY <1>2
    <3>2. CASE k = Len(line)
      BY <1>1, <3>1, <3>2, EmptySeq DEF Ends
    <3>3. CASE k \in 1 .. Len(line) - 1
      BY <1>1, <3>1, <3>3 DEF IServe, Reading, InSession, NoStopWithin
    <3> QED BY <1>2, <3>1, <3>2, <3>3
  <2> QED BY <2>1 DEF NoStopWithin
<1>4. IOpen'
  BY SessionKeepsOpen DEF IServe, Chatting
<1>5. Types'
  BY <1>1, <1>2 DEF IServe, Types
<1>6. OneSession' /\ Reading' /\ Closing'
  BY <1>1, <1>3 DEF IServe, OneSession, Reading, Closing, InSession
<1> QED BY <1>4, <1>5, <1>6 DEF IServe

\* The bytes and the clients stay as they are; the program goes elsewhere.
LEMMA TurnServes ==
  ASSUME IServe, UNCHANGED <<stream, peer, got, buf, line, out, program, fds, clientfd, had, vars>>,
         \/ pc = "read" /\ ReadsEnd(clientfd) /\ shutdown' = shutdown
              /\ pc' = IF line = <<>> THEN "close" ELSE "line"
         \/ pc = "read" /\ ReadsError(clientfd) /\ shutdown' = shutdown /\ pc' = "close"
         \/ pc = "line" /\ IsQuit(line) /\ shutdown' = shutdown /\ pc' = "close"
         \/ pc = "line" /\ IsShutdown(line) /\ shutdown' = TRUE /\ pc' = "close"
  PROVE  Types' /\ OneSession' /\ Reading' /\ Closing'
<1>1. Types' /\ OneSession'
  BY DEF IServe, Types, OneSession, InSession
<1>2. Reading'
  BY DEF IServe, Reading, InSession, ReadsEnd
<1>3. Closing'
  <2>1. CASE pc = "read" /\ ReadsEnd(clientfd) /\ line = <<>> /\ shutdown' = shutdown
    BY <2>1 DEF IServe, Reading, Closing, ReadsEnd
  <2>2. CASE pc = "read" /\ ReadsError(clientfd) /\ shutdown' = shutdown
    BY <2>2 DEF IServe, Reading, OneSession, InSession, Closing, ReadsError
  <2>3. CASE pc = "line" /\ IsQuit(line) /\ shutdown' = shutdown
    BY <2>3 DEF IServe, Reading, Closing
  <2>4. CASE pc = "line" /\ IsShutdown(line) /\ shutdown' = TRUE
    BY <2>4 DEF Closing, IsShutdown, Interactive
  <2>5. CASE pc' # "close"
    BY <2>5 DEF Closing
  <2> QED BY <2>1, <2>2, <2>3, <2>4, <2>5
<1> QED BY <1>1, <1>2, <1>3

\* The steps that turn a session to its end keep the invariant.
LEMMA TurningServes ==
  ASSUME IServe, ReadEnd \/ ReadError \/ Quit \/ Shutdown
  PROVE  IServe'
<1>1. UNCHANGED <<stream, peer, got, buf, line, out, program, fds, clientfd, had, vars>>
  BY DEF ReadEnd, ReadError, Quit, Shutdown, riovars, session
<1>2. IOpen'
  BY SessionKeepsOpen DEF IServe, Chatting
<1>3. Types' /\ OneSession' /\ Reading' /\ Closing'
  <2>1. CASE ReadEnd
    BY <1>1, <2>1, TurnServes DEF ReadEnd
  <2>2. CASE ReadError
    BY <1>1, <2>2, TurnServes DEF ReadError
  <2>3. CASE Quit
    BY <1>1, <2>3, TurnServes DEF Quit
  <2>4. CASE Shutdown
    BY <1>1, <2>4, TurnServes DEF Shutdown
  <2> QED BY <2>1, <2>2, <2>3, <2>4
<1> QED BY <1>2, <1>3 DEF IServe

\* calc_eval, with the reply to write.
LEMMA EvaluateServes == ASSUME IServe, Evaluate PROVE IServe'
<1> DEFINE o == EvalExpr(vars, Tokens(line)).out
<1>1. /\ pc = "line" /\ pc' = "write" /\ out' = Format(o) /\ line' = <<>>
      /\ UNCHANGED <<stream, peer, got, buf, program, fds, clientfd, had, shutdown>>
  BY DEF Evaluate, Expression
<1>2. IsSeq(out')
  <2>1. \A x, y : <<x, y>> \in Seq({x, y})
    OBVIOUS
  <2>2. IsSeq(Format(o))
    BY <2>1 DEF IsSeq, Format
  <2> QED BY <1>1, <2>2
<1>3. IOpen'
  BY SessionKeepsOpen DEF IServe, Chatting
<1>4. Types'
  BY <1>1, <1>2, EmptySeq DEF IServe, Types
<1>5. NoStopWithin(<<>>)
  BY DEF NoStopWithin
<1>6. OneSession' /\ Reading' /\ Closing'
  BY <1>1, <1>5 DEF IServe, OneSession, Reading, Closing, InSession
<1> QED BY <1>3, <1>4, <1>6 DEF IServe

\* Sequences of different things are put together in any order.
LEMMA MixedAssociative ==
  ASSUME NEW S, NEW T, NEW s \in Seq(S), NEW t \in Seq(T), NEW u \in Seq(T)
  PROVE  (s \o t) \o u = s \o (t \o u)
<1>1. s \in Seq(S \cup T) /\ t \in Seq(S \cup T) /\ u \in Seq(S \cup T)
  BY SeqMonotonic
<1> DEFINE U == S \cup T
<1> HIDE DEF U
<1> QED BY <1>1, ConcatAssociative DEF U

\* A piece written goes behind what was written before, and the rest behind it.
LEMMA PieceFollows ==
  ASSUME NEW g, NEW o, IsSeq(g), IsSeq(o), NEW k \in 1 .. Len(o)
  PROVE  /\ IsSeq(SubSeq(o, 1, k)) /\ IsSeq(SubSeq(o, k + 1, Len(o)))
         /\ (g \o SubSeq(o, 1, k)) \o SubSeq(o, k + 1, Len(o)) = g \o o
<1>1. PICK S, T : g \in Seq(S) /\ o \in Seq(T)
  BY DEF IsSeq
<1>2. k \in 0 .. Len(o)
  OBVIOUS
<1> DEFINE p == SubSeq(o, 1, k)
           q == SubSeq(o, k + 1, Len(o))
<1>3. p \in Seq(T) /\ q \in Seq(T)
  BY <1>1, <1>2, CutAnywhere
<1>4. p \o q = o
  BY <1>1, <1>2, CutAnywhere
<1> HIDE DEF p, q
<1>5. (g \o p) \o q = g \o (p \o q)
  BY <1>1, <1>3, MixedAssociative
<1>6. IsSeq(p) /\ IsSeq(q)
  BY <1>3 DEF IsSeq
<1> QED BY <1>4, <1>5, <1>6 DEF p, q

\* rio_writen, whole and in part.
LEMMA WriteFacts ==
  ASSUME IServe, Write
  PROVE  /\ pc = "write" /\ clientfd \in Clients \ had /\ pc' \in {"read", "write"}
         /\ (pc' = "read" => out' = <<>>)
         /\ UNCHANGED <<stream, peer, buf, line, program, fds, clientfd, had, shutdown, vars>>
         /\ \E s : /\ got' = [got EXCEPT ![clientfd] = @ \o s]
                   /\ IsSeq(s) /\ IsSeq(out')
                   /\ (got[clientfd] \o s) \o out' = got[clientfd] \o out
<1> DEFINE c == clientfd
<1>1. /\ pc = "write" /\ clientfd \in Clients \ had /\ pc' \in {"read", "write"}
      /\ (pc' = "read" => out' = <<>>)
      /\ UNCHANGED <<stream, peer, buf, line, program, fds, clientfd, had, shutdown, vars>>
  BY DEF Write, WriteSome, session, IServe, OneSession, InSession
<1>2. PICK k \in 1 .. Len(out) :
        /\ got' = [got EXCEPT ![c] = @ \o SubSeq(out, 1, k)]
        /\ out' = SubSeq(out, k + 1, Len(out))
  BY DEF Write, WriteSome
<1> DEFINE s == SubSeq(out, 1, k)
<1>3. IsSeq(got[c]) /\ IsSeq(out)
  BY <1>1 DEF IServe, Types
<1>4. IsSeq(s) /\ IsSeq(out') /\ (got[c] \o s) \o out' = got[c] \o out
  BY <1>2, <1>3, PieceFollows
<1>5. got' = [got EXCEPT ![c] = @ \o s]
  BY <1>2
<1> HIDE DEF s
<1> QED BY <1>1, <1>4, <1>5

\* So does rio_writen.
LEMMA WriteServes == ASSUME IServe, Write PROVE IServe'
<1>1. /\ pc = "write" /\ clientfd \in Clients \ had /\ pc' \in {"read", "write"}
      /\ (pc' = "read" => out' = <<>>)
      /\ UNCHANGED <<stream, peer, buf, line, program, fds, clientfd, had, shutdown, vars>>
  BY WriteFacts
<1>2. PICK s : got' = [got EXCEPT ![clientfd] = @ \o s] /\ IsSeq(s) /\ IsSeq(out')
  BY WriteFacts
<1>3. IsSeq(got[clientfd] \o s)
  BY <1>1, <1>2, ConcatType DEF IServe, Types
<1>4. IOpen'
  BY SessionKeepsOpen DEF IServe, Chatting
<1>5. Types'
  BY <1>1, <1>2, <1>3 DEF IServe, Types
<1>6. ~Ends(<<>>)
  BY DEF Ends
<1>7. OneSession' /\ Reading' /\ Closing'
  BY <1>1, <1>6 DEF IServe, OneSession, Reading, Closing, InSession
<1> QED BY <1>4, <1>5, <1>7 DEF IServe

\* rio_writen, cut short by an error.
LEMMA WriteFailsServes == ASSUME IServe, WriteFails PROVE IServe'
<1>1. /\ pc = "write" /\ pc' = "read" /\ out' = <<>>
      /\ UNCHANGED <<stream, peer, got, buf, line, program, fds, clientfd, had, shutdown, vars>>
  BY DEF WriteFails, session
<1>2. IOpen'
  BY SessionKeepsOpen DEF IServe, Chatting
<1>3. ~Ends(<<>>) /\ IsSeq(<<>>)
  BY EmptySeq DEF Ends, IsSeq
<1>4. Types' /\ OneSession' /\ Reading' /\ Closing'
  BY <1>1, <1>3 DEF IServe, Types, OneSession, Reading, Closing, InSession
<1> QED BY <1>2, <1>4 DEF IServe

\* A client comes, or goes, or its connection breaks.
LEMMA ClientServes == ASSUME IServe, NEW c \in Clients, Client(c) PROVE IServe'
<1>1. UNCHANGED <<got, buf, line, out, program, pc, fds, clientfd, had, shutdown, vars>>
  BY DEF Client, Connect, HangUp, Reset, mainvars
<1>2. IOpen'
  BY <1>1 DEF IServe, IOpen, Open, Places, Interactive
<1>3. PICK p, s :
        /\ peer' = [peer EXCEPT ![c] = p] /\ stream' = [stream EXCEPT ![c] = s]
        /\ \/ peer[c] = "away" /\ p = "open" /\ s \in Scripts
           \/ peer[c] = "open" /\ p = "eof" /\ s = stream[c]
           \/ peer[c] \in {"open", "eof"} /\ p = "reset" /\ s = <<>>
  <2>1. CASE \E bytes \in Scripts : Connect(c, bytes)
    BY <2>1 DEF Connect
  <2>2. CASE HangUp(c)
    <3>1. stream' = [stream EXCEPT ![c] = stream[c]]
      BY <2>2 DEF HangUp, IServe, Types
    <3> QED BY <2>2, <3>1 DEF HangUp
  <2>3. CASE Reset(c)
    BY <2>3 DEF Reset
  <2> QED BY <2>1, <2>2, <2>3 DEF Client
<1>4. s \in Seq(Byte)
  BY <1>3, EmptySeq, SeqServerAssumption DEF IServe, Types, Byte
<1>5. \A x \in Clients : /\ peer'[x] = IF x = c THEN p ELSE peer[x]
                         /\ stream'[x] = IF x = c THEN s ELSE stream[x]
  BY <1>3 DEF IServe, Types
<1>6. Types'
  BY <1>1, <1>3, <1>4 DEF IServe, Types
<1>7. OneSession'
  BY <1>1, <1>3, <1>5 DEF IServe, OneSession, InSession
<1>8. Reading' /\ Closing'
  BY <1>1, <1>3, <1>5 DEF IServe, OneSession, Reading, Closing, InSession, IsQuit, IsShutdown, Interactive
<1> QED BY <1>2, <1>6, <1>7, <1>8 DEF IServe

\* So does every step.
LEMMA StepServes == IServe /\ [Next]_allvars => IServe'
<1> SUFFICES ASSUME IServe, [Next]_allvars PROVE IServe'
  OBVIOUS
<1>1. CASE Progress
  <2>1. CASE GetAddrInfo \/ BindFails \/ Bind \/ NoAddress \/ ListenOn
    BY <2>1, ListeningServes
  <2>2. CASE AcceptInvalid \/ EvaluateAborts
    BY <2>2, EndServes DEF AcceptInvalid, EvaluateAborts
  <2>3. CASE (\E c \in Clients : Accept(c) \/ Chat(c)) \/ Close \/ ChatOver
    BY <2>3, BeginServes, CloseServes
  <2>4. CASE Chatting \/ Shutdown
    BY <2>2, <2>4, FillServes, TakeServes, TurningServes, EvaluateServes, WriteServes,
       WriteFailsServes DEF Chatting
  <2> QED BY <1>1, <2>1, <2>2, <2>3, <2>4 DEF Progress
<1>2. CASE AcceptFails \/ WriteKills
  BY <1>2, EndServes DEF AcceptFails, WriteKills
<1>3. CASE \E c \in Clients : Client(c)
  BY <1>3, ClientServes
<1>4. CASE UNCHANGED allvars
  <2>1. UNCHANGED <<stream, peer, got, buf, line, out, program, pc, fds, clientfd, had, shutdown>>
    BY <1>4 DEF allvars, riovars, mainvars
  <2>2. IOpen'
    BY <2>1 DEF IServe, IOpen, Open, Places, Interactive
  <2>3. Types' /\ OneSession' /\ Reading' /\ Closing'
    BY <2>1 DEF IServe, Types, OneSession, Reading, Closing, InSession, IsQuit, IsShutdown, Interactive
  <2> QED BY <2>2, <2>3 DEF IServe
<1> QED BY <1>1, <1>2, <1>3, <1>4 DEF Next

\* What CalcSessions sees.
Said(c) == IF c = clientfd THEN got[c] \o out ELSE got[c]
Last == pc = "line" /\ ~Ends(line)
Stopping == clientfd = None /\ (shutdown \/ (Interactive /\ had # {}))
Down == pc = "down"
SessionStep == [Sessions!Next]_(Sessions!svars)

\* Initially no session has begun.
LEMMA InitSessions == Init => Sessions!Init
<1> SUFFICES ASSUME Init PROVE Sessions!Init
  OBVIOUS
<1>1. /\ \A c \in Clients : Remaining(c) = <<>> /\ c # clientfd /\ got[c] = <<>>
      /\ peer = [c \in Clients |-> "away"] /\ vars = EmptyStore
      /\ pc \in {"getaddrinfo", "chat"} /\ clientfd = None /\ had = {} /\ shutdown = FALSE
  BY SeqServerAssumption DEF Init, ServerStarts, InteractiveStarts, Start, Remaining
<1> QED BY <1>1, SameEval DEF Sessions!Init

\* A step of which nothing is seen.
LEMMA UnseenStep ==
  ASSUME UNCHANGED <<program, vars, peer, clientfd, had>>,
         \A x \in Clients : Remaining(x)' = Remaining(x) /\ Said(x)' = Said(x),
         Last' = Last, Stopping' = Stopping, Down' = Down
  PROVE  SessionStep
BY DEF SessionStep, Sessions!svars, Said, Last, Stopping, Down, Interactive

\* open_listenfd concerns no client.
LEMMA ListeningRefines ==
  ASSUME IServe, GetAddrInfo \/ BindFails \/ Bind \/ NoAddress \/ ListenOn
  PROVE  SessionStep
<1>1. /\ pc \in {"getaddrinfo", "bind", "listen"} /\ pc' \in {"bind", "accept", "listen"}
      /\ UNCHANGED <<stream, peer, got, buf, line, out, program, clientfd, had, shutdown, vars>>
  BY DEF GetAddrInfo, BindFails, Bind, NoAddress, ListenOn, listening, riovars
<1> QED BY <1>1, UnseenStep DEF Remaining, Said, Last, Stopping, Down, Interactive

\* The end of the process, by exit or abort.
LEMMA EndRefines == ASSUME IServe, EndProcess PROVE SessionStep
<1>1. /\ pc' = "down"
      /\ UNCHANGED <<stream, peer, got, buf, line, out, program, clientfd, had, shutdown, vars>>
  BY DEF EndProcess, riovars
<1>2. \A x \in Clients : Remaining(x)' = Remaining(x) /\ Said(x)' = Said(x)
  BY <1>1 DEF Remaining, Said
<1>3. Sessions!Fail
  BY <1>1, <1>2 DEF Sessions!Fail, Said, Interactive
<1>4. Sessions!Next
  BY <1>1, <1>3 DEF Sessions!Next, Interactive
<1> QED BY <1>4 DEF SessionStep

\* What is left to read, and what was written, when nothing is under way.
LEMMA NothingFirst ==
  ASSUME NEW s, IsSeq(s)
  PROVE  <<>> \o <<>> \o s = s /\ s \o <<>> = s /\ <<>> \o s = s
<1>1. PICK S : s \in Seq(S)
  BY DEF IsSeq
<1>2. s \o <<>> = s /\ <<>> \o s = s
  BY <1>1, ConcatEmptySeq
<1>3. <<>> \o <<>> = <<>>
  BY EmptySeq, ConcatEmptySeq
<1> QED BY <1>2, <1>3

\* rio_readinitb: what another session left in the buffer is gone.
LEMMA BeginRefines == ASSUME IServe, NEW c \in Clients, Accept(c) \/ Chat(c) PROVE SessionStep
<1>1. /\ pc \in {"accept", "chat"} /\ pc' = "read" /\ clientfd' = c /\ c \notin had
      /\ peer[c] # "away" /\ buf' = <<>> /\ line' = <<>> /\ out' = <<>>
      /\ clientfd = None /\ ~shutdown /\ (Interactive => had = {})
      /\ UNCHANGED <<stream, peer, got, program, had, shutdown, vars>>
  BY DEF Accept, Chat, ReadInitB, IServe, OneSession, IOpen, Places
<1>2. \A x \in Clients : IsSeq(stream[x]) /\ IsSeq(got[x])
  BY DEF IServe, Types, IsSeq
<1>3. \A x \in Clients : x # clientfd
  BY <1>1, SeqServerAssumption
<1>4. \A x \in Clients : Remaining(x)' = Remaining(x)
  BY <1>1, <1>2, <1>3, NothingFirst DEF Remaining
<1>5. \A x \in Clients : Said(x)' = Said(x)
  BY <1>1, <1>2, <1>3, NothingFirst DEF Said
<1>6. c # None
  BY SeqServerAssumption
<1>7. Sessions!Begin(c)
  BY <1>1, <1>4, <1>5, <1>6 DEF Sessions!Begin, Said, Interactive
<1>8. Sessions!Next
  BY <1>1, <1>7 DEF Sessions!Next, Interactive
<1> QED BY <1>8 DEF SessionStep

\* A command is a whole line, and not both commands.
LEMMA CommandFacts ==
  /\ \A l : IsQuit(l) \/ IsShutdown(l) => Ends(l)
  /\ \A l : Sessions!Is("quit", l) <=> IsQuit(l)
  /\ \A l : Sessions!Is("shutdown", l) <=> IsShutdown(l)
  /\ \A l : ~(IsQuit(l) /\ IsShutdown(l))
<1>1. \A l : IsQuit(l) \/ IsShutdown(l) => Ends(l)
  <2>1. \A x, y : Ends(<<x, Nl>>) /\ Ends(<<x, y, Nl>>)
    BY DEF Ends
  <2> QED BY <2>1 DEF IsQuit, IsShutdown
<1>2. \A s : Sessions!Word(s) = Word(s)
  BY DEF Word, Sessions!Word
<1>3. \A l : Sessions!Is("quit", l) <=> IsQuit(l)
  BY <1>2 DEF IsQuit, Sessions!Is
<1>4. \A l : Sessions!Is("shutdown", l) <=> IsShutdown(l)
  BY <1>2 DEF IsShutdown, Sessions!Is
<1>5. Word("quit") # Word("shutdown")
  BY DEF Word
<1>6. \A l : ~(IsQuit(l) /\ IsShutdown(l))
  BY <1>5 DEF IsQuit, IsShutdown
<1> QED BY <1>1, <1>3, <1>4, <1>6

\* What is left of a session's input is the line and what comes behind it.
LEMMA RemainingFacts ==
  ASSUME IServe, InSession
  PROVE  /\ clientfd \in Clients /\ clientfd \notin had /\ clientfd # None
         /\ stream[clientfd] \in Seq(Byte) /\ buf \in Seq(Byte) /\ line \in Seq(Byte)
         /\ buf \o stream[clientfd] \in Seq(Byte)
         /\ Remaining(clientfd) = line \o (buf \o stream[clientfd])
         /\ Remaining(clientfd) = (line \o buf) \o stream[clientfd]
<1>1. /\ clientfd \in Clients /\ clientfd \notin had /\ clientfd # None
      /\ stream[clientfd] \in Seq(Byte) /\ buf \in Seq(Byte) /\ line \in Seq(Byte)
  BY SeqServerAssumption DEF IServe, Types, OneSession
<1>2. buf \o stream[clientfd] \in Seq(Byte)
  BY <1>1, ConcatProperties
<1>3. (line \o buf) \o stream[clientfd] = line \o (buf \o stream[clientfd])
  <2>1. \A x, y, z \in Seq(Byte) : (x \o y) \o z = x \o (y \o z)
    BY ConcatAssociative
  <2> QED BY <1>1, <2>1
<1> QED BY <1>1, <1>2, <1>3 DEF Remaining

\* A whole line is the first line of what is left.
LEMMA WholeFirst ==
  ASSUME IServe, pc \in {"line", "close"}, Ends(line)
  PROVE  /\ Sessions!Stops(Remaining(clientfd)) # {}
         /\ Sessions!FirstLine(Remaining(clientfd)) = line
         /\ Sessions!After(Remaining(clientfd), line) = buf \o stream[clientfd]
<1>1. /\ line \in Seq(Byte) /\ buf \o stream[clientfd] \in Seq(Byte)
      /\ Remaining(clientfd) = line \o (buf \o stream[clientfd])
  BY RemainingFacts DEF InSession
<1>2. NoStopWithin(line)
  BY DEF IServe, Reading, InSession
<1> DEFINE r == buf \o stream[clientfd]
<1> HIDE DEF r
<1>3. Sessions!Stops(line \o r) # {} /\ Sessions!FirstLine(line \o r) = line
  BY <1>1, <1>2, WholeLine DEF r
<1>4. SubSeq(line \o r, Len(line) + 1, Len(line \o r)) = r
  BY <1>1, CutBetween DEF r
<1> QED BY <1>1, <1>3, <1>4 DEF Sessions!After, r

\* A line without an end is all there is.
LEMMA PartFirst ==
  ASSUME IServe, InSession, ~Ends(line), buf = <<>>, stream[clientfd] = <<>>
  PROVE  /\ Remaining(clientfd) = line /\ Sessions!Stops(line) = {}
         /\ Sessions!FirstLine(line) = line /\ Sessions!After(line, line) = <<>>
<1>1. line \in Seq(Byte) /\ Remaining(clientfd) = (line \o <<>>) \o <<>>
  BY RemainingFacts
<1>2. Remaining(clientfd) = line
  BY <1>1, ConcatEmptySeq
<1>3. NoStopWithin(line) /\ Len(line) \in Nat
  BY <1>1, LenProperties DEF IServe, Reading
<1>4. Sessions!After(line, line) = <<>>
  BY <1>3, SubSeqEmpty DEF Sessions!After
<1> QED BY <1>1, <1>2, <1>3, <1>4, PartLine

\* close: the session's end has a reason, and the shutdown flag is that of its
\* last line.
LEMMA CloseReason ==
  ASSUME IServe, pc = "close"
  PROVE  /\ Sessions!Over(clientfd)
         /\ Sessions!Is("shutdown", Sessions!FirstLine(Remaining(clientfd))) <=> shutdown
<1> DEFINE c == clientfd
           f == Sessions!FirstLine(Remaining(c))
<1>1. c \in Clients /\ IOpen
  BY RemainingFacts DEF InSession, IServe
<1>2. CASE IsQuit(line) /\ ~shutdown
  <2>1. f = line
    BY <1>2, WholeFirst, CommandFacts
  <2> QED BY <1>1, <1>2, <2>1, CommandFacts DEF Sessions!Over
<1>3. CASE IsShutdown(line) /\ shutdown
  <2>1. f = line
    BY <1>3, WholeFirst, CommandFacts
  <2> QED BY <1>1, <1>3, <2>1, CommandFacts DEF Sessions!Over
<1>4. CASE /\ ~Ends(line) /\ buf = <<>> /\ stream[c] = <<>> /\ ~shutdown
           /\ peer[c] = "reset" \/ (line = <<>> /\ peer[c] \in {"eof", "reset"})
  <2>1. Remaining(c) = line /\ f = line
    BY <1>4, PartFirst DEF InSession
  <2>2. ~Sessions!Is("shutdown", f)
    BY <1>4, <2>1, CommandFacts
  <2> QED BY <1>1, <1>4, <2>1, <2>2 DEF Sessions!Over
<1> QED BY <1>2, <1>3, <1>4 DEF IServe, Closing

\* The end of a session, of a connection or of the terminal.
LEMMA CloseRefines == ASSUME IServe, Close \/ ChatOver PROVE SessionStep
<1> DEFINE c == clientfd
<1>1. /\ pc = "close" /\ clientfd' = None /\ had' = had \cup {c}
      /\ pc' \in {"done", "accept"}
      /\ UNCHANGED <<stream, peer, got, buf, line, out, program, shutdown, vars>>
  BY DEF Close, ChatOver, riovars
<1>2. c \in Clients /\ c \notin had /\ c # None
  BY <1>1, RemainingFacts DEF InSession
<1>3. out = <<>> /\ \A x \in Clients : IsSeq(got[x])
  BY <1>1 DEF IServe, Reading, InSession, Types
<1>4. \A x \in Clients : Said(x)' = Said(x)
  BY <1>1, <1>3, NothingFirst, SeqServerAssumption DEF Said
<1>5. \A x \in Clients : Remaining(x)' = IF x = c THEN <<>> ELSE Remaining(x)
  BY <1>1, <1>2, SeqServerAssumption DEF Remaining
<1>6. /\ Sessions!Over(c)
      /\ Sessions!Is("shutdown", Sessions!FirstLine(Remaining(c))) <=> shutdown
  BY <1>1, CloseReason
<1>7. [x \in Clients |-> Remaining(x)]' = [[x \in Clients |-> Remaining(x)] EXCEPT ![c] = <<>>]
  BY <1>2, <1>5
<1>8. Stopping' <=> (shutdown \/ Interactive)
  BY <1>1, <1>2 DEF Stopping, Interactive
<1>9. Sessions!End(c)
  BY <1>1, <1>2, <1>4, <1>6, <1>7, <1>8 DEF Sessions!End, Said, Interactive, Stopping
<1>10. Sessions!Next
  BY <1>1, <1>2, <1>9 DEF Sessions!Next, Interactive
<1> QED BY <1>10 DEF SessionStep

\* Bytes are bytes however they are grouped.
LEMMA Associative ==
  \A x, y, z \in Seq(Byte) : (x \o y) \o z = x \o (y \o z)
BY ConcatAssociative

\* A sequence is its first element and the rest.
LEMMA HeadAndRest ==
  ASSUME NEW S, NEW s \in Seq(S), s # <<>>
  PROVE  <<Head(s)>> \o Tail(s) = s
<1> DEFINE w == <<Head(s)>> \o Tail(s)
<1>1. /\ Head(s) \in S /\ Head(s) = s[1]
      /\ Tail(s) \in Seq(S) /\ Len(Tail(s)) = Len(s) - 1
      /\ \A i \in 1 .. Len(Tail(s)) : Tail(s)[i] = s[i + 1]
  BY HeadTailProperties
<1>2. /\ <<Head(s)>> \in Seq(S) /\ Len(<<Head(s)>>) = 1 /\ <<Head(s)>>[1] = s[1]
      /\ Len(s) \in Nat /\ Len(s) > 0
  BY <1>1
<1>3. /\ w \in Seq(S) /\ Len(w) = Len(s)
      /\ \A i \in 1 .. Len(s) : w[i] = IF i <= 1 THEN <<Head(s)>>[i] ELSE Tail(s)[i - 1]
  BY <1>1, <1>2, ConcatProperties
<1> HIDE DEF w
<1>4. \A i \in 1 .. Len(s) : w[i] = s[i]
  BY <1>1, <1>2, <1>3
<1>5. w = s
  BY <1>3, <1>4, SeqEqual
<1> QED BY <1>5 DEF w

\* The session's bytes move from the socket to the buffer to the line.
LEMMA BytesMove ==
  ASSUME IServe, InSession,
         UNCHANGED <<peer, got, out, program, clientfd, had, shutdown, vars>>,
         \A x \in Clients : x # clientfd => stream'[x] = stream[x],
         ((line \o buf) \o stream[clientfd])' = (line \o buf) \o stream[clientfd],
         Last' = Last, pc' # "down"
  PROVE  SessionStep
<1>1. clientfd \in Clients /\ clientfd \notin had /\ pc # "down"
  BY RemainingFacts DEF InSession
<1>2. \A x \in Clients : Remaining(x)' = Remaining(x) /\ Said(x)' = Said(x)
  BY <1>1 DEF Remaining, Said
<1>3. Stopping' = Stopping /\ Down' = Down
  BY <1>1 DEF Stopping, Down, Interactive
<1> QED BY <1>2, <1>3, UnseenStep

\* rio_read, from an empty buffer.
LEMMA FillRefines == ASSUME IServe, Fill PROVE SessionStep
<1> DEFINE c == clientfd
<1>1. /\ pc = "read" /\ ~Ends(line) /\ buf = <<>>
      /\ UNCHANGED <<peer, got, line, out, pc, shutdown, program, clientfd, had, vars>>
  BY DEF Fill, Refill, session
<1>2. PICK k \in 1 .. Len(stream[c]) :
        /\ buf' = SubSeq(stream[c], 1, k)
        /\ stream' = [stream EXCEPT ![c] = SubSeq(@, k + 1, Len(@))]
  BY DEF Fill, Refill
<1>3. c \in Clients /\ stream[c] \in Seq(Byte) /\ line \in Seq(Byte)
  BY <1>1, RemainingFacts DEF InSession
<1>4. k \in 0 .. Len(stream[c])
  BY <1>2
<1> DEFINE p == SubSeq(stream[c], 1, k)
           q == SubSeq(stream[c], k + 1, Len(stream[c]))
<1>5. p \in Seq(Byte) /\ q \in Seq(Byte)
  BY <1>3, <1>4, CutAnywhere
<1>6. p \o q = stream[c]
  BY <1>3, <1>4, CutAnywhere
<1>7. \A x \in Clients : stream'[x] = IF x = c THEN q ELSE stream[x]
  BY <1>2 DEF IServe, Types
<1>8. buf' = p
  BY <1>2
<1> HIDE DEF p, q
<1>9. (line \o p) \o q = line \o (p \o q)
  BY <1>3, <1>5, Associative
<1>10. line \o <<>> = line
  BY <1>3, ConcatEmptySeq
<1>11. ((line \o buf) \o stream[c])' = (line \o buf) \o stream[c]
  BY <1>1, <1>3, <1>6, <1>7, <1>8, <1>9, <1>10
<1> QED BY <1>1, <1>7, <1>11, BytesMove DEF InSession, Last

\* rio_readlineb's loop.
LEMMA TakeRefines == ASSUME IServe, Take PROVE SessionStep
<1>1. /\ pc = "read" /\ buf # <<>>
      /\ line' = Append(line, Head(buf)) /\ buf' = Tail(buf)
      /\ pc' = IF Ends(line') THEN "line" ELSE "read"
      /\ UNCHANGED <<stream, peer, got, out, shutdown, program, clientfd, had, vars>>
  BY DEF Take, TakeByte, session
<1>2. line \in Seq(Byte) /\ buf \in Seq(Byte)
  BY <1>1, RemainingFacts DEF InSession
<1>3. Head(buf) \in Byte /\ Tail(buf) \in Seq(Byte)
  BY <1>1, <1>2, HeadTailProperties
<1>4. <<Head(buf)>> \in Seq(Byte)
  BY <1>3
<1>5. Append(line, Head(buf)) = line \o <<Head(buf)>>
  BY <1>2, <1>3, AppendIsConcat
<1>6. (line \o <<Head(buf)>>) \o Tail(buf) = line \o (<<Head(buf)>> \o Tail(buf))
  BY <1>2, <1>3, <1>4, Associative
<1>7. <<Head(buf)>> \o Tail(buf) = buf
  BY <1>1, <1>2, HeadAndRest
<1>8. ((line \o buf) \o stream[clientfd])' = (line \o buf) \o stream[clientfd]
  BY <1>1, <1>5, <1>6, <1>7
<1>9. Last' = Last /\ pc' # "down"
  BY <1>1 DEF Last
<1> QED BY <1>1, <1>8, <1>9, BytesMove DEF InSession

\* At the end of the input what has been read counts as a line, which is noticed.
LEMMA ReadEndRefines == ASSUME IServe, ReadEnd PROVE SessionStep
<1> DEFINE c == clientfd
<1>1. /\ pc = "read" /\ buf = <<>> /\ stream[c] = <<>> /\ peer[c] = "eof"
      /\ pc' = IF line = <<>> THEN "close" ELSE "line"
      /\ UNCHANGED <<stream, peer, got, buf, line, out, program, clientfd, had, shutdown, vars>>
  BY DEF ReadEnd, ReadsEnd, session, riovars
<1>2. ~Ends(line) /\ c \in Clients /\ c # None
  BY <1>1, RemainingFacts DEF IServe, Reading, InSession
<1>3. CASE line = <<>>
  <2>1. Last' = Last /\ pc' # "down"
    BY <1>1, <1>3 DEF Last
  <2> QED BY <1>1, <2>1, BytesMove DEF InSession
<1>4. CASE line # <<>>
  <2>1. Remaining(c) = line /\ Sessions!Stops(line) = {}
    BY <1>1, <1>2, PartFirst DEF InSession
  <2>2. \A x \in Clients : Remaining(x)' = Remaining(x) /\ Said(x)' = Said(x)
    BY <1>1 DEF Remaining, Said
  <2>3. Sessions!Notice(c)
    BY <1>1, <1>2, <1>4, <2>1, <2>2 DEF Sessions!Notice, Said, Interactive
  <2>4. Sessions!Next
    BY <1>1, <1>2, <2>3 DEF Sessions!Next, Interactive
  <2> QED BY <2>4 DEF SessionStep
<1> QED BY <1>3, <1>4

\* What follows from quit, shutdown or an error is seen only when the session is
\* closed.
LEMMA TurnRefines == ASSUME IServe, ReadError \/ Quit \/ Shutdown PROVE SessionStep
<1>1. /\ pc \in {"read", "line"} /\ pc' = "close"
      /\ UNCHANGED <<stream, peer, got, buf, line, out, program, clientfd, had, vars>>
  BY DEF ReadError, Quit, Shutdown, session, riovars
<1>2. pc = "line" => Ends(line)
  BY CommandFacts DEF ReadError, Quit, Shutdown
<1>3. clientfd \in Clients /\ clientfd # None
  BY <1>1, RemainingFacts DEF InSession
<1>4. Last' = Last /\ Down' = Down /\ Stopping' = Stopping
  BY <1>1, <1>2, <1>3 DEF Last, Down, Stopping
<1>5. \A x \in Clients : Remaining(x)' = Remaining(x) /\ Said(x)' = Said(x)
  BY <1>1 DEF Remaining, Said
<1> QED BY <1>1, <1>4, <1>5, UnseenStep

\* calc_eval: the first line is answered, and what comes behind it stays.
LEMMA EvaluateRefines == ASSUME IServe, Evaluate PROVE SessionStep
<1>0. PICK c \in Clients : c = clientfd
  BY RemainingFacts DEF Evaluate, Expression, InSession
<1> DEFINE r == EvalExpr(vars, Tokens(line))
           rest == buf \o stream[c]
<1>1. /\ c = clientfd /\ clientfd' = clientfd
      /\ pc = "line" /\ ~IsQuit(line) /\ ~IsShutdown(line) /\ r.out.st # "abort"
      /\ vars' = r.vars /\ out' = Format(r.out) /\ line' = <<>> /\ pc' = "write"
      /\ UNCHANGED <<stream, peer, got, buf, program, clientfd, had, shutdown>>
  BY <1>0 DEF Evaluate, Expression
<1>2. /\ c \in Clients /\ c \notin had /\ c # None
      /\ stream[c] \in Seq(Byte) /\ buf \in Seq(Byte) /\ rest \in Seq(Byte)
  BY <1>1, RemainingFacts DEF InSession
<1>3. /\ Sessions!FirstLine(Remaining(c)) = line /\ Sessions!After(Remaining(c), line) = rest
      /\ Last \/ Sessions!Stops(Remaining(c)) # {}
  <2>1. CASE Ends(line)
    BY <1>1, <2>1, WholeFirst
  <2>2. CASE ~Ends(line)
    <3>1. buf = <<>> /\ stream[c] = <<>>
      BY <1>1, <2>2 DEF IServe, Reading
    <3>2. /\ Remaining(c) = line /\ Sessions!FirstLine(line) = line
          /\ Sessions!After(line, line) = <<>>
      BY <1>1, <2>2, <3>1, PartFirst DEF InSession
    <3>3. rest = <<>>
      BY <3>1, EmptySeq, ConcatEmptySeq
    <3> QED BY <1>1, <2>2, <3>2, <3>3 DEF Last
  <2> QED BY <2>1, <2>2
<1>4. Remaining(c)' = rest
  <2>1. <<>> \o buf = buf
    BY <1>2, ConcatEmptySeq
  <2> QED BY <1>1, <1>2, <2>1 DEF Remaining
<1>5. Said(c) = got[c] /\ Said(c)' = got[c] \o Sessions!Reply(r.out)
  <2>1. out = <<>> /\ IsSeq(got[c])
    BY <1>1, <1>2 DEF IServe, Reading, InSession, Types
  <2>2. Format(r.out) = Sessions!Reply(r.out)
    BY DEF Format, Sessions!Reply, Num, Sessions!Num
  <2> QED BY <1>1, <2>1, <2>2, NothingFirst DEF Said
<1>6. \A x \in Clients : x # c => Remaining(x)' = Remaining(x) /\ Said(x)' = Said(x)
  BY <1>1 DEF Remaining, Said
<1>7. /\ [x \in Clients |-> Remaining(x)]' = [[x \in Clients |-> Remaining(x)] EXCEPT ![c] = rest]
      /\ [x \in Clients |-> Said(x)]'
           = [[x \in Clients |-> Said(x)] EXCEPT ![c] = @ \o Sessions!Reply(r.out)]
  <2>1. \A x \in Clients : /\ Remaining(x)' = IF x = c THEN rest ELSE Remaining(x)
                           /\ Said(x)' = IF x = c THEN Said(x) \o Sessions!Reply(r.out) ELSE Said(x)
    BY <1>4, <1>5, <1>6
  <2> HIDE DEF r, rest
  <2> QED BY <1>2, <2>1
<1>8. r = Sessions!EvalExpr(vars, Sessions!Expr(line))
  BY SameEval, SameTokens
<1>9. ~Sessions!Is("quit", line) /\ ~Sessions!Is("shutdown", line)
  BY <1>1, CommandFacts
<1> HIDE DEF r, rest
<1>10. Sessions!Answer(c)
  BY <1>1, <1>2, <1>3, <1>7, <1>8, <1>9 DEF Sessions!Answer, Said, Last, Interactive
<1>11. program' = program
  BY <1>1
<1>12. Sessions!Next
  BY <1>2, <1>10, <1>11 DEF Sessions!Next, Interactive
<1> QED BY <1>12 DEF SessionStep

\* rio_writen: what was promised is written in its order.
LEMMA WriteRefines == ASSUME IServe, Write PROVE SessionStep
<1> DEFINE c == clientfd
<1>1. /\ pc = "write" /\ c \in Clients /\ c \notin had /\ pc' \in {"read", "write"}
      /\ UNCHANGED <<stream, peer, buf, line, program, clientfd, had, shutdown, vars>>
  BY WriteFacts
<1>2. PICK s : /\ got' = [got EXCEPT ![c] = @ \o s]
               /\ (got[c] \o s) \o out' = got[c] \o out
  BY WriteFacts
<1>3. \A x \in Clients : got'[x] = IF x = c THEN got[c] \o s ELSE got[x]
  BY <1>2 DEF IServe, Types
<1>4. \A x \in Clients : Remaining(x)' = Remaining(x) /\ Said(x)' = Said(x)
  BY <1>1, <1>2, <1>3 DEF Remaining, Said
<1>5. Last' = Last /\ Stopping' = Stopping /\ Down' = Down
  BY <1>1 DEF Last, Stopping, Down, Interactive
<1> QED BY <1>1, <1>4, <1>5, UnseenStep

\* A broken connection cuts a reply short.
LEMMA WriteFailsRefines == ASSUME IServe, WriteFails PROVE SessionStep
<1>0. PICK c \in Clients : c = clientfd
  BY RemainingFacts DEF WriteFails, InSession
<1>1. /\ c = clientfd
      /\ pc = "write" /\ pc' = "read" /\ out' = <<>> /\ peer[c] = "reset"
      /\ UNCHANGED <<stream, peer, got, buf, line, program, clientfd, had, shutdown, vars>>
  BY <1>0 DEF WriteFails, session
<1>2. c \in Clients /\ c # None
  BY <1>1, SeqServerAssumption DEF IServe, OneSession, InSession
<1>3. IsSeq(got[c]) /\ IsSeq(out)
  BY <1>2 DEF IServe, Types
<1>4. PICK S : got[c] \in Seq(S) /\ out \in Seq(S)
  <2>1. PICK T, U : got[c] \in Seq(T) /\ out \in Seq(U)
    BY <1>3 DEF IsSeq
  <2>2. got[c] \in Seq(T \cup U) /\ out \in Seq(T \cup U)
    BY <2>1, SeqMonotonic
  <2> QED BY <2>2
<1>5. /\ SubSeq(got[c] \o out, 1, Len(got[c])) = got[c] /\ got[c] \o <<>> = got[c]
      /\ Len(got[c]) \in 0 .. Len(got[c] \o out)
  <2>1. Len(got[c]) \in Nat /\ Len(out) \in Nat /\ Len(got[c] \o out) = Len(got[c]) + Len(out)
    BY <1>4, ConcatProperties, LenProperties
  <2> QED BY <1>4, <2>1, CutBetween, ConcatEmptySeq
<1>6. Said(c) = got[c] \o out /\ Said(c)' = got[c]
  BY <1>1, <1>5 DEF Said
<1>7. \A x \in Clients : Remaining(x)' = Remaining(x) /\ (x # c => Said(x)' = Said(x))
  BY <1>1 DEF Remaining, Said
<1>8. [x \in Clients |-> Said(x)]'
        = [[x \in Clients |-> Said(x)] EXCEPT ![c] = SubSeq(@, 1, Len(got[c]))]
  <2>1. \A x \in Clients : Said(x)' = IF x = c THEN SubSeq(Said(x), 1, Len(got[c])) ELSE Said(x)
    BY <1>5, <1>6, <1>7
  <2> QED BY <1>2, <2>1
<1>9. \E k \in 0 .. Len([x \in Clients |-> Said(x)][c]) :
        [x \in Clients |-> Said(x)]' = [[x \in Clients |-> Said(x)] EXCEPT ![c] = SubSeq(@, 1, k)]
  BY <1>2, <1>5, <1>6, <1>8
<1>10. Sessions!Cut(c)
  BY <1>1, <1>2, <1>7, <1>9 DEF Sessions!Cut, Said, Interactive
<1>11. program' = program
  BY <1>1
<1>12. Sessions!Next
  BY <1>2, <1>10, <1>11 DEF Sessions!Next, Interactive
<1> QED BY <1>12 DEF SessionStep

-----------------------------------------------------------------------------
\* A client comes, hangs up, or loses its connection with what was on the way.
LEMMA ClientRefines == ASSUME IServe, NEW c \in Clients, Client(c) PROVE SessionStep
<1>1. UNCHANGED <<got, buf, line, out, program, pc, fds, clientfd, had, shutdown, vars>>
  BY DEF Client, Connect, HangUp, Reset, mainvars
<1>2. /\ Last' = Last /\ Stopping' = Stopping /\ Down' = Down
      /\ \A x \in Clients : Said(x)' = Said(x)
  BY <1>1 DEF Last, Stopping, Down, Said, Interactive
<1>3. ASSUME NEW bytes \in Scripts, Connect(c, bytes) PROVE SessionStep
  <2>1. /\ peer[c] = "away" /\ peer' = [peer EXCEPT ![c] = "open"]
        /\ stream' = [stream EXCEPT ![c] = bytes]
    BY <1>3 DEF Connect
  <2>2. \A x \in Clients : stream'[x] = IF x = c THEN bytes ELSE stream[x]
    BY <2>1 DEF IServe, Types
  <2>3. c \notin had /\ c # clientfd
    BY <2>1 DEF IServe, OneSession
  <2>4. \A x \in Clients : Remaining(x)' = IF x = c THEN bytes ELSE Remaining(x)
    BY <1>1, <2>2, <2>3 DEF Remaining
  <2>5. [x \in Clients |-> Remaining(x)]' = [[x \in Clients |-> Remaining(x)] EXCEPT ![c] = bytes]
    BY <2>4
  <2>6. Sessions!Arrive(c)
    BY <1>1, <1>2, <2>1, <2>5 DEF Sessions!Arrive, Said, Last, Stopping, Down, Interactive
  <2>7. Sessions!Next
    BY <1>1, <2>6 DEF Sessions!Next, Interactive
  <2> QED BY <2>7 DEF SessionStep
<1>4. CASE HangUp(c)
  <2>1. /\ peer[c] = "open" /\ peer' = [peer EXCEPT ![c] = "eof"] /\ stream' = stream
    BY <1>4 DEF HangUp
  <2>2. \A x \in Clients : Remaining(x)' = Remaining(x)
    BY <1>1, <2>1 DEF Remaining
  <2>3. Sessions!Leave(c)
    BY <1>1, <1>2, <2>1, <2>2 DEF Sessions!Leave, Said, Last, Stopping, Down, Interactive
  <2>4. Sessions!Next
    BY <1>1, <2>3 DEF Sessions!Next, Interactive
  <2> QED BY <2>4 DEF SessionStep
<1>5. CASE Reset(c)
  <2>1. /\ peer[c] \in {"open", "eof"} /\ peer' = [peer EXCEPT ![c] = "reset"]
        /\ stream' = [stream EXCEPT ![c] = <<>>]
    BY <1>5 DEF Reset
  <2>2. \A x \in Clients : stream'[x] = IF x = c THEN <<>> ELSE stream[x]
    BY <2>1 DEF IServe, Types
  <2>3. \A x \in Clients : x # c => Remaining(x)' = Remaining(x)
    BY <1>1, <2>2 DEF Remaining
  <2>4. \E k \in 0 .. Len(Remaining(c)) : Remaining(c)' = SubSeq(Remaining(c), 1, k)
    <3>1. stream[c] \in Seq(Byte) /\ line \in Seq(Byte) /\ buf \in Seq(Byte)
      BY DEF IServe, Types
    <3>2. CASE c \in had
      <4>1. Remaining(c) = <<>> /\ Remaining(c)' = <<>>
        BY <1>1, <3>2 DEF Remaining
      <4>2. SubSeq(<<>>, 1, 0) = <<>>
        BY SubSeqEmpty
      <4> QED BY <4>1, <4>2
    <3>3. CASE c \notin had /\ c # clientfd
      <4>1. Remaining(c) = stream[c] /\ Remaining(c)' = <<>>
        BY <1>1, <2>2, <3>3 DEF Remaining
      <4>2. SubSeq(stream[c], 1, 0) = <<>> /\ Len(stream[c]) \in Nat
        BY <3>1, SubSeqEmpty
      <4> QED BY <4>1, <4>2
    <3>4. CASE c \notin had /\ c = clientfd
      <4> DEFINE b == line \o buf
      <4>1. b \in Seq(Byte)
        BY <3>1, ConcatProperties
      <4>2. Remaining(c) = b \o stream[c] /\ Remaining(c)' = b \o <<>>
        BY <1>1, <2>2, <3>4 DEF Remaining
      <4> HIDE DEF b
      <4>3. SubSeq(b \o stream[c], 1, Len(b)) = b /\ b \o <<>> = b
        BY <3>1, <4>1, CutBetween, ConcatEmptySeq
      <4>4. Len(b) \in 0 .. Len(b \o stream[c])
        BY <3>1, <4>1, ConcatProperties
      <4> QED BY <4>2, <4>3, <4>4
    <3> QED BY <3>2, <3>3, <3>4
  <2>5. PICK k \in 0 .. Len(Remaining(c)) : Remaining(c)' = SubSeq(Remaining(c), 1, k)
    BY <2>4
  <2>6. [x \in Clients |-> Remaining(x)]'
          = [[x \in Clients |-> Remaining(x)] EXCEPT ![c] = SubSeq(@, 1, k)]
    BY <2>3, <2>5
  <2>7. \E n \in 0 .. Len([x \in Clients |-> Remaining(x)][c]) :
          [x \in Clients |-> Remaining(x)]'
            = [[x \in Clients |-> Remaining(x)] EXCEPT ![c] = SubSeq(@, 1, n)]
    BY <2>6
  <2>8. Sessions!Break(c)
    BY <1>1, <1>2, <2>1, <2>7 DEF Sessions!Break, Said, Last, Stopping, Down, Interactive
  <2>9. Sessions!Next
    BY <1>1, <2>8 DEF Sessions!Next, Interactive
  <2> QED BY <2>9 DEF SessionStep
<1> QED BY <1>3, <1>4, <1>5 DEF Client

\* Every step is one of the sessions, or changes nothing that they show.
LEMMA StepRefines == IServe /\ [Next]_allvars => SessionStep
<1> SUFFICES ASSUME IServe, [Next]_allvars PROVE SessionStep
  OBVIOUS
<1>1. CASE Progress
  <2>1. CASE GetAddrInfo \/ BindFails \/ Bind \/ NoAddress \/ ListenOn
    BY <2>1, ListeningRefines
  <2>2. CASE AcceptInvalid \/ EvaluateAborts
    BY <2>2, EndRefines DEF AcceptInvalid, EvaluateAborts
  <2>3. CASE (\E c \in Clients : Accept(c) \/ Chat(c)) \/ Close \/ ChatOver
    BY <2>3, BeginRefines, CloseRefines
  <2>4. CASE Chatting \/ Shutdown
    BY <2>2, <2>4, FillRefines, TakeRefines, ReadEndRefines, TurnRefines, EvaluateRefines,
       WriteRefines, WriteFailsRefines DEF Chatting
  <2> QED BY <1>1, <2>1, <2>2, <2>3, <2>4 DEF Progress
<1>2. CASE AcceptFails \/ WriteKills
  BY <1>2, EndRefines DEF AcceptFails, WriteKills
<1>3. CASE \E c \in Clients : Client(c)
  BY <1>3, ClientRefines
<1>4. CASE UNCHANGED allvars
  <2>1. UNCHANGED <<stream, peer, got, buf, line, out, program, pc, clientfd, had, shutdown, vars>>
    BY <1>4 DEF allvars, riovars, mainvars
  <2> QED BY <2>1, UnseenStep DEF Remaining, Said, Last, Stopping, Down, Interactive
<1> QED BY <1>1, <1>2, <1>3, <1>4 DEF Next

\* Each client of the sequential server, and the user of the interactive program,
\* gets the answers to its own lines, in order, whatever pieces read and write make
\* of them, whoever hangs up or breaks off (calcServer.c, calcInteractive.c, and
\* rio_readlineb and rio_writen of csapp.c).
THEOREM ImplementsSessions == Spec => RefinesSessions
<1>1. Init => IServe
  BY InitServe
<1> QED
  BY <1>1, StepServes, InitSessions, StepRefines, PTL
     DEF Spec, RefinesSessions, Sessions!Spec, SessionStep

-----------------------------------------------------------------------------
(* The unit tests: what tctest counts, and which line a crash is blamed on. *)

Running == tpc \in {"setup", "body", "cleanup"}

\* Where main is, and which ASSERT a crash is blamed on.  A test begins without one.
Blamed ==
  /\ suite \in {"calcTest", "cTests"}
  /\ test \in 1 .. Len(Tests) + 1 /\ at \in Nat \ {0}
  /\ Running => test \in 1 .. Len(Tests) /\ assertline \in LinesOf(test) \cup {-1}

\* Both programs have some tests, each of some statements.
LEMMA SuitesAre ==
  ASSUME NEW prog \in {"calcTest", "cTests"}
  PROVE  /\ Len(TestsOf(prog)) \in Nat
         /\ \A t \in 1 .. Len(TestsOf(prog)) : Len(TestsOf(prog)[t]) \in Nat
<1>1. Len(CalcSuite) = 6 /\ Len(CSuite) = 9
  BY DEF CalcSuite, CSuite
<1>2. Len(TestsOf(prog)) \in Nat
  BY <1>1 DEF TestsOf
<1> QED BY <1>2, SuitesAssumption

LEMMA InitBlamed == MainStarts => Blamed
<1> SUFFICES ASSUME MainStarts PROVE Blamed
  OBVIOUS
<1>1. suite \in {"calcTest", "cTests"} /\ test = 1 /\ at = 1 /\ tpc = "main"
  BY DEF MainStarts, TestInit
<1>2. Len(Tests) \in Nat
  BY <1>1, SuitesAre DEF Tests
<1> QED BY <1>1, <1>2 DEF Blamed, Running

\* A statement of a test has its line among the lines of the test.
LEMMA StatementLine ==
  ASSUME Blamed, Running, NEW kind, Does(kind)
  PROVE  Statement.line \in LinesOf(test)
<1>1. at \in 1 .. Len(Body)
  BY SuitesAre DEF Blamed, Does, Body, Tests
<1> QED BY <1>1 DEF LinesOf, Statement, Body

\* Where the test goes on or ends, and what assertline is then.
LEMMA StepBlamed ==
  ASSUME Blamed, [TestsNext]_testvars
  PROVE  Blamed' /\ (reported' # reported => reported' \in LinesOf(test) \cup {-1})
<1> USE DEF Blamed, Running
<1> DEFINE Told(n) == n \in LinesOf(test) \cup {0}
           Good == Blamed' /\ (reported' # reported => reported' \in LinesOf(test) \cup {-1})
<1>1. suite' = suite => Tests' = Tests /\ (\A t : LinesOf(t)' = LinesOf(t))
  BY DEF Tests, LinesOf
<1>2. Len(Tests) \in Nat
  BY SuitesAre DEF Tests
<1>3. ASSUME suite' = suite, NEW n, Told(n), Running, at' = at \/ at' = at + 1,
             assertline' = IF n = 0 THEN assertline ELSE n,
             tpc' \in {"setup", "body", "cleanup", "main", "killed"},
             \/ test' = test
             \/ tpc' = "main" /\ test' = test + 1,
             reported' = reported \/ reported' = assertline'
      PROVE  Good
  <2>1. assertline' \in LinesOf(test) \cup {-1}
    BY <1>3
  <2>2. test' \in 1 .. Len(Tests) + 1 /\ at' \in Nat \ {0}
    BY <1>2, <1>3
  <2> HIDE DEF Told
  <2> QED BY <1>1, <1>3, <2>1, <2>2
<1>4. Told(0)
  OBVIOUS
<1>5. ASSUME Running, NEW kind, Does(kind) PROVE Told(Statement.line)
  <2> HIDE DEF Blamed, Running
  <2> QED BY <1>5, StatementLine
<1> HIDE DEF Told
<1>6. CASE RunTest
  <2>1. /\ suite' = suite /\ test' = test /\ at' = 1 /\ assertline' = -1 /\ reported' = reported
        /\ tpc' = "setup" /\ test <= Len(Tests)
    BY <1>6 DEF RunTest, Begin, control
  <2> QED BY <1>1, <1>2, <2>1
<1>7. CASE SkipTest
  <2>1. /\ suite' = suite /\ test' = test + 1 /\ at' = at /\ reported' = reported
        /\ tpc' = "main" /\ test <= Len(Tests)
    BY <1>7 DEF SkipTest, NotSelected, control
  <2> QED BY <1>1, <1>2, <2>1
<1>8. CASE EndOfTests
  BY <1>1, <1>8 DEF EndOfTests, Fini, control
<1>9. CASE SetUpFixture
  BY <1>1, <1>9 DEF SetUpFixture, SetUp, control
<1>10. CASE ReturnFromTest
  BY <1>1, <1>10 DEF ReturnFromTest, Returns, control
<1>11. CASE CleanUpFixture
  <2>1. /\ suite' = suite /\ test' = test + 1 /\ at' = at /\ reported' = reported
        /\ tpc' = "main" /\ tpc = "cleanup"
    BY <1>11 DEF CleanUpFixture, Passed, control
  <2> QED BY <1>1, <1>2, <2>1
<1>12. CASE CalcAssert
  <2>1. Does("assert") /\ suite' = suite /\ Running
    BY <1>12 DEF CalcAssert, control, Does
  <2>2. PICK ok \in BOOLEAN : AssertThat(Statement.line, ok)
    BY <1>12 DEF CalcAssert
  <2> QED BY <1>3, <1>5, <2>1, <2>2 DEF AssertThat, Blame, JumpBack
<1>13. CASE CAssert
  <2>1. Does("assert") /\ suite' = suite /\ Running
    BY <1>13 DEF CAssert, control, Does
  <2>2. PICK ok \in BOOLEAN : AssertThat(Statement.line, ok)
    BY <1>13 DEF CAssert
  <2> QED BY <1>3, <1>5, <2>1, <2>2 DEF AssertThat, Blame, JumpBack
<1>14. ASSUME suite' = suite, Running, GoOn PROVE Good
  BY <1>3, <1>4, <1>14 DEF GoOn
<1>15. ASSUME suite' = suite, Running, NEW n, Told(n), FailNow(n) PROVE Good
  BY <1>3, <1>15 DEF FailNow, Blame, JumpBack
<1>16. CASE CCall
  BY <1>14, <1>16 DEF CCall, control, Does
<1>17. CASE ExpectExit
  BY <1>14, <1>17 DEF ExpectExit, Does
<1>18. CASE CExits
  <2>1. suite' = suite /\ Running /\ (GoOn \/ FailNow(0))
    BY <1>18 DEF CExits, Does
  <2> QED BY <1>4, <1>14, <1>15, <2>1
<1>19. CASE Signalled
  <2>1. suite' = suite /\ Running
    BY <1>19 DEF Signalled, Breaks
  <2>2. PICK sig : Raise(sig, LineOf)
    BY <1>19 DEF Signalled
  <2>3. Told(LineOf)
    <3>1. CASE tpc = "body" /\ at <= Len(Body)
      BY <1>5, <2>1, <3>1 DEF LineOf, Does
    <3>2. CASE ~(tpc = "body" /\ at <= Len(Body))
      BY <1>4, <3>2 DEF LineOf
    <3> QED BY <3>1, <3>2
  <2> QED BY <1>3, <2>1, <2>2, <2>3 DEF Raise, Killed, Blame, JumpBack
<1>20. CASE WrongAnswer
  <2>1. Does("assert") /\ suite' = suite /\ Running
    BY <1>20 DEF WrongAnswer, Breaks
  <2>2. AssertThat(Statement.line, FALSE)
    BY <1>20 DEF WrongAnswer
  <2> QED BY <1>3, <1>5, <2>1, <2>2 DEF AssertThat, Blame, JumpBack
<1>21. CASE DoesNotExit
  BY <1>4, <1>15, <1>21 DEF DoesNotExit, Breaks
<1>22. CASE ExitsUnexpected
  <2>1. suite' = suite /\ Running /\ (Does("assert") \/ Does("call")) /\ FailNow(Statement.line)
    BY <1>22 DEF ExitsUnexpected, Breaks
  <2> QED BY <1>5, <1>15, <2>1
<1>23. CASE ExitsStray
  <2>1. suite' = suite /\ Running /\ assertline' = assertline /\ reported' = reported
    BY <1>23 DEF ExitsStray, Breaks
  <2>2. CASE FailNow(0)
    BY <1>4, <1>15, <2>1, <2>2
  <2>3. CASE tpc' = "killed" /\ test' = test /\ at' = at
    BY <1>3, <1>4, <2>1, <2>3
  <2>4. CASE tpc' = "cleanup" /\ test' = test /\ at' = at
    BY <1>3, <1>4, <2>1, <2>4
  <2> QED BY <1>23, <2>2, <2>3, <2>4 DEF ExitsStray
<1>24. CASE UNCHANGED testvars
  BY <1>1, <1>24 DEF testvars, tctestvars
<1> QED BY <1>6, <1>7, <1>8, <1>9, <1>10, <1>11, <1>12, <1>13, <1>16, <1>17, <1>18, <1>19,
           <1>20, <1>21, <1>22, <1>23, <1>24 DEF TestsNext

\* The message of a crash blames an ASSERT of the test that crashed, or none.
THEOREM BlamesItsOwn == TestsSpec => BlamesOwnTest
<1>1. Blamed /\ [TestsNext]_testvars => Blamed'
  BY StepBlamed
<1>2. Blamed /\ [TestsNext]_testvars => [reported' # reported => reported' \in LinesOf(test) \cup {-1}]_testvars
  BY StepBlamed
<1> QED BY <1>1, <1>2, InitBlamed, PTL DEF TestsSpec, BlamesOwnTest

\* The tests that main runs, and how many of them it has begun before test t.
Asked(t) == only \in {0, t}
Before(t) == IF only = 0 THEN t - 1 ELSE IF only < t THEN 1 ELSE 0

\* The mask of a test that has failed is the one it began with: nothing is blocked.
\* The fixture is what the statements so far have left behind.  A test in which
\* something goes wrong is over, and is counted with it.
Counted ==
  /\ blocked = {} /\ env = {}
  /\ only \in 0 .. Len(Tests)
  /\ broken \subseteq 1 .. test - 1 /\ failures = Cardinality(broken)
  /\ executed = Before(IF Running THEN test + 1 ELSE test)
  /\ Running => Asked(test)
  /\ tpc = "setup" => at = 1
  /\ tpc = "body" => at \in 1 .. Len(Body) + 1 /\ objs = LeftBefore(suite, test)[at]
  /\ tpc = "done" => test = Len(Tests) + 1

\* The process is killed by what tctest does not handle only.
Surviving == ~stray => IF tpc = "killed" THEN fatal ELSE Counted

LEMMA InitSurviving == MainStarts => Surviving
<1> SUFFICES ASSUME MainStarts PROVE Surviving
  OBVIOUS
<1>1. /\ suite \in {"calcTest", "cTests"} /\ test = 1 /\ at = 1 /\ tpc = "main" /\ broken = {}
      /\ executed = 0 /\ failures = 0 /\ blocked = {} /\ env = {}
      /\ only \in IF suite = "calcTest" THEN {0} ELSE 0 .. Len(CSuite)
  BY DEF MainStarts, TestInit
<1>2. Len(Tests) \in Nat /\ only \in 0 .. Len(Tests)
  BY <1>1, SuitesAre DEF Tests, TestsOf
<1>3. executed = Before(test)
  BY <1>1, <1>2 DEF Before
<1> QED BY <1>1, <1>2, <1>3, FS_EmptySet DEF Surviving, Counted, Running

\* What a statement leaves behind, by SuitesAssumption, and that the model does what it asks for.
LEMMA StatementHolds ==
  ASSUME Blamed, Counted, NEW kind, Does(kind)
  PROVE  /\ at \in 1 .. Len(Body) /\ Len(Body) \in Nat /\ tpc = "body"
         /\ objs = LeftBefore(suite, test)[at]
         /\ LeftBefore(suite, test)[at + 1] = Leaves(suite, Statement, objs)
         /\ Holds(suite, Statement, objs)
<1>1. tpc = "body" /\ at <= Len(Body) /\ test \in 1 .. Len(Tests) /\ at \in Nat \ {0}
  BY DEF Does, Blamed, Running
<1>2. Len(Body) \in Nat /\ at \in 1 .. Len(Body)
  BY <1>1, SuitesAre DEF Blamed, Body, Tests
<1>3. objs = LeftBefore(suite, test)[at]
  BY <1>1 DEF Counted
<1>4. /\ LeftBefore(suite, test)[at + 1] = Leaves(suite, Body[at], LeftBefore(suite, test)[at])
      /\ Holds(suite, Body[at], LeftBefore(suite, test)[at])
  BY <1>1, <1>2, SuitesAssumption DEF Blamed, Body, Tests
<1> QED BY <1>1, <1>2, <1>3, <1>4 DEF Statement

\* The counters follow the tests, whatever goes wrong in them.
LEMMA StepSurviving ==
  ASSUME Blamed, Surviving, [TestsNext]_testvars
  PROVE  Surviving'
<1> SUFFICES ASSUME ~stray' PROVE IF tpc' = "killed" THEN fatal' ELSE Counted'
  BY DEF Surviving
<1>1. CASE stray
  BY <1>1 DEF TestsNext, RunTest, SkipTest, EndOfTests, SetUpFixture, ReturnFromTest, CleanUpFixture,
       CalcAssert, CAssert, CCall, ExpectExit, CExits, Signalled, WrongAnswer, DoesNotExit,
       ExitsUnexpected, ExitsStray, control, testvars
<1>2. CASE ~stray /\ tpc = "killed"
  BY <1>2 DEF TestsNext, RunTest, SkipTest, EndOfTests, SetUpFixture, ReturnFromTest, CleanUpFixture,
       CalcAssert, CAssert, CCall, ExpectExit, CExits, Signalled, WrongAnswer, DoesNotExit,
       ExitsUnexpected, ExitsStray, Begin, NotSelected, Fini, SetUp, Returns, Passed, Does, Breaks,
       control, testvars, tctestvars, Surviving
<1>3. CASE ~stray /\ tpc # "killed"
  <2> DEFINE Good == IF tpc' = "killed" THEN fatal' ELSE Counted'
  <2>1. /\ Counted /\ Blamed /\ suite \in {"calcTest", "cTests"}
        /\ test \in 1 .. Len(Tests) + 1 /\ at \in Nat \ {0} /\ Len(Tests) \in Nat
        /\ Running => test \in 1 .. Len(Tests)
        /\ only \in 0 .. Len(Tests)
    BY <1>3, SuitesAre DEF Surviving, Blamed, Tests, Counted
  <2>2. suite' = suite => Tests' = Tests
    BY DEF Tests
  <2>3. suite' = suite /\ test' = test =>
          Body' = Body /\ LeftBefore(suite, test)' = LeftBefore(suite, test)
    BY <2>2 DEF Body
  \* A test that goes wrong, here or before: it is counted, and main goes on.
  <2>4. ASSUME suite' = suite, only' = only, Running, broken' = broken \cup {test}, NEW mask, JumpBack(mask)
        PROVE  Good
    <3>1. /\ blocked' = {} /\ env' = {} /\ failures' = failures + 1 /\ tpc' = "main"
          /\ test' = test + 1 /\ executed' = executed
      BY <2>1, <2>4 DEF JumpBack, MaskRestored, Counted
    <3>2. IsFiniteSet(broken) /\ test \notin broken
      <4>1. broken \subseteq 1 .. test - 1 /\ test \in Nat
        BY <2>1 DEF Counted
      <4>2. IsFiniteSet(1 .. test - 1)
        BY <4>1, FS_Interval
      <4>3. IsFiniteSet(broken)
        BY <4>1, <4>2, FS_Subset
      <4> QED BY <4>1, <4>3
    <3>3. failures' = Cardinality(broken')
      <4>1. Cardinality(broken \cup {test}) = Cardinality(broken) + 1
        BY <3>2, FS_AddElement
      <4> QED BY <2>1, <2>4, <3>1, <4>1 DEF Counted
    <3>4. broken' \subseteq 1 .. test' - 1
      BY <2>1, <2>4, <3>1 DEF Counted
    <3>5. executed' = Before(test)'
      BY <2>1, <2>4, <3>1 DEF Counted, Before
    <3> QED BY <2>1, <2>2, <2>4, <3>1, <3>3, <3>4, <3>5 DEF Counted, Running
  \* The test goes on, or is left for its cleanup.
  <2>5. ASSUME suite' = suite, only' = only, Running, broken' = broken, test' = test,
               UNCHANGED <<counters, blocked, env>>,
               \/ tpc' = "cleanup"
               \/ /\ tpc' = "body" /\ at' \in 1 .. Len(Body) + 1
                  /\ objs' = LeftBefore(suite, test)[at']
        PROVE  Good
    <3>1. executed' = Before(test + 1)' /\ Asked(test)' /\ tpc' \in {"body", "cleanup"}
      BY <2>1, <2>5 DEF Counted, Before, Asked, Running, counters
    <3> QED BY <2>1, <2>2, <2>3, <2>5, <3>1 DEF Counted, Running, counters
  <2>6. ASSUME NEW kind, Does(kind), suite' = suite, only' = only, broken' = broken, GoOn,
               objs' = Leaves(suite, Statement, objs)
        PROVE  Good
    <3>1. at + 1 \in 1 .. Len(Body) + 1 /\ objs' = LeftBefore(suite, test)[at + 1] /\ tpc = "body"
      BY <2>1, <2>6, StatementHolds
    <3>2. at' = at + 1 /\ test' = test /\ tpc' = tpc /\ UNCHANGED <<counters, blocked, env>>
      BY <2>6 DEF GoOn
    <3> QED BY <2>5, <2>6, <3>1, <3>2 DEF Running
  <2>7. ASSUME Does("assert"), suite' = suite, only' = only, broken' = broken,
               AssertThat(Statement.line, TRUE), objs' = Leaves(suite, Statement, objs)
        PROVE  Good
    <3>1. at + 1 \in 1 .. Len(Body) + 1 /\ objs' = LeftBefore(suite, test)[at + 1] /\ tpc = "body"
      BY <2>1, <2>7, StatementHolds
    <3>2. at' = at + 1 /\ test' = test /\ tpc' = tpc /\ UNCHANGED <<counters, blocked, env>>
      BY <2>7 DEF AssertThat
    <3> QED BY <2>5, <2>7, <3>1, <3>2 DEF Running
  <2>8. CASE RunTest
    <3>1. /\ suite' = suite /\ only' = only /\ broken' = broken /\ test' = test /\ tpc = "main"
          /\ tpc' = "setup" /\ at' = 1 /\ executed' = executed + 1 /\ failures' = failures
          /\ env' = blocked /\ blocked' = blocked /\ Asked(test)
      BY <2>8 DEF RunTest, Begin, control, Selected, Asked
    <3>2. executed' = Before(test + 1)' /\ Asked(test)'
      BY <2>1, <3>1 DEF Counted, Before, Asked, Running
    <3> QED BY <2>1, <2>2, <3>1, <3>2 DEF Counted, Running
  <2>9. CASE SkipTest
    <3>1. /\ suite' = suite /\ only' = only /\ broken' = broken /\ test' = test + 1 /\ tpc = "main"
          /\ tpc' = "main" /\ executed' = executed /\ failures' = failures
          /\ env' = env /\ blocked' = blocked /\ ~Asked(test)
      BY <2>9 DEF SkipTest, NotSelected, control, counters, Selected, Asked
    <3>2. executed' = Before(test)'
      BY <2>1, <3>1 DEF Counted, Before, Asked, Running
    <3>3. broken \subseteq 1 .. test' - 1
      BY <2>1, <3>1 DEF Counted
    <3> QED BY <2>1, <2>2, <3>1, <3>2, <3>3 DEF Counted, Running
  <2>10. CASE EndOfTests
    <3>1. /\ suite' = suite /\ only' = only /\ broken' = broken /\ test' = test /\ tpc = "main"
          /\ tpc' = "done" /\ UNCHANGED <<counters, blocked, env>> /\ test > Len(Tests)
      BY <2>10 DEF EndOfTests, Fini, control
    <3>2. executed' = Before(test)'
      BY <2>1, <3>1 DEF Counted, Before, Running, counters
    <3>3. test' = Len(Tests) + 1
      BY <2>1, <3>1
    <3> QED BY <2>1, <2>2, <3>1, <3>2, <3>3 DEF Counted, Running, counters
  <2>11. CASE SetUpFixture
    <3>1. /\ suite' = suite /\ only' = only /\ broken' = broken /\ test' = test /\ tpc = "setup"
          /\ tpc' = "body" /\ UNCHANGED <<counters, blocked, env>> /\ at' = at
          /\ objs' = Fixture(suite)
      BY <2>11 DEF SetUpFixture, SetUp, control
    <3>2. at = 1 /\ test \in 1 .. Len(Tests)
      BY <2>1, <3>1 DEF Counted, Running
    <3>3. LeftBefore(suite, test)[1] = Fixture(suite) /\ Len(Body) \in Nat
      BY <2>1, <3>2, SuitesAssumption DEF Tests, Body
    <3>4. at' \in 1 .. Len(Body) + 1 /\ objs' = LeftBefore(suite, test)[at']
      BY <3>1, <3>2, <3>3
    <3> QED BY <2>5, <3>1, <3>4 DEF Running
  <2>12. CASE ReturnFromTest
    BY <2>5, <2>12 DEF ReturnFromTest, Returns, control, Running
  <2>13. CASE CleanUpFixture
    <3>1. /\ suite' = suite /\ only' = only /\ broken' = broken /\ test' = test + 1 /\ tpc = "cleanup"
          /\ tpc' = "main" /\ UNCHANGED <<counters, blocked, env>>
      BY <2>13 DEF CleanUpFixture, Passed, control
    <3>2. executed' = Before(test)'
      BY <2>1, <3>1 DEF Counted, Before, Running, counters
    <3>3. broken \subseteq 1 .. test' - 1
      BY <2>1, <3>1 DEF Counted
    <3> QED BY <2>1, <2>2, <3>1, <3>2, <3>3 DEF Counted, Running, counters
  <2>14. CASE CalcAssert
    <3>1. /\ Does("assert") /\ suite = "calcTest" /\ suite' = suite /\ only' = only /\ broken' = broken
          /\ Statement.kind = "assert"
          /\ objs' = EvalExpr(objs, Statement.call[2]).vars
          /\ AssertThat(Statement.line, EvalExpr(objs, Statement.call[2]).out = Statement.want)
      BY <2>14 DEF CalcAssert, control, Does
    <3>2. EvalExpr(objs, Statement.call[2]).out = Statement.want
      BY <2>1, <3>1, StatementHolds DEF Holds
    <3>3. objs' = Leaves(suite, Statement, objs)
      BY <3>1 DEF Leaves
    <3> QED BY <2>7, <3>1, <3>2, <3>3
  <2>15. CASE CAssert
    <3>1. /\ Does("assert") /\ suite = "cTests" /\ suite' = suite /\ only' = only /\ broken' = broken
          /\ Statement.kind = "assert"
          /\ objs' = CallC(Statement.call, objs).objs
          /\ AssertThat(Statement.line, CallC(Statement.call, objs).st = "ok"
                                        /\ CallC(Statement.call, objs).val \in Statement.want)
      BY <2>15 DEF CAssert, control, Does
    <3>2. CallC(Statement.call, objs).st = "ok" /\ CallC(Statement.call, objs).val \in Statement.want
      BY <2>1, <3>1, StatementHolds DEF Holds
    <3>3. objs' = Leaves(suite, Statement, objs)
      BY <3>1 DEF Leaves
    <3> QED BY <2>7, <3>1, <3>2, <3>3
  <2>16. CASE CCall
    <3>1. /\ Does("call") /\ GoOn /\ suite' = suite /\ only' = only /\ broken' = broken
          /\ Statement.kind = "call" /\ objs' = CallC(Statement.call, objs).objs
      BY <2>16 DEF CCall, control, Does
    <3>2. objs' = Leaves(suite, Statement, objs)
      BY <3>1 DEF Leaves
    <3> QED BY <2>6, <3>1, <3>2
  <2>17. CASE ExpectExit
    <3>1. /\ Does("expect") /\ GoOn /\ suite' = suite /\ only' = only /\ broken' = broken
          /\ Statement.kind = "expect" /\ objs' = objs
      BY <2>17 DEF ExpectExit, Does
    <3>2. objs' = Leaves(suite, Statement, objs)
      BY <3>1 DEF Leaves
    <3> QED BY <2>6, <3>1, <3>2
  <2>18. CASE CExits
    <3>1. /\ Does("exits") /\ suite' = suite /\ only' = only /\ broken' = broken
          /\ Statement.kind = "exits" /\ objs' = objs
          /\ IF CallC(Statement.call, objs).st = "exit" THEN GoOn ELSE FailNow(0)
      BY <2>18 DEF CExits, Does
    <3>2. CallC(Statement.call, objs).st = "exit"
      BY <2>1, <3>1, StatementHolds DEF Holds
    <3>3. objs' = Leaves(suite, Statement, objs)
      BY <3>1 DEF Leaves
    <3> QED BY <2>6, <3>1, <3>2, <3>3
  <2>19. CASE Signalled
    <3>1. suite' = suite /\ only' = only /\ Running /\ broken' = broken \cup {test}
      BY <2>19 DEF Signalled, Breaks, Running
    <3>2. PICK sig \in Signals : Raise(sig, LineOf) /\ fatal' = (sig \notin Caught)
      BY <2>19 DEF Signalled
    <3>3. CASE sig \in Caught
      <4>1. JumpBack(blocked \cup {sig})
        BY <2>1, <3>2, <3>3 DEF Raise, Counted
      <4> QED BY <2>4, <3>1, <4>1
    <3>4. CASE sig \notin Caught
      BY <3>2, <3>4 DEF Raise, Killed
    <3> QED BY <3>3, <3>4
  <2>20. CASE WrongAnswer
    <3>1. suite' = suite /\ only' = only /\ Running /\ broken' = broken \cup {test} /\ JumpBack(blocked)
      BY <2>20 DEF WrongAnswer, Breaks, Running, AssertThat
    <3> QED BY <2>4, <3>1
  <2>21. CASE DoesNotExit
    <3>1. suite' = suite /\ only' = only /\ Running /\ broken' = broken \cup {test} /\ JumpBack(blocked)
      BY <2>21 DEF DoesNotExit, Breaks, Running, FailNow
    <3> QED BY <2>4, <3>1
  <2>22. CASE ExitsUnexpected
    <3>1. suite' = suite /\ only' = only /\ Running /\ broken' = broken \cup {test} /\ JumpBack(blocked)
      BY <2>22 DEF ExitsUnexpected, Breaks, Running, FailNow
    <3> QED BY <2>4, <3>1
  <2>23. CASE ExitsStray
    BY <2>23 DEF ExitsStray
  <2>24. CASE UNCHANGED testvars
    <3>1. UNCHANGED <<tpc, test, at, counters, blocked, env, suite, only, objs, broken, fatal>>
      BY <2>24 DEF testvars, tctestvars
    <3>2. executed' = Before(IF Running THEN test + 1 ELSE test)' /\ (Asked(test)' <=> Asked(test))
      BY <2>1, <3>1 DEF Counted, Before, Asked, Running, counters
    <3> QED BY <1>3, <2>1, <2>2, <2>3, <3>1, <3>2 DEF Counted, Running, counters
  <2> QED BY <2>8, <2>9, <2>10, <2>11, <2>12, <2>13, <2>14, <2>15, <2>16, <2>17, <2>18, <2>19,
             <2>20, <2>21, <2>22, <2>23, <2>24 DEF TestsNext
<1> QED BY <1>1, <1>2, <1>3

\* Every test that was asked for is executed, and exactly those in which something went
\* wrong are counted, however often and wherever that happens and whatever the signals.
THEOREM CountsEveryTest == TestsSpec => []EveryTestCounted
<1>1. MainStarts => Blamed /\ Surviving
  BY InitBlamed, InitSurviving
<1>2. Blamed /\ Surviving /\ [TestsNext]_testvars => (Blamed /\ Surviving)'
  BY StepBlamed, StepSurviving
<1>3. Blamed /\ Surviving => EveryTestCounted
  <2>1. SUFFICES ASSUME Blamed, Surviving, ~stray, tpc = "done"
                 PROVE  executed = (IF only = 0 THEN Len(Tests) ELSE 1) /\ failures = Cardinality(broken)
    BY DEF EveryTestCounted, Surviving
  <2>2. Counted /\ test = Len(Tests) + 1 /\ only \in 0 .. Len(Tests) /\ Len(Tests) \in Nat
    BY <2>1, SuitesAre DEF Surviving, Counted, Blamed, Tests
  <2>3. executed = Before(test)
    BY <2>1, <2>2 DEF Counted, Running
  <2> QED BY <2>2, <2>3 DEF Counted, Before
<1> QED BY <1>1, <1>2, <1>3, PTL DEF TestsSpec
=============================================================================
