--------------------------------- MODULE Rio ---------------------------------
(***************************************************************************)
(* The robust I/O of csapp.c on the connection that is being served: how    *)
(* rio_readlineb collects a line out of what read(2) returns in pieces of   *)
(* any length, and rio_writen delivers a reply that write(2) takes in       *)
(* pieces.  A call that returns EINTR is made again and changes nothing.    *)
(***************************************************************************)
EXTENDS Integers, Sequences

CONSTANTS
  Clients,
  Nl,         \* the newline
  BufSize,    \* sizeof(rio_buf)
  LineSize    \* LINEBUF_SIZE, with the byte for the terminating 0

ASSUME RioAssumption == BufSize \in Nat \ {0} /\ LineSize \in Nat \ {0, 1}

VARIABLES
  \* the kernel and the clients
  stream,     \* bytes a client has sent and read(2) has not returned yet
  peer,       \* "away", "open", "eof" or "reset"
  got,        \* bytes written to a client
  \* the server
  buf,        \* the unread part of rio_buf
  line,       \* what rio_readlineb has put into linebuf so far
  out         \* what rio_writen has yet to write

riovars == <<stream, peer, got, buf, line, out>>

ReadInitB == buf' = <<>> /\ line' = <<>> /\ out' = <<>>

\* rio_read, with an empty buffer: read(2) returns bytes, the end, or an error.
Refill(c) ==
  /\ buf = <<>> /\ stream[c] # <<>>
  /\ \E k \in 1 .. Len(stream[c]) :
       /\ k <= BufSize
       /\ buf' = SubSeq(stream[c], 1, k)
       /\ stream' = [stream EXCEPT ![c] = SubSeq(@, k + 1, Len(@))]
  /\ UNCHANGED <<peer, got, line, out>>
ReadsEnd(c) == buf = <<>> /\ stream[c] = <<>> /\ peer[c] = "eof"
ReadsError(c) == buf = <<>> /\ peer[c] = "reset"

\* Seeded fault: a line is not cut at the end of linebuf.
EndsAtNewline(l) == l # <<>> /\ l[Len(l)] = Nl

\* One round of the loop of rio_readlineb, and when it is the last.
TakeByte ==
  /\ buf # <<>>
  /\ line' = Append(line, Head(buf)) /\ buf' = Tail(buf)
  /\ UNCHANGED <<stream, peer, got, out>>
Ends(l) == l # <<>> /\ (l[Len(l)] = Nl \/ Len(l) = LineSize - 1)

\* One round of the loop of rio_writen.
WriteSome(c) ==
  /\ out # <<>> /\ peer[c] # "reset"
  /\ \E k \in 1 .. Len(out) :
       /\ got' = [got EXCEPT ![c] = @ \o SubSeq(out, 1, k)]
       /\ out' = SubSeq(out, k + 1, Len(out))
  /\ UNCHANGED <<stream, peer, buf, line>>

-----------------------------------------------------------------------------
\* The clients: each sends its bytes and may close or lose the connection.

Connect(c, bytes) ==
  /\ peer[c] = "away"
  /\ peer' = [peer EXCEPT ![c] = "open"]
  /\ stream' = [stream EXCEPT ![c] = bytes]
  /\ UNCHANGED <<got, buf, line, out>>
HangUp(c) ==
  /\ peer[c] = "open"
  /\ peer' = [peer EXCEPT ![c] = "eof"]
  /\ UNCHANGED <<stream, got, buf, line, out>>
Reset(c) ==
  /\ peer[c] \in {"open", "eof"}
  /\ peer' = [peer EXCEPT ![c] = "reset"]
  /\ stream' = [stream EXCEPT ![c] = <<>>]
  /\ UNCHANGED <<got, buf, line, out>>
=============================================================================
