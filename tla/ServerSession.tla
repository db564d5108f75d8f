--------------------------- MODULE ServerSession ----------------------------
(***************************************************************************)
(* A connection from end to end: VulcanClient (vulcan_client.cpp), the     *)
(* server's event loop (Server::accept, recv, send and close_connection,   *)
(* server.cpp) and SessionStage, whose handler runs on the pool's threads  *)
(* (session_stage.cpp).                                                    *)
(*                                                                         *)
(* A byte is "x" or "0", the terminator of a message; the sockets are      *)
(* bounded byte streams.  The queue of SessionStage is what StageQueue     *)
(* promises of it: events are taken up in order by some worker.  A client  *)
(* may be killed at any point of its loop; the server then deletes the     *)
(* ConnectionContext whoever still uses it, and a worker may be killed by  *)
(* SIGPIPE, with its process, or meet freed memory.                        *)
(***************************************************************************)
EXTENDS Naturals, Sequences, FiniteSets

CONSTANTS
  Clients,       \* client processes, one connection each
  Workers,       \* service threads of SessionStage's pool
  Loop,          \* the main thread, in event_base_dispatch()
  None,
  BufSize,       \* sizeof(ConnectionContext::buf)
  SockCap,       \* bytes a socket buffers in one direction
  MsgSizes,      \* bytes of a command before its terminator
  ReplySize,     \* bytes of the response before its terminator
  MaxRequests,   \* bound: commands a client sends
  AcceptFaults   \* which errors accept() meets: "early", "event"

ASSUME SessionAssumption ==
  /\ Loop \notin Workers /\ None \notin Workers \cup {Loop} \cup Clients
  /\ BufSize \in Nat \ {0} /\ SockCap \in Nat \ {0} /\ MaxRequests \in Nat
  /\ MsgSizes \subseteq Nat /\ ReplySize \in Nat
  /\ AcceptFaults \subseteq {"early", "event"}

VARIABLES
  cpc,        \* VulcanClient::run(): control point
  out,        \* bytes of the command writen() has yet to write
  sent,       \* commands sent so far
  printed,    \* did the last recv_and_print_msg() see a whole message?
  c2s, s2c,   \* the socket's two directions
  conn,       \* the server's end: "none", "backlog", "open", "closed", "leaked"
  context,    \* the ConnectionContext: "none", "live", "deleted"
  mutex,      \* ConnectionContext::mutex: its holder or None
  listening,  \* server_socket_ is open
  up,         \* the server process runs
  lpc,        \* the event loop: "loop", "lock", "read", "close"
  current,    \* the connection recv() is called for
  data_len,
  pending,    \* SessionStage's queue: the connections of its SessionEvents
  wpc,        \* a worker: "idle", "lock", "write", "freed"
  client,     \* the connection of a worker's SessionEvent
  reply,      \* bytes of the response writen() has yet to write
  live,       \* SessionEvents allocated and not deleted
  stale       \* history: a worker has used a deleted ConnectionContext

clientVars == <<cpc, out, sent, printed>>
sockVars == <<c2s, s2c>>
connVars == <<conn, context, listening, up>>
loopVars == <<lpc, current, data_len>>
workVars == <<wpc, client, reply>>
vars == <<clientVars, sockVars, connVars, mutex, loopVars, pending, workVars, live, stale>>

Byte == {"x", "0"}
Message(n) == [i \in 1 .. n + 1 |-> IF i <= n THEN "x" ELSE "0"]
HasEnd(bytes) == \E i \in DOMAIN bytes : bytes[i] = "0"
Minimum(a, b) == IF a < b THEN a ELSE b
Room(stream) == SockCap - Len(stream)
From(bytes, i) == SubSeq(bytes, i, Len(bytes))

TypeOK ==
  /\ cpc \in [Clients -> {"start", "prompt", "write", "await", "exit", "killed"}]
  /\ out \in [Clients -> Seq(Byte)] /\ sent \in [Clients -> 0 .. MaxRequests]
  /\ printed \in [Clients -> BOOLEAN]
  /\ c2s \in [Clients -> Seq(Byte)] /\ \A c \in Clients : Len(c2s[c]) <= SockCap
  /\ s2c \in [Clients -> Seq(Byte)] /\ \A c \in Clients : Len(s2c[c]) <= SockCap
  /\ conn \in [Clients -> {"none", "backlog", "open", "closed", "leaked"}]
  /\ context \in [Clients -> {"none", "live", "deleted"}]
  /\ mutex \in [Clients -> Workers \cup {Loop, None}]
  /\ listening \in BOOLEAN /\ up \in BOOLEAN
  /\ lpc \in {"loop", "lock", "read", "close"}
  /\ current \in Clients \cup {None} /\ data_len \in 0 .. BufSize
  /\ pending \in Seq(Clients)
  /\ wpc \in [Workers -> {"idle", "lock", "write", "freed"}]
  /\ client \in [Workers -> Clients \cup {None}] /\ reply \in [Workers -> Seq(Byte)]
  /\ live \in [Clients -> Nat] /\ stale \in BOOLEAN

Init ==
  /\ cpc = [c \in Clients |-> "start"]
  /\ out = [c \in Clients |-> <<>>] /\ sent = [c \in Clients |-> 0]
  /\ printed = [c \in Clients |-> TRUE]
  /\ c2s = [c \in Clients |-> <<>>] /\ s2c = [c \in Clients |-> <<>>]
  /\ conn = [c \in Clients |-> "none"] /\ context = [c \in Clients |-> "none"]
  /\ mutex = [c \in Clients |-> None]
  /\ listening = TRUE /\ up = TRUE
  /\ lpc = "loop" /\ current = None /\ data_len = 0
  /\ pending = <<>>
  /\ wpc = [w \in Workers |-> "idle"] /\ client = [w \in Workers |-> None]
  /\ reply = [w \in Workers |-> <<>>]
  /\ live = [c \in Clients |-> 0] /\ stale = FALSE

-----------------------------------------------------------------------------
(* VulcanClient                                                            *)

\* init(): the kernel completes the connection before accept() is called.
ClientConnect(c) ==
  /\ cpc[c] = "start"
  /\ IF up /\ listening
       THEN cpc' = [cpc EXCEPT ![c] = "prompt"] /\ conn' = [conn EXCEPT ![c] = "backlog"]
       ELSE cpc' = [cpc EXCEPT ![c] = "exit"] /\ UNCHANGED conn
  /\ UNCHANGED <<out, sent, printed, sockVars, context, listening, up, mutex, loopVars,
                 pending, workVars, live, stale>>

\* A command of n bytes is read from the console.
ClientCommand(c, n) ==
  /\ cpc[c] = "prompt"
  /\ sent[c] < MaxRequests
  /\ cpc' = [cpc EXCEPT ![c] = "write"]
  /\ out' = [out EXCEPT ![c] = Message(n)]
  /\ sent' = [sent EXCEPT ![c] = @ + 1]
  /\ UNCHANGED <<printed, sockVars, connVars, mutex, loopVars, pending, workVars, live, stale>>

\* writen(): as much as the socket takes.  Once the server's end is closed it
\* fails, or (TCP) the kernel accepts bytes that nobody will read.
ClientWrite(c) ==
  /\ cpc[c] = "write"
  /\ IF conn[c] = "closed"
       THEN /\ \E next \in {"exit", "await"} : cpc' = [cpc EXCEPT ![c] = next]
            /\ out' = [out EXCEPT ![c] = <<>>]
            /\ UNCHANGED c2s
       ELSE LET n == Minimum(Room(c2s[c]), Len(out[c]))
            IN  /\ n > 0
                /\ c2s' = [c2s EXCEPT ![c] = @ \o SubSeq(out[c], 1, n)]
                /\ out' = [out EXCEPT ![c] = From(@, n + 1)]
                /\ cpc' = [cpc EXCEPT ![c] = IF n = Len(out[c]) THEN "await" ELSE "write"]
  /\ UNCHANGED <<sent, printed, s2c, connVars, mutex, loopVars, pending, workVars, live, stale>>

take_reply(c, done) ==
  /\ cpc[c] = "await"
  /\ s2c[c] # <<>>
  /\ s2c' = [s2c EXCEPT ![c] = <<>>]
  /\ cpc' = [cpc EXCEPT ![c] = IF done THEN "prompt" ELSE "await"]
  /\ printed' = [printed EXCEPT ![c] = done]
  /\ UNCHANGED <<out, sent, c2s, connVars, mutex, loopVars, pending, workVars, live, stale>>

\* Variant: any data ends the message.
ClientReceive_first_chunk(c) == take_reply(c, TRUE)

\* recv_and_print_msg(): what follows the terminator is dropped.
ClientReceive(c) == take_reply(c, HasEnd(s2c[c]))

\* The server closed the connection: recv() returns 0, which is no error to
\* recv_and_print_msg(), or fails after a reset, which ends the client.
ClientEof(c) ==
  /\ cpc[c] = "await"
  /\ s2c[c] = <<>> /\ conn[c] = "closed"
  /\ \E next \in {"prompt", "exit"} : cpc' = [cpc EXCEPT ![c] = next]
  /\ printed' = [printed EXCEPT ![c] = FALSE]
  /\ UNCHANGED <<out, sent, sockVars, connVars, mutex, loopVars, pending, workVars, live, stale>>

leave(c, how) ==
  /\ cpc' = [cpc EXCEPT ![c] = how]
  /\ out' = [out EXCEPT ![c] = <<>>]
  /\ UNCHANGED <<sent, printed, sockVars, connVars, mutex, loopVars, pending, workVars,
                 live, stale>>

\* "exit", or the end of the console's input.
ClientExit(c) == cpc[c] = "prompt" /\ leave(c, "exit")

\* The client dies with a command on its way or unanswered.
ClientKilled(c) == cpc[c] \in {"write", "await"} /\ leave(c, "killed")

\* The client's end of the socket is closed.
HungUp(c) == cpc[c] \in {"exit", "killed"}

-----------------------------------------------------------------------------
(* Server: the event loop                                                  *)

AtLoop == up /\ lpc = "loop"

Accept(c) ==
  /\ AtLoop /\ listening
  /\ conn[c] = "backlog"
  /\ conn' = [conn EXCEPT ![c] = "open"]
  /\ context' = [context EXCEPT ![c] = "live"]
  /\ UNCHANGED <<clientVars, sockVars, listening, up, mutex, loopVars, pending,
                 workVars, live, stale>>

\* inet_ntop(), set_non_block() or setsockopt() fails: the socket is closed.
AcceptFailsEarly(c) ==
  /\ AtLoop /\ listening /\ "early" \in AcceptFaults
  /\ conn[c] = "backlog"
  /\ conn' = [conn EXCEPT ![c] = "closed"]
  /\ UNCHANGED <<clientVars, sockVars, context, listening, up, mutex, loopVars,
                 pending, workVars, live, stale>>

\* event_base_set() or event_add() fails: the context is deleted and the
\* listening socket closed, while the client's socket stays open.
AcceptFailsEvent(c) ==
  /\ AtLoop /\ listening /\ "event" \in AcceptFaults
  /\ conn[c] = "backlog"
  /\ conn' = [d \in Clients |-> IF d = c THEN "leaked"
                                ELSE IF conn[d] = "backlog" THEN "closed" ELSE conn[d]]
  /\ context' = [context EXCEPT ![c] = "deleted"]
  /\ listening' = FALSE
  /\ UNCHANGED <<clientVars, sockVars, up, mutex, loopVars, pending, workVars, live, stale>>

\* The read event fires while there is data, or the peer has closed.
Readable(c) == conn[c] = "open" /\ (c2s[c] # <<>> \/ HungUp(c))

\* recv() clears the buffer and asks for the mutex.
RecvBegin(c) ==
  /\ AtLoop /\ Readable(c)
  /\ lpc' = "lock" /\ current' = c /\ data_len' = 0
  /\ UNCHANGED <<clientVars, sockVars, connVars, mutex, pending, workVars, live, stale>>

RecvLock ==
  /\ up /\ lpc = "lock"
  /\ mutex[current] = None
  /\ mutex' = [mutex EXCEPT ![current] = Loop]
  /\ lpc' = "read"
  /\ UNCHANGED <<clientVars, sockVars, connVars, current, data_len, pending, workVars,
                 live, stale>>

\* One read() that returns n bytes.  EAGAIN is retried at once, mutex in
\* hand; the data behind a terminator is discarded.
read_data(n, ended, holder) ==
  /\ up /\ lpc = "read"
  /\ c2s[current] # <<>> /\ data_len < BufSize
  /\ c2s' = [c2s EXCEPT ![current] = From(@, n + 1)]
  /\ IF ended
       THEN /\ mutex' = [mutex EXCEPT ![current] = holder]
            /\ pending' = Append(pending, current)
            /\ live' = [live EXCEPT ![current] = @ + 1]
            /\ lpc' = "loop" /\ current' = None /\ data_len' = 0
       ELSE /\ data_len' = data_len + n
            /\ UNCHANGED <<mutex, pending, live, lpc, current>>
  /\ UNCHANGED <<clientVars, s2c, connVars, workVars, stale>>

Available == Minimum(BufSize - data_len, Len(c2s[current]))
First(n) == SubSeq(c2s[current], 1, n)

\* Variants: what one read() returns is taken for the message; the mutex is
\* not released.
RecvRead_first_chunk == read_data(Available, TRUE, None)
RecvRead_keeps_mutex == read_data(Available, HasEnd(First(Available)), Loop)

RecvRead == read_data(Available, HasEnd(First(Available)), None)

\* read() returns 0: the peer has closed, or the buffer is full.
RecvEnd ==
  /\ up /\ lpc = "read"
  /\ data_len = BufSize \/ (c2s[current] = <<>> /\ HungUp(current))
  /\ mutex' = [mutex EXCEPT ![current] = None]
  /\ lpc' = "close"
  /\ UNCHANGED <<clientVars, sockVars, connVars, current, data_len, pending, workVars,
                 live, stale>>

\* The context is deleted although a SessionEvent may point to it.
close_connection ==
  /\ up /\ lpc = "close"
  /\ conn' = [conn EXCEPT ![current] = "closed"]
  /\ context' = [context EXCEPT ![current] = "deleted"]
  /\ lpc' = "loop" /\ current' = None /\ data_len' = 0
  /\ UNCHANGED <<clientVars, sockVars, listening, up, mutex, pending, workVars, live, stale>>

process_ends ==
  /\ up' = FALSE /\ listening' = FALSE
  /\ conn' = [c \in Clients |-> IF conn[c] = "none" THEN "none" ELSE "closed"]
  /\ UNCHANGED <<clientVars, sockVars, context, mutex, loopVars, pending, workVars, live,
                 stale>>

\* The loop ends (Server::shutdown) and with it the process.
Quit == AtLoop /\ process_ends

-----------------------------------------------------------------------------
(* SessionStage, on a worker                                               *)

take_event(w, rest) ==
  /\ up /\ wpc[w] = "idle" /\ pending # <<>>
  /\ client' = [client EXCEPT ![w] = Head(pending)]
  /\ reply' = [reply EXCEPT ![w] = Message(ReplySize)]
  /\ pending' = rest
  /\ wpc' = [wpc EXCEPT ![w] = "lock"]
  /\ UNCHANGED <<clientVars, sockVars, connVars, mutex, loopVars, live, stale>>

\* Variant: the event is handled twice.
HandleRequest_twice(w) == take_event(w, pending)

\* handle_event() sets the response, which ends with a terminator, and runs
\* the callback in place.
HandleRequest(w) == take_event(w, Tail(pending))

\* callback_event() -> Server::send().
SendLock(w) ==
  /\ up /\ wpc[w] = "lock" /\ context[client[w]] = "live"
  /\ mutex[client[w]] = None
  /\ mutex' = [mutex EXCEPT ![client[w]] = w]
  /\ wpc' = [wpc EXCEPT ![w] = "write"]
  /\ UNCHANGED <<clientVars, sockVars, connVars, loopVars, pending, client, reply, live,
                 stale>>

Sending(w) == up /\ wpc[w] = "write" /\ context[client[w]] = "live"

end_send(w) ==
  /\ mutex' = [mutex EXCEPT ![client[w]] = None]
  /\ client' = [client EXCEPT ![w] = None]
  /\ wpc' = [wpc EXCEPT ![w] = "idle"]

\* One write() of writen(), EAGAIN being retried; after the last one the
\* mutex is released.
SendWrite(w) ==
  LET n == Minimum(Room(s2c[client[w]]), Len(reply[w]))
  IN  /\ Sending(w) /\ ~HungUp(client[w])
      /\ n > 0
      /\ s2c' = [s2c EXCEPT ![client[w]] = @ \o SubSeq(reply[w], 1, n)]
      /\ reply' = [reply EXCEPT ![w] = From(@, n + 1)]
      /\ IF n = Len(reply[w]) THEN end_send(w) ELSE UNCHANGED <<mutex, client, wpc>>
      /\ UNCHANGED <<clientVars, c2s, connVars, loopVars, pending, live, stale>>

\* The peer has closed.  Nothing ignores SIGPIPE, which ends the process; or
\* TCP takes the bytes, or writen() returns an error number, which is not
\* negative and passes for success.
SendToClosed(w) ==
  /\ Sending(w) /\ HungUp(client[w])
  /\ \/ process_ends
     \/ /\ end_send(w)
        /\ reply' = [reply EXCEPT ![w] = <<>>]
        /\ UNCHANGED <<clientVars, sockVars, connVars, loopVars, pending, live, stale>>

\* The context was deleted before the worker locked its mutex, or between
\* two of its writes.
UseDeletedContext(w) ==
  /\ up /\ wpc[w] \in {"lock", "write"} /\ context[client[w]] = "deleted"
  /\ wpc' = [wpc EXCEPT ![w] = "freed"]
  /\ stale' = TRUE
  /\ UNCHANGED <<clientVars, sockVars, connVars, mutex, loopVars, pending, client, reply,
                 live>>

\* What may come of it, besides a worker that hangs in the freed mutex: the
\* process ends, the closed socket refuses the bytes, or the memory and the
\* descriptor belong to another connection by now, which gets them.
DeletedContextUsed(w) ==
  /\ up /\ wpc[w] = "freed"
  /\ \/ process_ends
     \/ /\ client' = [client EXCEPT ![w] = None]
        /\ wpc' = [wpc EXCEPT ![w] = "idle"]
        /\ reply' = [reply EXCEPT ![w] = <<>>]
        /\ UNCHANGED <<clientVars, sockVars, connVars, mutex, loopVars, pending, live, stale>>
     \/ \E d \in Clients :
          /\ conn[d] = "open"
          /\ client' = [client EXCEPT ![w] = d]
          /\ wpc' = [wpc EXCEPT ![w] = "lock"]
          /\ UNCHANGED <<clientVars, sockVars, connVars, mutex, loopVars, pending, reply,
                         live, stale>>

-----------------------------------------------------------------------------
ClientStep(c) == ClientWrite(c) \/ ClientReceive(c) \/ ClientEof(c)
LoopStep ==
  \/ \E c \in Clients : Accept(c) \/ RecvBegin(c)
  \/ RecvLock \/ RecvRead \/ RecvEnd \/ close_connection
WorkerStep(w) ==
  HandleRequest(w) \/ SendLock(w) \/ SendWrite(w) \/ SendToClosed(w) \/ UseDeletedContext(w)

Next ==
  \/ \E c \in Clients :
       \/ ClientConnect(c) \/ ClientStep(c) \/ ClientExit(c) \/ ClientKilled(c)
       \/ \E n \in MsgSizes : ClientCommand(c, n)
       \/ AcceptFailsEarly(c) \/ AcceptFailsEvent(c)
  \/ LoopStep
  \/ Quit
  \/ \E w \in Workers : WorkerStep(w) \/ DeletedContextUsed(w)

Spec == Init /\ [][Next]_vars

\* Processes and threads that can run do run, and the loop gets round to
\* every connection that is ready: libevent serves all active events.
Fairness ==
  /\ \A c \in Clients : WF_vars(ClientStep(c))
  /\ \A c \in Clients : SF_vars(Accept(c)) /\ SF_vars(RecvBegin(c))
  /\ WF_vars(RecvLock) /\ WF_vars(RecvRead) /\ WF_vars(RecvEnd)
  /\ WF_vars(close_connection)
  /\ \A w \in Workers : WF_vars(WorkerStep(w))

FairSpec == Spec /\ Fairness

-----------------------------------------------------------------------------
\* SessionEvents of c that are queued or being handled.
Requests(c) ==
  {i \in DOMAIN pending : pending[i] = c} \cup {w \in Workers : client[w] = c}

(* A SessionEvent refers to its ConnectionContext by a raw pointer, and    *)
(* the loop deletes the context without asking the stage.  Only a client   *)
(* that hangs up before its reply can make it do so under a queued or      *)
(* running SessionEvent, and then only under its own: oversized messages,  *)
(* failing accepts, orderly exits and the other clients' deaths cannot.    *)
(* So, too, no worker has used a deleted context unless a client did.      *)
ContextOutlivesRequests ==
  /\ stale => \E c \in Clients : cpc[c] = "killed"
  /\ ~stale =>
       \A c \in Clients :
         Requests(c) # {} => context[c] = "live" \/ cpc[c] = "killed"

(* The request a worker works on stays in ConnectionContext::buf: recv(),  *)
(* which clears it (server.cpp:87), does not run for the connection before *)
(* the reply is on its way, except on the hang-up of the request's client. *)
(* Nothing is claimed once a worker has used a deleted context.            *)
RequestNotOverwritten ==
  ~stale =>
    \A c \in Clients :
      lpc \in {"lock", "read"} /\ current = c /\ cpc[c] # "killed" =>
        /\ \A i \in DOMAIN pending : pending[i] # c
        /\ \A w \in Workers : client[w] = c => wpc[w] # "lock"

(* One request, one reply: at the prompt, no reply and no request of the   *)
(* client is left anywhere, so the next reply answers the next command,    *)
(* whichever other clients die meanwhile, until a worker has written by a  *)
(* deleted context.                                                        *)
OneRequestOneReply ==
  ~stale =>
    \A c \in Clients :
      cpc[c] = "prompt" /\ conn[c] = "open" =>
        /\ s2c[c] = <<>> /\ c2s[c] = <<>>
        /\ \A i \in DOMAIN pending : pending[i] # c
        /\ \A w \in Workers : client[w] # c

(* A client that awaits a reply gets it, or learns that the connection is  *)
(* gone: although recv() spins on half a message with the loop in its hand *)
(* and other connections wait meanwhile, and although other clients die    *)
(* with half a message sent or half a reply read, which may end the server *)
(* by SIGPIPE.  Left out are the one client whose socket accept() forgot   *)
(* when it closed the listening socket in its stead (server.cpp:230), and  *)
(* a server whose worker has used a deleted context.                       *)
ReplyArrives ==
  \A c \in Clients :
    cpc[c] \in {"write", "await"} ~>
      cpc[c] = "prompt" \/ HungUp(c) \/ conn[c] = "leaked" \/ stale

(* recv_and_print_msg() succeeds only with a whole message.                *)
SuccessMeansMessage == \A c \in Clients : cpc[c] = "prompt" => printed[c]

(* Every SessionEvent is deleted some time after its reply was sent.       *)
EventsAreDeleted ==
  \A c \in Clients : (live[c] > 0) ~> (live[c] = 0 \/ ~up)

=============================================================================
