---------------------------- MODULE ServerProofs -----------------------------
(***************************************************************************)
(* Connections: for any number of clients and workers and any sizes of     *)
(* messages, socket buffers and the receive buffer, a client's one command *)
(* is in one place, on the wire, in recv(), at the stage, or answered.     *)
(* Because VulcanClient waits for its reply, the server's raw pointers and *)
(* the shared buffer, which no lock protects, are safe until a client is   *)
(* killed with its command unanswered, and then only those of that client  *)
(* are not.  The second part is about the life of the server's processes.  *)
(***************************************************************************)
EXTENDS ServerSession, ServerLifecycle, FiniteSetTheorems, TLAPS

\* Bytes without a terminator, and a message or the rest of one.
Plain(bytes) == \A i \in DOMAIN bytes : bytes[i] = "x"
EndsMessage(bytes) ==
  /\ bytes # <<>> /\ bytes[Len(bytes)] = "0"
  /\ \A i \in 1 .. Len(bytes) - 1 : bytes[i] = "x"

Queued(c, i) == i \in DOMAIN pending /\ pending[i] = c
NoRequest(c) == (\A i \in Nat : ~Queued(c, i)) /\ \A w \in Workers : client[w] # c

-----------------------------------------------------------------------------
(* The invariant *)

\* A connection has one SessionEvent at most.
OneRequest ==
  \A c \in Clients :
    /\ \A i, j \in Nat : Queued(c, i) /\ Queued(c, j) => i = j
    /\ \A w, x \in Workers : client[w] = c /\ client[x] = c => w = x
    /\ \A i \in Nat, w \in Workers : ~(Queued(c, i) /\ client[w] = c)

Serving ==
  \A w \in Workers :
    /\ wpc[w] = "idle" <=> client[w] = None
    /\ wpc[w] # "freed"
    /\ wpc[w] # "idle" => EndsMessage(reply[w])

\* A connection with a SessionEvent is open for as long as the server runs,
\* unless its client was killed.
RequestsLive ==
  \A c \in Clients :
    ~NoRequest(c) =>
      cpc[c] = "killed" \/ (context[c] = "live" /\ (conn[c] = "open" \/ ~up))

\* recv() runs for an open connection without a SessionEvent, or whose
\* client was killed.
Receiving ==
  lpc # "loop" =>
    /\ up => conn[current] = "open" /\ context[current] = "live"
    /\ NoRequest(current) \/ cpc[current] = "killed"

\* Where the command and its reply are while the client awaits.
InTransit(c) == EndsMessage(c2s[c]) /\ s2c[c] = <<>> /\ NoRequest(c)
InService(c) == c2s[c] = <<>> /\ Plain(s2c[c]) /\ ~NoRequest(c)
Answered(c) == c2s[c] = <<>> /\ EndsMessage(s2c[c]) /\ NoRequest(c)

\* What a killed client leaves: part of a command, a command, or a
\* SessionEvent without anything behind it.
Abandoned(c) ==
  c2s[c] # <<>> => NoRequest(c) /\ (Plain(c2s[c]) \/ EndsMessage(c2s[c]))

Phase(c) ==
  /\ cpc[c] \in {"start", "prompt", "exit"} =>
       out[c] = <<>> /\ c2s[c] = <<>> /\ s2c[c] = <<>> /\ NoRequest(c)
  /\ cpc[c] = "write" =>
       EndsMessage(out[c]) /\ Plain(c2s[c]) /\ s2c[c] = <<>> /\ NoRequest(c)
  /\ cpc[c] = "await" => out[c] = <<>> /\ (InTransit(c) \/ InService(c) \/ Answered(c))
  /\ cpc[c] = "killed" => Abandoned(c)

Phases == \A c \in Clients : conn[c] # "closed" => Phase(c)

Unconnected == \A c \in Clients : cpc[c] = "start" => conn[c] = "none"

OpenHasContext == \A c \in Clients : conn[c] = "open" => context[c] = "live"

Healthy ==
  /\ OneRequest /\ Serving /\ RequestsLive /\ Receiving /\ Phases
  /\ Unconnected /\ OpenHasContext

\* The loop and the workers work for some client; this survives the use of
\* a deleted context.
TypeInv ==
  /\ TypeOK
  /\ lpc # "loop" => current \in Clients
  /\ \A w \in Workers : wpc[w] # "idle" => client[w] \in Clients

Inv == TypeInv /\ Healthy

SessionInv ==
  /\ TypeInv
  /\ stale => \E c \in Clients : cpc[c] = "killed"
  /\ ~stale => Healthy

-----------------------------------------------------------------------------
(* Bytes *)

(* A command and a response end with their terminator.                     *)
LEMMA MessageEnds ==
  ASSUME NEW n \in Nat
  PROVE  Message(n) \in Seq(Byte) /\ EndsMessage(Message(n))
<1>1. n + 1 \in Nat \ {0} /\ Message(n) = [i \in 1 .. n + 1 |-> IF i <= n THEN "x" ELSE "0"]
  BY DEF Message
<1>2. Message(n) \in Seq(Byte) /\ Len(Message(n)) = n + 1 BY <1>1 DEF Byte
<1>3. Message(n)[n + 1] = "0" /\ \A i \in 1 .. (n + 1) - 1 : Message(n)[i] = "x" BY <1>1
<1>4. Message(n) # <<>> BY <1>2
<1> QED BY <1>2, <1>3, <1>4 DEF EndsMessage

(* read() and write() split a stream.                                      *)
LEMMA Split ==
  ASSUME NEW m \in Seq(Byte), NEW n \in 0 .. Len(m)
  PROVE  /\ SubSeq(m, 1, n) \in Seq(Byte) /\ Len(SubSeq(m, 1, n)) = n
         /\ From(m, n + 1) \in Seq(Byte) /\ Len(From(m, n + 1)) = Len(m) - n
         /\ \A i \in 1 .. n : SubSeq(m, 1, n)[i] = m[i]
         /\ \A i \in 1 .. Len(m) - n : From(m, n + 1)[i] = m[n + i]
<1>1. n \in Nat /\ Len(m) \in Nat OBVIOUS
<1>2. SubSeq(m, 1, n) \in Seq(Byte) /\ Len(SubSeq(m, 1, n)) = n
      /\ \A i \in 1 .. n : SubSeq(m, 1, n)[i] = m[i]
  BY <1>1
<1>3. \A i \in n + 1 .. Len(m) : m[i] \in Byte BY <1>1
<1>4. From(m, n + 1) = [i \in 1 .. Len(m) - n |-> m[n + i]] BY <1>1 DEF From
<1>5. Len(m) - n \in Nat /\ \A i \in 1 .. Len(m) - n : n + i \in n + 1 .. Len(m) BY <1>1
<1>6. From(m, n + 1) \in Seq(Byte) /\ Len(From(m, n + 1)) = Len(m) - n
  BY <1>3, <1>4, <1>5
<1> QED BY <1>2, <1>4, <1>6

(* Part of a message has no terminator and the rest has; all of it leaves  *)
(* nothing.                                                                *)
LEMMA SplitMessage ==
  ASSUME NEW m \in Seq(Byte), EndsMessage(m), NEW n \in 1 .. Len(m)
  PROVE  /\ n < Len(m) => Plain(SubSeq(m, 1, n)) /\ EndsMessage(From(m, n + 1))
         /\ n = Len(m) => EndsMessage(SubSeq(m, 1, n)) /\ From(m, n + 1) = <<>>
<1>1. n \in Nat /\ n \in 0 .. Len(m) /\ Len(m) \in Nat OBVIOUS
<1> DEFINE a == SubSeq(m, 1, n)
           b == From(m, n + 1)
<1>2. /\ a \in Seq(Byte) /\ Len(a) = n /\ b \in Seq(Byte) /\ Len(b) = Len(m) - n
      /\ \A i \in 1 .. n : a[i] = m[i]
      /\ \A i \in 1 .. Len(m) - n : b[i] = m[n + i]
  BY <1>1, Split
<1> HIDE DEF a, b
<1>3. /\ m[Len(m)] = "0" /\ \A i \in 1 .. Len(m) - 1 : m[i] = "x" BY DEF EndsMessage
<1>4. ASSUME n < Len(m) PROVE Plain(a) /\ EndsMessage(b)
  <2>1. \A i \in 1 .. n : i \in 1 .. Len(m) - 1 BY <1>1, <1>4
  <2>2. Plain(a) BY <1>2, <1>3, <2>1 DEF Plain
  <2>3. Len(b) \in 1 .. Len(m) - n /\ n + Len(b) = Len(m) BY <1>1, <1>2, <1>4
  <2>4. b[Len(b)] = "0" BY <1>2, <1>3, <2>3
  <2>5. \A i \in 1 .. Len(b) - 1 : i \in 1 .. Len(m) - n /\ n + i \in 1 .. Len(m) - 1
    BY <1>1, <1>2, <1>4
  <2>6. b # <<>> BY <1>1, <1>2, <1>4
  <2> QED BY <1>2, <1>3, <2>2, <2>4, <2>5, <2>6 DEF EndsMessage
<1>5. ASSUME n = Len(m) PROVE EndsMessage(a) /\ b = <<>>
  <2>1. b = <<>> BY <1>1, <1>2, <1>5
  <2>2. a # <<>> /\ Len(a) = Len(m) BY <1>1, <1>2, <1>5
  <2>3. \A i \in 1 .. Len(m) : a[i] = m[i] BY <1>2, <1>5
  <2> QED BY <1>1, <1>3, <1>5, <2>1, <2>2, <2>3 DEF EndsMessage
<1> QED BY <1>1, <1>4, <1>5 DEF a, b

(* What is left of bytes without a terminator has none.                    *)
LEMMA SplitPlain ==
  ASSUME NEW m \in Seq(Byte), Plain(m), NEW n \in 0 .. Len(m)
  PROVE  Plain(SubSeq(m, 1, n)) /\ Plain(From(m, n + 1))
<1>1. n \in Nat /\ Len(m) \in Nat OBVIOUS
<1> DEFINE a == SubSeq(m, 1, n)
           b == From(m, n + 1)
<1>2. /\ a \in Seq(Byte) /\ Len(a) = n /\ b \in Seq(Byte) /\ Len(b) = Len(m) - n
      /\ \A i \in 1 .. n : a[i] = m[i]
      /\ \A i \in 1 .. Len(m) - n : b[i] = m[n + i]
  BY Split
<1> HIDE DEF a, b
<1>3. \A i \in 1 .. Len(m) : m[i] = "x" BY DEF Plain
<1>4. Plain(a) BY <1>1, <1>2, <1>3 DEF Plain
<1>5. \A i \in 1 .. Len(m) - n : n + i \in 1 .. Len(m) BY <1>1
<1>6. DOMAIN b = 1 .. Len(m) - n BY <1>2
<1>7. \A i \in 1 .. Len(m) - n : b[i] = "x" BY <1>2, <1>3, <1>5
<1>8. Plain(b) BY <1>6, <1>7 DEF Plain
<1> QED BY <1>4, <1>8 DEF a, b

(* Bytes appended to a stream that has no terminator yet.                  *)
LEMMA Join ==
  ASSUME NEW a \in Seq(Byte), NEW b \in Seq(Byte), Plain(a)
  PROVE  /\ a \o b \in Seq(Byte) /\ Len(a \o b) = Len(a) + Len(b)
         /\ Plain(b) => Plain(a \o b)
         /\ EndsMessage(b) => EndsMessage(a \o b)
<1> DEFINE m == a \o b
<1>1. /\ m \in Seq(Byte) /\ Len(m) = Len(a) + Len(b)
      /\ \A i \in 1 .. Len(a) : m[i] = a[i]
      /\ \A i \in 1 .. Len(b) : m[Len(a) + i] = b[i]
  OBVIOUS
<1>2. Len(a) \in Nat /\ Len(b) \in Nat OBVIOUS
<1> HIDE DEF m
<1>3. \A i \in 1 .. Len(a) : m[i] = "x" BY <1>1 DEF Plain
<1>4. \A i \in 1 .. Len(m) : i \in 1 .. Len(a) \/ \E j \in 1 .. Len(b) : i = Len(a) + j
  <2> SUFFICES ASSUME NEW i \in 1 .. Len(m), i \notin 1 .. Len(a)
               PROVE  \E j \in 1 .. Len(b) : i = Len(a) + j
    OBVIOUS
  <2>1. i - Len(a) \in 1 .. Len(b) /\ i = Len(a) + (i - Len(a)) BY <1>1, <1>2
  <2> QED BY <2>1
<1>5. ASSUME Plain(b) PROVE Plain(m)
  <2>1. \A i \in 1 .. Len(b) : b[i] = "x" BY <1>5 DEF Plain
  <2>2. \A i \in 1 .. Len(m) : m[i] = "x" BY <1>1, <1>3, <1>4, <2>1
  <2> QED BY <1>1, <2>2 DEF Plain
<1>6. ASSUME EndsMessage(b) PROVE EndsMessage(m)
  <2>1. b # <<>> /\ b[Len(b)] = "0" /\ \A i \in 1 .. Len(b) - 1 : b[i] = "x"
    BY <1>6 DEF EndsMessage
  <2>2. Len(b) \in 1 .. Len(b) BY <1>2, <2>1
  <2>3. m[Len(m)] = "0" BY <1>1, <2>1, <2>2
  <2>4. ASSUME NEW i \in 1 .. Len(m) - 1 PROVE m[i] = "x"
    <3>1. CASE i \in 1 .. Len(a) BY <1>3, <3>1
    <3>2. CASE i \notin 1 .. Len(a)
      <4>1. i - Len(a) \in 1 .. Len(b) - 1 /\ i = Len(a) + (i - Len(a)) BY <1>1, <1>2, <3>2
      <4>2. i - Len(a) \in 1 .. Len(b) BY <1>2, <4>1
      <4> QED BY <1>1, <2>1, <4>1, <4>2
    <3> QED BY <3>1, <3>2
  <2>5. m # <<>> BY <1>1, <1>2, <2>2
  <2> QED BY <2>3, <2>4, <2>5 DEF EndsMessage
<1> QED BY <1>1, <1>5, <1>6 DEF m

(* The empty stream has no terminator; a message has one.                  *)
LEMMA Ends ==
  /\ Plain(<<>>) /\ <<>> \in Seq(Byte)
  /\ \A m \in Seq(Byte) : Plain(m) => ~HasEnd(m)
  /\ \A m \in Seq(Byte) : EndsMessage(m) => HasEnd(m) /\ ~Plain(m)
<1>1. Plain(<<>>) /\ <<>> \in Seq(Byte) BY DEF Plain
<1>2. \A m \in Seq(Byte) : Plain(m) => ~HasEnd(m) BY DEF Plain, HasEnd
<1>3. ASSUME NEW m \in Seq(Byte), EndsMessage(m) PROVE HasEnd(m) /\ ~Plain(m)
  <2>1. Len(m) \in DOMAIN m BY <1>3 DEF EndsMessage
  <2> QED BY <1>3, <2>1 DEF EndsMessage, HasEnd, Plain
<1> QED BY <1>1, <1>2, <1>3

(* One write() takes what there is, as far as the socket has room.         *)
LEMMA WriteSize ==
  ASSUME NEW stream \in Seq(Byte), Len(stream) <= SockCap, NEW m \in Seq(Byte),
         NEW n, n = Minimum(Room(stream), Len(m)), n > 0
  PROVE  n \in 1 .. Len(m) /\ Len(stream) + n <= SockCap
<1>1. Len(stream) \in Nat /\ Len(m) \in Nat /\ SockCap \in Nat BY SessionAssumption
<1>2. PICK k \in Nat : k = SockCap - Len(stream) BY <1>1
<1>3. n = IF k < Len(m) THEN k ELSE Len(m) BY <1>2 DEF Minimum, Room
<1>4. n \in Nat /\ n <= Len(m) /\ n <= k BY <1>1, <1>2, <1>3
<1> QED BY <1>1, <1>2, <1>4

-----------------------------------------------------------------------------
(* SessionEvents *)

(* Steps that touch neither the stage's queue nor what its workers handle. *)
LEMMA SameRequests ==
  ASSUME UNCHANGED <<pending, client>>
  PROVE  /\ \A c \in Clients : NoRequest(c)' <=> NoRequest(c)
         /\ OneRequest => OneRequest'
<1>1. \A c, i : Queued(c, i)' <=> Queued(c, i) BY DEF Queued
<1> QED BY <1>1 DEF NoRequest, OneRequest

(* A connection whose streams and SessionEvents stay keeps its phase.      *)
LEMMA SamePhase ==
  ASSUME NEW c \in Clients, Phase(c), NoRequest(c)' <=> NoRequest(c),
         cpc'[c] = cpc[c], out'[c] = out[c], c2s'[c] = c2s[c], s2c'[c] = s2c[c]
  PROVE  Phase(c)'
BY DEF Phase, InTransit, InService, Answered, Abandoned, Plain, EndsMessage

-----------------------------------------------------------------------------
(* Types *)

(* Bytes that a write() moves from a message to a stream, and that a       *)
(* read() takes from one.                                                  *)
LEMMA WriteType ==
  ASSUME NEW stream \in Seq(Byte), Len(stream) <= SockCap, NEW m \in Seq(Byte),
         NEW n, n = Minimum(Room(stream), Len(m)), n > 0
  PROVE  /\ stream \o SubSeq(m, 1, n) \in Seq(Byte)
         /\ Len(stream \o SubSeq(m, 1, n)) <= SockCap
         /\ From(m, n + 1) \in Seq(Byte)
<1>1. n \in 1 .. Len(m) /\ Len(stream) + n <= SockCap BY WriteSize
<1>2. n \in 0 .. Len(m) BY <1>1
<1>3. /\ SubSeq(m, 1, n) \in Seq(Byte) /\ Len(SubSeq(m, 1, n)) = n
      /\ From(m, n + 1) \in Seq(Byte)
  BY <1>2, Split
<1> DEFINE part == SubSeq(m, 1, n)
<1> HIDE DEF part
<1>4. part \in Seq(Byte) /\ Len(part) = n BY <1>3 DEF part
<1>5. stream \o part \in Seq(Byte) /\ Len(stream \o part) = Len(stream) + Len(part) BY <1>4
<1> QED BY <1>1, <1>3, <1>4, <1>5 DEF part

(* Available bytes are at most what the stream holds and the buffer takes. *)
LEMMA ReadSize ==
  ASSUME TypeOK, current \in Clients, c2s[current] # <<>>, data_len < BufSize,
         NEW n, n = Available
  PROVE  n \in 1 .. Len(c2s[current]) /\ data_len + n \in 0 .. BufSize
<1>1. Len(c2s[current]) \in Nat \ {0} /\ data_len \in Nat /\ BufSize \in Nat
  BY SessionAssumption DEF TypeOK
<1>2. PICK k \in Nat : k = BufSize - data_len /\ k > 0 BY <1>1
<1>3. n = IF k < Len(c2s[current]) THEN k ELSE Len(c2s[current])
  BY <1>2 DEF Available, Minimum
<1> QED BY <1>1, <1>2, <1>3

(* A client's step leaves the server's control alone.                      *)
LEMMA ClientTypes ==
  ASSUME TypeInv, NEW c \in Clients,
         \/ ClientConnect(c) \/ ClientStep(c) \/ ClientExit(c) \/ ClientKilled(c)
         \/ \E n \in MsgSizes : ClientCommand(c, n)
  PROVE  TypeInv'
<1> USE DEF TypeInv
<1>1. UNCHANGED <<context, listening, up, mutex, lpc, current, data_len, pending, wpc,
                  client, reply, live, stale>>
  BY DEF ClientConnect, ClientStep, ClientWrite, ClientReceive, take_reply, ClientEof,
         ClientExit, ClientKilled, leave, ClientCommand, connVars, loopVars, workVars
<1>2. SUFFICES /\ cpc' \in [Clients -> {"start", "prompt", "write", "await", "exit", "killed"}]
               /\ out' \in [Clients -> Seq(Byte)] /\ sent' \in [Clients -> 0 .. MaxRequests]
               /\ printed' \in [Clients -> BOOLEAN]
               /\ c2s' \in [Clients -> Seq(Byte)]
               /\ \A d \in Clients : Len(c2s'[d]) <= SockCap
               /\ s2c' \in [Clients -> Seq(Byte)]
               /\ \A d \in Clients : Len(s2c'[d]) <= SockCap
               /\ conn' \in [Clients -> {"none", "backlog", "open", "closed", "leaked"}]
  BY <1>1 DEF TypeOK
<1>3. CASE ClientConnect(c) BY <1>3 DEF ClientConnect, TypeOK, sockVars
<1>4. CASE ClientExit(c) \/ ClientKilled(c)
  <2>1. out' = [out EXCEPT ![c] = <<>>] /\ UNCHANGED <<sent, printed, c2s, s2c, conn>>
        /\ \E how \in {"exit", "killed"} : cpc' = [cpc EXCEPT ![c] = how]
    BY <1>4 DEF ClientExit, ClientKilled, leave, sockVars, connVars
  <2> QED BY <2>1 DEF TypeOK
<1>5. CASE ClientEof(c)
  <2>1. /\ \E next \in {"prompt", "exit"} : cpc' = [cpc EXCEPT ![c] = next]
        /\ printed' = [printed EXCEPT ![c] = FALSE] /\ UNCHANGED <<out, sent, c2s, s2c, conn>>
    BY <1>5 DEF ClientEof, sockVars, connVars
  <2>2. printed' \in [Clients -> BOOLEAN] BY <2>1 DEF TypeOK
  <2>3. cpc' \in [Clients -> {"start", "prompt", "write", "await", "exit", "killed"}]
    BY <2>1 DEF TypeOK
  <2> QED BY <2>1, <2>2, <2>3 DEF TypeOK
<1>6. CASE ClientReceive(c)
  <2>1. /\ s2c' = [s2c EXCEPT ![c] = <<>>]
        /\ cpc' = [cpc EXCEPT ![c] = IF HasEnd(s2c[c]) THEN "prompt" ELSE "await"]
        /\ printed' = [printed EXCEPT ![c] = HasEnd(s2c[c])]
        /\ UNCHANGED <<out, sent, c2s, conn>>
    BY <1>6 DEF ClientReceive, take_reply, connVars
  <2>2. HasEnd(s2c[c]) \in BOOLEAN BY DEF HasEnd
  <2>3. printed' \in [Clients -> BOOLEAN] BY <2>1, <2>2 DEF TypeOK
  <2>4. cpc' \in [Clients -> {"start", "prompt", "write", "await", "exit", "killed"}]
    BY <2>1 DEF TypeOK
  <2>5. s2c' \in [Clients -> Seq(Byte)] BY <2>1, Ends DEF TypeOK
  <2>6. \A d \in Clients : Len(s2c'[d]) <= SockCap BY <2>1, SessionAssumption DEF TypeOK
  <2> QED BY <2>1, <2>3, <2>4, <2>5, <2>6 DEF TypeOK
<1>7. CASE ClientWrite(c)
  <2>1. UNCHANGED <<sent, printed, s2c, conn>> BY <1>7 DEF ClientWrite, connVars
  <2>2. CASE conn[c] = "closed"
    <3>1. /\ \E next \in {"exit", "await"} : cpc' = [cpc EXCEPT ![c] = next]
          /\ out' = [out EXCEPT ![c] = <<>>] /\ UNCHANGED c2s
      BY <1>7, <2>2 DEF ClientWrite
    <3>2. out' \in [Clients -> Seq(Byte)] BY <3>1, Ends DEF TypeOK
    <3>3. cpc' \in [Clients -> {"start", "prompt", "write", "await", "exit", "killed"}]
      BY <3>1 DEF TypeOK
    <3> QED BY <2>1, <3>1, <3>2, <3>3 DEF TypeOK
  <2>3. CASE conn[c] # "closed"
    <3>1. PICK n : n = Minimum(Room(c2s[c]), Len(out[c])) OBVIOUS
    <3> DEFINE joined == c2s[c] \o SubSeq(out[c], 1, n)
               rest == From(out[c], n + 1)
    <3>2. /\ n > 0 /\ c2s' = [c2s EXCEPT ![c] = joined] /\ out' = [out EXCEPT ![c] = rest]
          /\ cpc' = [cpc EXCEPT ![c] = IF n = Len(out[c]) THEN "await" ELSE "write"]
      BY <1>7, <2>3, <3>1 DEF ClientWrite
    <3>3. out[c] \in Seq(Byte) /\ c2s[c] \in Seq(Byte) /\ Len(c2s[c]) <= SockCap BY DEF TypeOK
    <3>4. joined \in Seq(Byte) /\ Len(joined) <= SockCap /\ rest \in Seq(Byte)
      BY <3>1, <3>2, <3>3, WriteType
    <3> HIDE DEF joined, rest
    <3>5. c2s' \in [Clients -> Seq(Byte)] /\ out' \in [Clients -> Seq(Byte)]
      BY <3>2, <3>4 DEF TypeOK
    <3>6. \A d \in Clients : Len(c2s'[d]) <= SockCap BY <3>2, <3>4 DEF TypeOK
    <3>7. cpc' \in [Clients -> {"start", "prompt", "write", "await", "exit", "killed"}]
      BY <3>2 DEF TypeOK
    <3> QED BY <2>1, <3>5, <3>6, <3>7 DEF TypeOK
  <2> QED BY <2>2, <2>3
<1>8. ASSUME NEW n \in MsgSizes, ClientCommand(c, n) PROVE <1>2!1
  <2>1. /\ cpc' = [cpc EXCEPT ![c] = "write"] /\ out' = [out EXCEPT ![c] = Message(n)]
        /\ sent[c] < MaxRequests /\ sent' = [sent EXCEPT ![c] = @ + 1]
        /\ UNCHANGED <<c2s, s2c, printed, conn>>
    BY <1>8 DEF ClientCommand, sockVars, connVars
  <2>2. Message(n) \in Seq(Byte) BY MessageEnds, SessionAssumption
  <2>3. out' \in [Clients -> Seq(Byte)] BY <2>1, <2>2 DEF TypeOK
  <2>4. sent' \in [Clients -> 0 .. MaxRequests] BY <2>1, SessionAssumption DEF TypeOK
  <2> QED BY <2>1, <2>3, <2>4 DEF TypeOK
<1> QED BY <1>3, <1>4, <1>5, <1>6, <1>7, <1>8 DEF ClientStep

(* The loop's step.                                                        *)
LEMMA LoopTypes ==
  ASSUME TypeInv,
         LoopStep \/ Quit \/ \E c \in Clients : AcceptFailsEarly(c) \/ AcceptFailsEvent(c)
  PROVE  TypeInv'
<1> USE DEF TypeInv
<1>1. UNCHANGED <<cpc, out, sent, printed, s2c, wpc, client, reply, stale>>
  BY DEF LoopStep, Accept, AcceptFailsEarly, AcceptFailsEvent, RecvBegin, RecvLock, RecvRead,
         read_data, RecvEnd, close_connection, Quit, process_ends, clientVars, sockVars, workVars
<1>2. SUFFICES /\ c2s' \in [Clients -> Seq(Byte)]
               /\ \A d \in Clients : Len(c2s'[d]) <= SockCap
               /\ conn' \in [Clients -> {"none", "backlog", "open", "closed", "leaked"}]
               /\ context' \in [Clients -> {"none", "live", "deleted"}]
               /\ mutex' \in [Clients -> Workers \cup {Loop, None}]
               /\ listening' \in BOOLEAN /\ up' \in BOOLEAN
               /\ lpc' \in {"loop", "lock", "read", "close"}
               /\ current' \in Clients \cup {None} /\ (lpc' # "loop" => current' \in Clients)
               /\ data_len' \in 0 .. BufSize
               /\ pending' \in Seq(Clients) /\ live' \in [Clients -> Nat]
  BY <1>1 DEF TypeOK
<1>3. 0 \in 0 .. BufSize BY SessionAssumption
<1>4. CASE \E c \in Clients : Accept(c) \/ AcceptFailsEarly(c) \/ AcceptFailsEvent(c)
  <2>1. PICK c \in Clients : Accept(c) \/ AcceptFailsEarly(c) \/ AcceptFailsEvent(c) BY <1>4
  <2>2. UNCHANGED <<c2s, up, mutex, lpc, current, data_len, pending, live>>
    BY <2>1 DEF Accept, AcceptFailsEarly, AcceptFailsEvent, sockVars, loopVars
  <2>3. CASE Accept(c) BY <2>2, <2>3 DEF Accept, TypeOK
  <2>4. CASE AcceptFailsEarly(c) BY <2>2, <2>4 DEF AcceptFailsEarly, TypeOK
  <2>5. CASE AcceptFailsEvent(c) BY <2>2, <2>5 DEF AcceptFailsEvent, TypeOK
  <2> QED BY <2>1, <2>3, <2>4, <2>5
<1>5. CASE \E c \in Clients : RecvBegin(c)
  BY <1>3, <1>5 DEF RecvBegin, TypeOK, sockVars, connVars
<1>6. CASE RecvLock \/ RecvEnd
  <2>1. /\ UNCHANGED <<c2s, conn, context, listening, up, current, data_len, pending, live>>
        /\ lpc # "loop" /\ lpc' \in {"read", "close"}
        /\ mutex' = [mutex EXCEPT ![current] = Loop] \/ mutex' = [mutex EXCEPT ![current] = None]
    BY <1>6 DEF RecvLock, RecvEnd, sockVars, connVars
  <2>2. mutex' \in [Clients -> Workers \cup {Loop, None}] BY <2>1 DEF TypeOK
  <2> QED BY <2>1, <2>2 DEF TypeOK
<1>7. CASE close_connection
  BY <1>3, <1>7 DEF close_connection, TypeOK, sockVars
<1>8. CASE Quit
  BY <1>8 DEF Quit, AtLoop, process_ends, TypeOK, sockVars, loopVars
<1>9. CASE RecvRead
  <2>1. PICK n : n = Available OBVIOUS
  <2>2. PICK c \in Clients : c = current BY <1>9 DEF RecvRead, read_data
  <2> DEFINE rest == From(c2s[c], n + 1)
  <2>3. /\ c2s[c] # <<>> /\ data_len < BufSize /\ c2s' = [c2s EXCEPT ![c] = rest]
        /\ UNCHANGED <<conn, context, listening, up>> /\ lpc = "read"
        /\ \/ /\ mutex' = [mutex EXCEPT ![c] = None] /\ pending' = Append(pending, c)
              /\ live' = [live EXCEPT ![c] = @ + 1]
              /\ lpc' = "loop" /\ current' = None /\ data_len' = 0
           \/ /\ data_len' = data_len + n
              /\ UNCHANGED <<mutex, pending, live, lpc, current>>
    BY <1>9, <2>1, <2>2 DEF RecvRead, read_data, connVars
  <2>4. n \in 1 .. Len(c2s[c]) /\ data_len + n \in 0 .. BufSize
    BY <2>1, <2>2, <2>3, ReadSize
  <2>5. c2s[c] \in Seq(Byte) /\ Len(c2s[c]) <= SockCap BY DEF TypeOK
  <2>6. n \in 0 .. Len(c2s[c]) BY <2>4
  <2>7. rest \in Seq(Byte) /\ Len(rest) = Len(c2s[c]) - n BY <2>5, <2>6, Split
  <2> HIDE DEF rest
  <2>8. Len(rest) <= SockCap
    <3>1. Len(c2s[c]) \in Nat /\ n \in Nat /\ SockCap \in Nat BY <2>5, <2>6, SessionAssumption
    <3> QED BY <2>5, <2>7, <3>1
  <2>9. c2s' \in [Clients -> Seq(Byte)] /\ \A d \in Clients : Len(c2s'[d]) <= SockCap
    BY <2>3, <2>7, <2>8 DEF TypeOK
  <2>10. CASE lpc' = "loop"
    <3>1. /\ mutex' = [mutex EXCEPT ![c] = None] /\ pending' = Append(pending, c)
          /\ live' = [live EXCEPT ![c] = @ + 1] /\ current' = None /\ data_len' = 0
      BY <2>3, <2>10
    <3>2. live' \in [Clients -> Nat] /\ mutex' \in [Clients -> Workers \cup {Loop, None}]
      BY <3>1 DEF TypeOK
    <3>3. pending' \in Seq(Clients) BY <3>1 DEF TypeOK
    <3> QED BY <1>3, <2>3, <2>9, <2>10, <3>1, <3>2, <3>3 DEF TypeOK
  <2>11. CASE lpc' # "loop" BY <2>2, <2>3, <2>4, <2>9, <2>11 DEF TypeOK
  <2> QED BY <2>10, <2>11
<1> QED BY <1>4, <1>5, <1>6, <1>7, <1>8, <1>9 DEF LoopStep

(* A worker's step, whatever memory it works on.                           *)
LEMMA WorkerTypes ==
  ASSUME TypeInv, NEW w \in Workers, WorkerStep(w) \/ DeletedContextUsed(w)
  PROVE  TypeInv'
<1> USE DEF TypeInv
<1>1. UNCHANGED <<cpc, out, sent, printed, c2s, context, lpc, current, data_len, live>>
  BY DEF WorkerStep, HandleRequest, take_event, SendLock, SendWrite, SendToClosed, end_send,
         process_ends, UseDeletedContext, DeletedContextUsed, clientVars, sockVars, connVars,
         loopVars
<1> DEFINE Rest == /\ s2c' \in [Clients -> Seq(Byte)]
                   /\ \A d \in Clients : Len(s2c'[d]) <= SockCap
                   /\ conn' \in [Clients -> {"none", "backlog", "open", "closed", "leaked"}]
                   /\ mutex' \in [Clients -> Workers \cup {Loop, None}]
                   /\ listening' \in BOOLEAN /\ up' \in BOOLEAN /\ pending' \in Seq(Clients)
                   /\ wpc' \in [Workers -> {"idle", "lock", "write", "freed"}]
                   /\ client' \in [Workers -> Clients \cup {None}]
                   /\ reply' \in [Workers -> Seq(Byte)] /\ stale' \in BOOLEAN
                   /\ \A x \in Workers : wpc'[x] # "idle" => client'[x] \in Clients
<1>2. SUFFICES Rest BY <1>1 DEF TypeOK
<1>3. CASE HandleRequest(w)
  <2>1. /\ pending # <<>> /\ pending' = Tail(pending)
        /\ client' = [client EXCEPT ![w] = Head(pending)]
        /\ reply' = [reply EXCEPT ![w] = Message(ReplySize)]
        /\ wpc' = [wpc EXCEPT ![w] = "lock"]
        /\ UNCHANGED <<s2c, conn, listening, up, mutex, stale>>
    BY <1>3 DEF HandleRequest, take_event, sockVars, connVars
  <2>2. pending' \in Seq(Clients) /\ Head(pending) \in Clients BY <2>1 DEF TypeOK
  <2>3. Message(ReplySize) \in Seq(Byte) BY MessageEnds, SessionAssumption
  <2>4. client' \in [Workers -> Clients \cup {None}] /\ reply' \in [Workers -> Seq(Byte)]
    BY <2>1, <2>2, <2>3 DEF TypeOK
  <2>5. \A x \in Workers : wpc'[x] # "idle" => client'[x] \in Clients
    BY <2>1, <2>2 DEF TypeOK
  <2> QED BY <2>1, <2>2, <2>4, <2>5 DEF TypeOK
<1>4. CASE SendLock(w)
  <2>1. /\ mutex' = [mutex EXCEPT ![client[w]] = w] /\ wpc' = [wpc EXCEPT ![w] = "write"]
        /\ wpc[w] = "lock"
        /\ UNCHANGED <<s2c, conn, listening, up, pending, client, reply, stale>>
    BY <1>4 DEF SendLock, sockVars, connVars
  <2>2. mutex' \in [Clients -> Workers \cup {Loop, None}] BY <2>1 DEF TypeOK
  <2> QED BY <2>1, <2>2 DEF TypeOK
<1>5. ASSUME process_ends PROVE Rest
  BY <1>5 DEF process_ends, TypeOK, sockVars, workVars
<1>6. ASSUME end_send(w), client[w] \in Clients
      PROVE  /\ mutex' \in [Clients -> Workers \cup {Loop, None}]
             /\ client' \in [Workers -> Clients \cup {None}]
             /\ wpc' \in [Workers -> {"idle", "lock", "write", "freed"}]
             /\ \A x \in Workers : wpc'[x] # "idle" => client'[x] \in Clients
  BY <1>6 DEF end_send, TypeOK
<1>7. CASE SendToClosed(w)
  <2>1. client[w] \in Clients BY <1>7 DEF SendToClosed, Sending
  <2>2. CASE ~process_ends
    <3>1. /\ end_send(w) /\ reply' = [reply EXCEPT ![w] = <<>>]
          /\ UNCHANGED <<s2c, conn, listening, up, pending, stale>>
      BY <1>7, <2>2 DEF SendToClosed, sockVars, connVars
    <3>2. reply' \in [Workers -> Seq(Byte)] BY <3>1, Ends DEF TypeOK
    <3> QED BY <1>6, <2>1, <3>1, <3>2 DEF TypeOK
  <2> QED BY <1>5, <2>2
<1>8. CASE UseDeletedContext(w)
  BY <1>8 DEF UseDeletedContext, TypeOK, sockVars, connVars
<1>9. CASE DeletedContextUsed(w)
  <2>1. CASE \E d \in Clients : /\ client' = [client EXCEPT ![w] = d]
                                /\ wpc' = [wpc EXCEPT ![w] = "lock"]
                                /\ UNCHANGED <<s2c, conn, listening, up, mutex, pending, reply, stale>>
    BY <2>1 DEF TypeOK
  <2>2. CASE /\ client' = [client EXCEPT ![w] = None] /\ wpc' = [wpc EXCEPT ![w] = "idle"]
             /\ reply' = [reply EXCEPT ![w] = <<>>]
             /\ UNCHANGED <<s2c, conn, listening, up, mutex, pending, stale>>
    <3>1. reply' \in [Workers -> Seq(Byte)] BY <2>2, Ends DEF TypeOK
    <3> QED BY <2>2, <3>1 DEF TypeOK
  <2> QED BY <1>5, <1>9, <2>1, <2>2 DEF DeletedContextUsed, sockVars, connVars
<1>10. CASE SendWrite(w)
  <2>1. PICK n : n = Minimum(Room(s2c[client[w]]), Len(reply[w])) OBVIOUS
  <2>2. PICK c \in Clients : c = client[w] BY <1>10 DEF SendWrite, Sending
  <2> DEFINE joined == s2c[c] \o SubSeq(reply[w], 1, n)
             rest == From(reply[w], n + 1)
  <2>3. /\ n > 0 /\ s2c' = [s2c EXCEPT ![c] = joined] /\ reply' = [reply EXCEPT ![w] = rest]
        /\ end_send(w) \/ UNCHANGED <<mutex, client, wpc>>
        /\ UNCHANGED <<conn, listening, up, pending, stale>>
    BY <1>10, <2>1, <2>2 DEF SendWrite, connVars
  <2>4. reply[w] \in Seq(Byte) /\ s2c[c] \in Seq(Byte) /\ Len(s2c[c]) <= SockCap BY DEF TypeOK
  <2>5. joined \in Seq(Byte) /\ Len(joined) <= SockCap /\ rest \in Seq(Byte)
    BY <2>1, <2>2, <2>3, <2>4, WriteType
  <2> HIDE DEF joined, rest
  <2>6. s2c' \in [Clients -> Seq(Byte)] /\ reply' \in [Workers -> Seq(Byte)]
    BY <2>3, <2>5 DEF TypeOK
  <2>7. \A d \in Clients : Len(s2c'[d]) <= SockCap BY <2>3, <2>5 DEF TypeOK
  <2>8. CASE end_send(w) BY <1>6, <2>2, <2>3, <2>6, <2>7, <2>8 DEF TypeOK
  <2>9. CASE UNCHANGED <<mutex, client, wpc>> BY <2>3, <2>6, <2>7, <2>9 DEF TypeOK
  <2> QED BY <2>3, <2>8, <2>9
<1> QED BY <1>3, <1>4, <1>7, <1>8, <1>9, <1>10 DEF WorkerStep

(* Every step keeps the types.                                             *)
LEMMA TypeInvStep == TypeInv /\ [Next]_vars => TypeInv'
<1> SUFFICES ASSUME TypeInv, [Next]_vars PROVE TypeInv' OBVIOUS
<1>1. CASE UNCHANGED vars
  BY <1>1 DEF TypeInv, TypeOK, vars, clientVars, sockVars, connVars, loopVars, workVars
<1>2. CASE Next BY <1>2, ClientTypes, LoopTypes, WorkerTypes DEF Next
<1> QED BY <1>1, <1>2

-----------------------------------------------------------------------------
(* VulcanClient *)

(* What the client's steps leave alone.                                    *)
LEMMA ClientFrame ==
  ASSUME Inv, UNCHANGED <<context, listening, up, mutex, loopVars, pending, workVars, live>>,
         NEW c \in Clients, cpc[c] # "killed",
         \A d \in Clients : d # c => /\ cpc'[d] = cpc[d] /\ out'[d] = out[d]
                                     /\ c2s'[d] = c2s[d] /\ s2c'[d] = s2c[d],
         \A d \in Clients :
           conn'[d] = conn[d] \/ (d = c /\ conn[d] = "none" /\ conn'[d] = "backlog"),
         cpc'[c] # "start", conn'[c] # "closed" => Phase(c)'
  PROVE  Healthy'
<1> USE DEF Inv, TypeInv, Healthy
<1>1. UNCHANGED <<pending, client, wpc, reply, context, up, lpc, current>>
  BY DEF loopVars, workVars
<1>2. (\A d \in Clients : NoRequest(d)' <=> NoRequest(d)) /\ OneRequest'
  BY <1>1, SameRequests
<1>3. Serving' BY <1>1 DEF Serving, EndsMessage
<1>a. \A d \in Clients : cpc[d] = "killed" => cpc'[d] = "killed" OBVIOUS
<1>4. RequestsLive' BY <1>1, <1>2, <1>a DEF RequestsLive
<1>5. Receiving'
  <2> SUFFICES ASSUME lpc # "loop"
               PROVE  /\ up => conn'[current] = "open" /\ context[current] = "live"
                      /\ NoRequest(current)' \/ cpc'[current] = "killed"
    BY <1>1 DEF Receiving
  <2>1. PICK d \in Clients : d = current OBVIOUS
  <2>2. /\ up => conn[d] = "open" /\ context[d] = "live"
        /\ NoRequest(d) \/ cpc[d] = "killed"
    BY <2>1 DEF Receiving
  <2>3. (up => conn'[d] = "open") /\ (NoRequest(d)' \/ cpc'[d] = "killed")
    BY <1>2, <1>a, <2>2
  <2>4. d = current' BY <1>1, <2>1
  <2> QED BY <2>1, <2>2, <2>3, <2>4
<1>6. Phases'
  <2> SUFFICES ASSUME NEW d \in Clients, conn'[d] # "closed" PROVE Phase(d)' BY DEF Phases
  <2>1. CASE d = c BY <2>1
  <2>2. CASE d # c
    <3>1. conn[d] # "closed" BY <2>2
    <3>2. Phase(d) BY <3>1 DEF Phases
    <3> QED BY <1>2, <2>2, <3>2, SamePhase
  <2> QED BY <2>1, <2>2
<1>7. Unconnected' BY DEF Unconnected
<1>8. OpenHasContext' BY <1>1 DEF OpenHasContext
<1> QED BY <1>2, <1>3, <1>4, <1>5, <1>6, <1>7, <1>8

(* connect(): the kernel completes the connection, or the client gives up. *)
LEMMA ClientConnectStep ==
  ASSUME Inv, NEW c \in Clients, ClientConnect(c)
  PROVE  Healthy'
<1> USE DEF Inv, TypeInv, Healthy
<1>1. /\ cpc[c] = "start" /\ conn[c] = "none"
      /\ UNCHANGED <<out, c2s, s2c, sent, printed>>
      /\ UNCHANGED <<context, listening, up, mutex, loopVars, pending, workVars, live>>
  BY DEF ClientConnect, Unconnected, sockVars
<1>2. \/ /\ cpc' = [cpc EXCEPT ![c] = "prompt"] /\ conn' = [conn EXCEPT ![c] = "backlog"]
      \/ cpc' = [cpc EXCEPT ![c] = "exit"] /\ conn' = conn
  BY DEF ClientConnect
<1>4. /\ cpc'[c] \in {"prompt", "exit"}
      /\ \A d \in Clients : d # c => cpc'[d] = cpc[d]
      /\ \A d \in Clients :
           conn'[d] = conn[d] \/ (d = c /\ conn[d] = "none" /\ conn'[d] = "backlog")
  BY <1>1, <1>2 DEF TypeOK
<1>5. NoRequest(c)' <=> NoRequest(c) BY <1>1, SameRequests DEF workVars
<1>6. Phase(c)' BY <1>1, <1>4, <1>5 DEF Phases, Phase
<1> QED BY <1>1, <1>4, <1>6, ClientFrame

(* "exit" at the prompt, and a death with the command on its way or        *)
(* unanswered.                                                             *)
LEMMA ClientLeaveStep ==
  ASSUME Inv, NEW c \in Clients, ClientExit(c) \/ ClientKilled(c)
  PROVE  Healthy'
<1> USE DEF Inv, TypeInv, Healthy
<1>1. /\ out' = [out EXCEPT ![c] = <<>>]
      /\ UNCHANGED <<c2s, s2c, sent, printed, conn>>
      /\ UNCHANGED <<context, listening, up, mutex, loopVars, pending, workVars, live>>
      /\ \/ cpc[c] = "prompt" /\ cpc' = [cpc EXCEPT ![c] = "exit"]
         \/ cpc[c] \in {"write", "await"} /\ cpc' = [cpc EXCEPT ![c] = "killed"]
  BY DEF ClientExit, ClientKilled, leave, sockVars, connVars
<1>2. /\ out'[c] = <<>> /\ cpc'[c] # "start" /\ cpc[c] # "killed"
      /\ \/ cpc[c] = "prompt" /\ cpc'[c] = "exit"
         \/ cpc[c] \in {"write", "await"} /\ cpc'[c] = "killed"
      /\ \A d \in Clients : d # c => cpc'[d] = cpc[d] /\ out'[d] = out[d]
  BY <1>1 DEF TypeOK
<1>3. NoRequest(c)' <=> NoRequest(c) BY <1>1, SameRequests DEF workVars
<1>4. (Plain(c2s[c])' <=> Plain(c2s[c])) /\ (EndsMessage(c2s[c])' <=> EndsMessage(c2s[c]))
  BY <1>1 DEF Plain, EndsMessage
<1>5. ASSUME conn[c] # "closed" PROVE Phase(c)'
  <2>1. Phase(c) BY <1>5 DEF Phases
  <2>2. CASE cpc[c] = "prompt" BY <1>1, <1>2, <1>3, <2>1, <2>2 DEF Phase
  <2>3. CASE cpc[c] \in {"write", "await"}
    <3>1. Abandoned(c) BY <2>1, <2>3 DEF Phase, Abandoned, InTransit, InService, Answered
    <3>2. Abandoned(c)' BY <1>1, <1>3, <1>4, <3>1 DEF Abandoned
    <3> QED BY <1>2, <2>3, <3>2 DEF Phase
  <2> QED BY <1>2, <2>2, <2>3
<1> QED BY <1>1, <1>2, <1>5, ClientFrame

(* recv() returns 0 or fails once the server has closed the connection.    *)
LEMMA ClientEofStep ==
  ASSUME Inv, NEW c \in Clients, ClientEof(c)
  PROVE  Healthy'
<1> USE DEF Inv, TypeInv, Healthy
<1>1. /\ conn[c] = "closed" /\ cpc[c] = "await"
      /\ \E next \in {"prompt", "exit"} : cpc' = [cpc EXCEPT ![c] = next]
      /\ printed' = [printed EXCEPT ![c] = FALSE]
      /\ UNCHANGED <<out, c2s, s2c, sent, conn>>
      /\ UNCHANGED <<context, listening, up, mutex, loopVars, pending, workVars, live>>
  BY DEF ClientEof, sockVars, connVars
<1>3. cpc'[c] # "start" /\ \A d \in Clients : d # c => cpc'[d] = cpc[d] BY <1>1 DEF TypeOK
<1> QED BY <1>1, <1>3, ClientFrame

(* A command is read: the message is written from now on.                  *)
LEMMA ClientCommandStep ==
  ASSUME Inv, NEW c \in Clients, NEW n \in MsgSizes, ClientCommand(c, n)
  PROVE  Healthy'
<1> USE DEF Inv, TypeInv, Healthy
<1>1. /\ cpc[c] = "prompt" /\ cpc' = [cpc EXCEPT ![c] = "write"]
      /\ out' = [out EXCEPT ![c] = Message(n)]
      /\ sent[c] < MaxRequests /\ sent' = [sent EXCEPT ![c] = @ + 1]
      /\ UNCHANGED <<c2s, s2c, printed, conn>>
      /\ UNCHANGED <<context, listening, up, mutex, loopVars, pending, workVars, live>>
  BY DEF ClientCommand, sockVars, connVars
<1>2. Message(n) \in Seq(Byte) /\ EndsMessage(Message(n))
  BY MessageEnds, SessionAssumption
<1>3. /\ cpc'[c] = "write" /\ out'[c] = Message(n)
      /\ \A d \in Clients : d # c => cpc'[d] = cpc[d] /\ out'[d] = out[d]
  BY <1>1 DEF TypeOK
<1>7. NoRequest(c)' <=> NoRequest(c) BY <1>1, SameRequests DEF workVars
<1>8. conn'[c] # "closed" => Phase(c)'
  <2> SUFFICES ASSUME conn[c] # "closed" PROVE Phase(c)' BY <1>1
  <2>1. c2s[c] = <<>> /\ s2c[c] = <<>> /\ NoRequest(c) BY <1>1 DEF Phases, Phase
  <2>2. EndsMessage(out[c])' /\ Plain(c2s[c])'
    BY <1>1, <1>2, <1>3, <2>1 DEF EndsMessage, Plain
  <2> QED BY <1>1, <1>3, <1>7, <2>1, <2>2 DEF Phase
<1> QED BY <1>1, <1>3, <1>8, ClientFrame

(* writen(): part of the message, or the rest of it, goes on the wire.     *)
LEMMA ClientWriteStep ==
  ASSUME Inv, NEW c \in Clients, ClientWrite(c)
  PROVE  Healthy'
<1> USE DEF Inv, TypeInv, Healthy
<1>1. /\ cpc[c] = "write"
      /\ UNCHANGED <<s2c, sent, printed, conn>>
      /\ UNCHANGED <<context, listening, up, mutex, loopVars, pending, workVars, live>>
  BY DEF ClientWrite, connVars
<1>2. NoRequest(c)' <=> NoRequest(c) BY <1>1, SameRequests DEF workVars
<1>3. CASE conn[c] = "closed"
  <2>1. /\ \E next \in {"exit", "await"} : cpc' = [cpc EXCEPT ![c] = next]
        /\ out' = [out EXCEPT ![c] = <<>>] /\ UNCHANGED c2s
    BY <1>3 DEF ClientWrite
  <2>3. cpc'[c] # "start" /\ \A d \in Clients : d # c => cpc'[d] = cpc[d] /\ out'[d] = out[d]
    BY <2>1 DEF TypeOK
  <2> QED BY <1>1, <1>3, <2>1, <2>3, ClientFrame
<1>4. CASE conn[c] # "closed"
  <2>1. PICK n : n = Minimum(Room(c2s[c]), Len(out[c])) OBVIOUS
  <2>2. /\ n > 0 /\ c2s' = [c2s EXCEPT ![c] = @ \o SubSeq(out[c], 1, n)]
        /\ out' = [out EXCEPT ![c] = From(@, n + 1)]
        /\ cpc' = [cpc EXCEPT ![c] = IF n = Len(out[c]) THEN "await" ELSE "write"]
    BY <1>4, <2>1 DEF ClientWrite
  <2>3. /\ EndsMessage(out[c]) /\ Plain(c2s[c]) /\ s2c[c] = <<>> /\ NoRequest(c)
        /\ out[c] \in Seq(Byte) /\ c2s[c] \in Seq(Byte) /\ Len(c2s[c]) <= SockCap
    BY <1>1, <1>4 DEF Phases, Phase, TypeOK
  <2>4. n \in 1 .. Len(out[c]) /\ Len(c2s[c]) + n <= SockCap
    BY <2>1, <2>2, <2>3, WriteSize
  <2>5. n \in 0 .. Len(out[c]) BY <2>4
  <2> DEFINE part == SubSeq(out[c], 1, n)
             rest == From(out[c], n + 1)
             joined == c2s[c] \o part
  <2>6. part \in Seq(Byte) /\ Len(part) = n /\ rest \in Seq(Byte) BY <2>3, <2>5, Split
  <2>7. /\ n < Len(out[c]) => Plain(part) /\ EndsMessage(rest)
        /\ n = Len(out[c]) => EndsMessage(part) /\ rest = <<>>
    BY <2>3, <2>4, SplitMessage
  <2> HIDE DEF part, rest
  <2>8. /\ joined \in Seq(Byte) /\ Len(joined) <= SockCap
        /\ Plain(part) => Plain(joined)
        /\ EndsMessage(part) => EndsMessage(joined)
    BY <2>3, <2>4, <2>6, Join
  <2>9. /\ c2s' = [c2s EXCEPT ![c] = joined] /\ out' = [out EXCEPT ![c] = rest]
    BY <2>2 DEF part, rest
  <2> HIDE DEF joined
  <2>10. /\ c2s'[c] = joined /\ out'[c] = rest
         /\ cpc'[c] = IF n = Len(out[c]) THEN "await" ELSE "write"
         /\ \A d \in Clients : d # c => cpc'[d] = cpc[d] /\ out'[d] = out[d] /\ c2s'[d] = c2s[d]
    BY <2>2, <2>9 DEF TypeOK
  <2>16. Phase(c)'
    <3>1. CASE n < Len(out[c])
      <4>1. cpc'[c] = "write" /\ EndsMessage(out[c])' /\ Plain(c2s[c])'
        BY <2>4, <2>7, <2>8, <2>10, <3>1 DEF EndsMessage, Plain
      <4> QED BY <1>1, <1>2, <2>3, <4>1 DEF Phase
    <3>2. CASE n = Len(out[c])
      <4>1. cpc'[c] = "await" /\ out'[c] = <<>> /\ EndsMessage(c2s[c])'
        BY <2>7, <2>8, <2>10, <3>2 DEF EndsMessage
      <4> QED BY <1>1, <1>2, <2>3, <4>1 DEF Phase, InTransit
    <3> QED BY <2>3, <2>4, <3>1, <3>2
  <2> QED BY <1>1, <2>10, <2>16, ClientFrame
<1> QED BY <1>3, <1>4

(* recv_and_print_msg(): the reply is complete only once it was answered.  *)
LEMMA ClientReceiveStep ==
  ASSUME Inv, NEW c \in Clients, ClientReceive(c)
  PROVE  Healthy'
<1> USE DEF Inv, TypeInv, Healthy
<1>1. /\ cpc[c] = "await" /\ s2c[c] # <<>> /\ s2c' = [s2c EXCEPT ![c] = <<>>]
      /\ cpc' = [cpc EXCEPT ![c] = IF HasEnd(s2c[c]) THEN "prompt" ELSE "await"]
      /\ printed' = [printed EXCEPT ![c] = HasEnd(s2c[c])]
      /\ UNCHANGED <<out, sent, c2s, conn>>
      /\ UNCHANGED <<context, listening, up, mutex, loopVars, pending, workVars, live>>
  BY DEF ClientReceive, take_reply, connVars
<1>2. NoRequest(c)' <=> NoRequest(c) BY <1>1, SameRequests DEF workVars
<1>3. /\ s2c'[c] = <<>>
      /\ cpc'[c] = IF HasEnd(s2c[c]) THEN "prompt" ELSE "await"
      /\ \A d \in Clients : d # c => cpc'[d] = cpc[d] /\ s2c'[d] = s2c[d]
  BY <1>1 DEF TypeOK
<1>8. conn'[c] # "closed" => Phase(c)'
  <2> SUFFICES ASSUME conn[c] # "closed" PROVE Phase(c)' BY <1>1
  <2>1. out[c] = <<>> /\ (InService(c) \/ Answered(c))
    BY <1>1 DEF Phases, Phase, InTransit
  <2>2. s2c[c] \in Seq(Byte) BY DEF TypeOK
  <2>3. CASE InService(c)
    <3>1. cpc'[c] = "await" BY <1>3, <2>2, <2>3, Ends DEF InService
    <3>2. Plain(s2c[c])' BY <1>3, Ends DEF Plain
    <3> QED BY <1>1, <1>2, <2>1, <2>3, <3>1, <3>2 DEF Phase, InService
  <2>4. CASE Answered(c)
    <3>1. cpc'[c] = "prompt" BY <1>3, <2>2, <2>4, Ends DEF Answered
    <3> QED BY <1>1, <1>2, <1>3, <2>1, <2>4, <3>1 DEF Phase, Answered
  <2> QED BY <2>1, <2>3, <2>4
<1>9. cpc'[c] # "start" BY <1>3
<1> QED BY <1>1, <1>3, <1>8, <1>9, ClientFrame

-----------------------------------------------------------------------------
(* Server: the event loop *)

(* The loop's steps other than read() move no bytes and no SessionEvents.  *)
LEMMA LoopFrame ==
  ASSUME Inv, UNCHANGED <<cpc, out, c2s, s2c, pending, wpc, client, reply>>,
         \A d \in Clients : conn'[d] # "closed" => conn[d] # "closed"
  PROVE  /\ \A d \in Clients : NoRequest(d)' <=> NoRequest(d)
         /\ OneRequest' /\ Serving' /\ Phases'
<1> USE DEF Inv, TypeInv, Healthy
<1>1. (\A d \in Clients : NoRequest(d)' <=> NoRequest(d)) /\ OneRequest' BY SameRequests
<1>2. Serving' BY DEF Serving, EndsMessage
<1>3. ASSUME NEW d \in Clients, conn'[d] # "closed" PROVE Phase(d)'
  <2>1. Phase(d) BY <1>3 DEF Phases
  <2> QED BY <1>1, <2>1, SamePhase
<1> QED BY <1>1, <1>2, <1>3 DEF Phases

(* accept(), with and without its errors: a connection in the backlog has  *)
(* no SessionEvent that a deleted context could hurt.                      *)
LEMMA AcceptStep ==
  ASSUME Inv, NEW c \in Clients, Accept(c) \/ AcceptFailsEarly(c) \/ AcceptFailsEvent(c)
  PROVE  Healthy'
<1> USE DEF Inv, TypeInv, Healthy
<1>1. /\ UNCHANGED <<cpc, out, c2s, s2c, pending, wpc, client, reply>>
      /\ UNCHANGED <<sent, printed, up, mutex, lpc, current, data_len, live>>
      /\ up /\ lpc = "loop" /\ conn[c] = "backlog"
  BY DEF Accept, AcceptFailsEarly, AcceptFailsEvent, AtLoop, clientVars, sockVars, loopVars,
         workVars
<1>2. \A d \in Clients : /\ conn[d] # "backlog" => conn'[d] = conn[d]
                         /\ d # c => context'[d] = context[d]
                         /\ conn'[d] = "open" /\ conn[d] # "open" => context'[d] = "live"
  <2>1. CASE Accept(c) BY <1>1, <2>1 DEF Accept, TypeOK
  <2>2. CASE AcceptFailsEarly(c) BY <1>1, <2>2 DEF AcceptFailsEarly, TypeOK
  <2>3. CASE AcceptFailsEvent(c) BY <1>1, <2>3 DEF AcceptFailsEvent, TypeOK
  <2> QED BY <2>1, <2>2, <2>3
<1>4. \A d \in Clients : conn'[d] # "closed" => conn[d] # "closed" BY <1>2
<1>5. /\ \A d \in Clients : NoRequest(d)' <=> NoRequest(d)
      /\ OneRequest' /\ Serving' /\ Phases'
  BY <1>1, <1>4, LoopFrame
<1>6. NoRequest(c) \/ cpc[c] = "killed" BY <1>1 DEF RequestsLive
<1>7. RequestsLive' BY <1>1, <1>2, <1>5, <1>6 DEF RequestsLive
<1>8. Receiving' BY <1>1 DEF Receiving
<1>9. Unconnected' BY <1>1, <1>2 DEF Unconnected
<1>10. OpenHasContext' BY <1>1, <1>2 DEF OpenHasContext
<1> QED BY <1>5, <1>7, <1>8, <1>9, <1>10

(* recv() begins where there is something to read: then the connection has *)
(* no SessionEvent, or its client was killed.                              *)
LEMMA RecvBeginStep ==
  ASSUME Inv, NEW c \in Clients, RecvBegin(c)
  PROVE  Healthy'
<1> USE DEF Inv, TypeInv, Healthy
<1>1. /\ UNCHANGED <<cpc, out, c2s, s2c, pending, wpc, client, reply>>
      /\ UNCHANGED <<sent, printed, conn, context, listening, up, mutex, live>>
      /\ up /\ Readable(c) /\ lpc' = "lock" /\ current' = c /\ data_len' = 0
  BY DEF RecvBegin, AtLoop, clientVars, sockVars, connVars, workVars
<1>2. conn[c] = "open" /\ (c2s[c] # <<>> \/ HungUp(c)) BY <1>1 DEF Readable
<1>3. Phase(c) BY <1>2 DEF Phases
<1>4. NoRequest(c) \/ cpc[c] = "killed"
  <2>1. cpc[c] \in {"start", "prompt", "write", "await", "exit", "killed"} BY DEF TypeOK
  <2> QED BY <1>2, <1>3, <2>1 DEF Phase, InTransit, InService, Answered, HungUp
<1>5. context[c] = "live"
  BY <1>2 DEF OpenHasContext
<1>7. /\ \A d \in Clients : NoRequest(d)' <=> NoRequest(d)
      /\ OneRequest' /\ Serving' /\ Phases'
  BY <1>1, LoopFrame
<1>8. RequestsLive' BY <1>1, <1>7 DEF RequestsLive
<1>9. Receiving' BY <1>1, <1>2, <1>4, <1>5, <1>7 DEF Receiving
<1>10. Unconnected' BY <1>1 DEF Unconnected
<1>11. OpenHasContext' BY <1>1 DEF OpenHasContext
<1> QED BY <1>7, <1>8, <1>9, <1>10, <1>11

(* recv() takes the mutex; it releases it when the peer is gone or the     *)
(* buffer is full.                                                         *)
LEMMA RecvMutexStep ==
  ASSUME Inv, RecvLock \/ RecvEnd
  PROVE  Healthy'
<1> USE DEF Inv, TypeInv, Healthy
<1>1. /\ UNCHANGED <<cpc, out, c2s, s2c, pending, wpc, client, reply>>
      /\ UNCHANGED <<sent, printed, conn, context, listening, up, current, data_len, live>>
      /\ lpc # "loop" /\ lpc' \in {"read", "close"}
  BY DEF RecvLock, RecvEnd, clientVars, sockVars, connVars, workVars
<1>2. current \in Clients BY <1>1
<1>5. /\ \A d \in Clients : NoRequest(d)' <=> NoRequest(d)
      /\ OneRequest' /\ Serving' /\ Phases'
  BY <1>1, LoopFrame
<1>6. RequestsLive' BY <1>1, <1>5 DEF RequestsLive
<1>7. Receiving'
  <2>1. PICK d \in Clients : d = current BY <1>2
  <2>2. (NoRequest(d)' \/ cpc[d] = "killed") /\ d = current'
    BY <1>1, <1>5, <2>1 DEF Receiving
  <2> QED BY <1>1, <2>1, <2>2 DEF Receiving
<1>8. Unconnected' /\ OpenHasContext' BY <1>1 DEF Unconnected, OpenHasContext
<1> QED BY <1>5, <1>6, <1>7, <1>8

(* close_connection() deletes a context that no SessionEvent refers to, or  *)
(* that of a killed client.                                                *)
LEMMA CloseStep ==
  ASSUME Inv, close_connection
  PROVE  Healthy'
<1> USE DEF Inv, TypeInv, Healthy
<1>1. /\ UNCHANGED <<cpc, out, c2s, s2c, pending, wpc, client, reply>>
      /\ UNCHANGED <<sent, printed, listening, up, mutex, live>>
      /\ up /\ lpc = "close" /\ lpc' = "loop" /\ current' = None /\ data_len' = 0
  BY DEF close_connection, clientVars, sockVars, workVars
<1>2. PICK c \in Clients : c = current BY <1>1
<1>3. /\ conn' = [conn EXCEPT ![c] = "closed"] /\ context' = [context EXCEPT ![c] = "deleted"]
  BY <1>2 DEF close_connection
<1>4. /\ conn'[c] = "closed" /\ (NoRequest(c) \/ cpc[c] = "killed") /\ conn[c] = "open"
      /\ \A d \in Clients : d # c => conn'[d] = conn[d] /\ context'[d] = context[d]
  BY <1>1, <1>2, <1>3 DEF Receiving, TypeOK
<1>6. /\ \A d \in Clients : NoRequest(d)' <=> NoRequest(d)
      /\ OneRequest' /\ Serving' /\ Phases'
  BY <1>1, <1>4, LoopFrame
<1>7. RequestsLive' BY <1>1, <1>4, <1>6 DEF RequestsLive
<1>8. Receiving' BY <1>1 DEF Receiving
<1>9. Unconnected' /\ OpenHasContext' BY <1>1, <1>4 DEF Unconnected, OpenHasContext
<1> QED BY <1>6, <1>7, <1>8, <1>9

(* The process ends, by a shutdown or SIGPIPE; contexts are not deleted.    *)
LEMMA EndStep ==
  ASSUME Inv, process_ends
  PROVE  Healthy'
<1> USE DEF Inv, TypeInv, Healthy
<1>1. /\ UNCHANGED <<cpc, out, c2s, s2c, pending, wpc, client, reply>>
      /\ UNCHANGED context
      /\ up' = FALSE
      /\ conn' = [c \in Clients |-> IF conn[c] = "none" THEN "none" ELSE "closed"]
  BY DEF process_ends, clientVars, sockVars, loopVars, workVars
<1>2. \A d \in Clients : conn'[d] # "closed" => conn[d] = "none" /\ conn'[d] = "none" BY <1>1
<1>3. /\ \A d \in Clients : NoRequest(d)' <=> NoRequest(d)
      /\ OneRequest' /\ Serving' /\ Phases'
  BY <1>1, <1>2, LoopFrame
<1>4. RequestsLive' BY <1>1, <1>3 DEF RequestsLive
<1>5. Receiving'
  <2> SUFFICES ASSUME lpc # "loop" PROVE NoRequest(current)' \/ cpc[current] = "killed"
    BY <1>1 DEF Receiving, process_ends, loopVars
  <2>1. PICK d \in Clients : d = current OBVIOUS
  <2>2. (NoRequest(d)' \/ cpc[d] = "killed") /\ d = current'
    BY <1>3, <2>1 DEF Receiving, process_ends, loopVars
  <2> QED BY <2>1, <2>2
<1>6. Unconnected' /\ OpenHasContext' BY <1>1, <1>2 DEF Unconnected, OpenHasContext
<1> QED BY <1>3, <1>4, <1>5, <1>6

(* add_event() gives the connection its one SessionEvent.                  *)
LEMMA RequestAdded ==
  ASSUME TypeOK, OneRequest, NEW c \in Clients, NoRequest(c), pending' = Append(pending, c),
         UNCHANGED client
  PROVE  /\ pending' \in Seq(Clients) /\ OneRequest' /\ ~NoRequest(c)'
         /\ \A d \in Clients : d # c => (NoRequest(d)' <=> NoRequest(d))
<1>1. PICK n \in Nat : n = Len(pending) + 1 BY DEF TypeOK
<1>2. \A d \in Clients, i \in Nat : Queued(d, i)' <=> Queued(d, i) \/ (d = c /\ i = n)
  <2>1. pending \in Seq(Clients) /\ Len(pending) \in Nat BY DEF TypeOK
  <2>2. /\ DOMAIN pending = 1 .. Len(pending) /\ DOMAIN pending' = 1 .. n
        /\ pending'[n] = c /\ \A i \in 1 .. Len(pending) : pending'[i] = pending[i]
    BY <1>1, <2>1
  <2> QED BY <1>1, <2>1, <2>2 DEF Queued
<1>3. pending' \in Seq(Clients) BY DEF TypeOK
<1>4. \A i \in Nat : ~Queued(c, i) BY DEF NoRequest
<1>5. OneRequest' BY <1>2, <1>4 DEF OneRequest, NoRequest
<1>6. ~NoRequest(c)' BY <1>1, <1>2 DEF NoRequest
<1>7. \A d \in Clients : d # c => (NoRequest(d)' <=> NoRequest(d)) BY <1>2 DEF NoRequest
<1> QED BY <1>3, <1>5, <1>6, <1>7

(* read(): up to the terminator the bytes are collected; with it the       *)
(* stream is empty and a SessionEvent goes to the stage.                   *)
LEMMA RecvReadStep ==
  ASSUME Inv, RecvRead
  PROVE  Healthy'
<1> USE DEF Inv, TypeInv, Healthy
<1>1. PICK n : n = Available OBVIOUS
<1>2. PICK c \in Clients : c = current BY DEF RecvRead, read_data
<1>3. /\ up /\ lpc = "read" /\ c2s[c] # <<>> /\ data_len < BufSize
      /\ c2s' = [c2s EXCEPT ![c] = From(@, n + 1)]
      /\ UNCHANGED <<cpc, out, sent, printed, s2c, conn, context, listening, up>>
      /\ UNCHANGED <<wpc, client, reply>>
  BY <1>1, <1>2 DEF RecvRead, read_data, clientVars, connVars, workVars
<1>4. /\ conn[c] = "open" /\ context[c] = "live" /\ (NoRequest(c) \/ cpc[c] = "killed")
      /\ Phase(c)
  BY <1>2, <1>3 DEF Receiving, Phases
<1>5. c2s[c] \in Seq(Byte) /\ Len(c2s[c]) <= SockCap BY DEF TypeOK
<1>6. n \in 1 .. Len(c2s[c]) /\ data_len + n \in 0 .. BufSize
  BY <1>1, <1>2, <1>3, ReadSize
<1>7. n \in 0 .. Len(c2s[c]) BY <1>6
<1> DEFINE part == SubSeq(c2s[c], 1, n)
           rest == From(c2s[c], n + 1)
<1>8. /\ part \in Seq(Byte) /\ rest \in Seq(Byte) /\ Len(rest) = Len(c2s[c]) - n
  BY <1>5, <1>7, Split
<1>10. /\ NoRequest(c)
       /\ \/ cpc[c] = "write" /\ Plain(c2s[c]) /\ EndsMessage(out[c]) /\ s2c[c] = <<>>
          \/ cpc[c] = "await" /\ EndsMessage(c2s[c]) /\ out[c] = <<>> /\ s2c[c] = <<>>
          \/ cpc[c] = "killed" /\ (Plain(c2s[c]) \/ EndsMessage(c2s[c]))
  <2>1. cpc[c] \in {"start", "prompt", "write", "await", "exit", "killed"} BY DEF TypeOK
  <2> QED BY <1>3, <1>4, <2>1 DEF Phase, InTransit, InService, Answered, Abandoned
<1>11. Plain(c2s[c]) => Plain(part) /\ Plain(rest) BY <1>5, <1>7, SplitPlain
<1>12. EndsMessage(c2s[c]) =>
         /\ n < Len(c2s[c]) => Plain(part) /\ EndsMessage(rest)
         /\ n = Len(c2s[c]) => EndsMessage(part) /\ rest = <<>>
  BY <1>5, <1>6, SplitMessage
<1> HIDE DEF part, rest
<1>13. c2s' = [c2s EXCEPT ![c] = rest] BY <1>3 DEF rest
<1>14. c2s'[c] = rest /\ \A d \in Clients : d # c => c2s'[d] = c2s[d] BY <1>13 DEF TypeOK
<1>16. CASE HasEnd(part)
  <2>1. /\ mutex' = [mutex EXCEPT ![c] = None] /\ pending' = Append(pending, c)
        /\ live' = [live EXCEPT ![c] = @ + 1]
        /\ lpc' = "loop" /\ current' = None /\ data_len' = 0
    BY <1>1, <1>2, <1>16 DEF RecvRead, read_data, First, part
  <2>2. /\ rest = <<>>
        /\ cpc[c] = "killed" \/ (cpc[c] = "await" /\ out[c] = <<>> /\ s2c[c] = <<>>)
    BY <1>5, <1>6, <1>8, <1>10, <1>11, <1>12, <1>16, Ends
  <2>3. /\ pending' \in Seq(Clients) /\ OneRequest' /\ ~NoRequest(c)'
        /\ \A d \in Clients : d # c => (NoRequest(d)' <=> NoRequest(d))
    BY <1>3, <1>10, <2>1, RequestAdded
  <2>6. Serving' BY <1>3 DEF Serving, EndsMessage
  <2>7. RequestsLive' BY <1>3, <1>4, <2>3 DEF RequestsLive
  <2>8. Receiving' BY <2>1 DEF Receiving
  <2>9. ASSUME NEW d \in Clients, conn'[d] # "closed" PROVE Phase(d)'
    <3>1. CASE d = c
      <4>1. c2s'[c] = <<>> BY <1>14, <2>2
      <4>2. CASE cpc[c] = "killed" BY <1>3, <3>1, <4>1, <4>2 DEF Phase, Abandoned
      <4>3. CASE cpc[c] # "killed"
        <5>1. cpc'[c] = "await" /\ out'[c] = <<>> /\ s2c'[c] = <<>> BY <1>3, <2>2, <4>3
        <5>2. InService(c)' BY <2>3, <4>1, <5>1, Ends DEF InService, Plain
        <5> QED BY <3>1, <5>1, <5>2 DEF Phase
      <4> QED BY <4>2, <4>3
    <3>2. CASE d # c
      <4>1. Phase(d) BY <1>3, <2>9 DEF Phases
      <4> QED BY <1>3, <1>14, <2>3, <3>2, <4>1, SamePhase
    <3> QED BY <3>1, <3>2
  <2>10. Unconnected' /\ OpenHasContext' BY <1>3 DEF Unconnected, OpenHasContext
  <2> QED BY <2>3, <2>6, <2>7, <2>8, <2>9, <2>10 DEF Phases
<1>17. CASE ~HasEnd(part)
  <2>1. data_len' = data_len + n /\ UNCHANGED <<mutex, pending, live, lpc, current>>
    BY <1>1, <1>2, <1>17 DEF RecvRead, read_data, First, part
  <2>3. OneRequest' /\ \A d \in Clients : NoRequest(d)' <=> NoRequest(d)
    BY <1>3, <2>1, SameRequests
  <2>4. Serving' BY <1>3 DEF Serving, EndsMessage
  <2>5. RequestsLive' BY <1>3, <2>3 DEF RequestsLive
  <2>6. Receiving'
    <3>1. NoRequest(c)' /\ c = current' BY <1>2, <1>10, <2>1, <2>3
    <3> QED BY <1>3, <1>4, <3>1 DEF Receiving
  <2>7. Phase(c)'
    <3>1. CASE cpc[c] = "write"
      <4>1. Plain(rest) BY <1>10, <1>11, <3>1
      <4>2. EndsMessage(out[c])' /\ Plain(c2s[c])'
        BY <1>3, <1>10, <1>14, <3>1, <4>1 DEF EndsMessage, Plain
      <4> QED BY <1>3, <1>4, <1>10, <2>3, <3>1, <4>2 DEF Phase
    <3>2. CASE cpc[c] = "await"
      <4>1. n < Len(c2s[c])
        BY <1>5, <1>6, <1>8, <1>10, <1>12, <1>17, <3>2, Ends
      <4>2. EndsMessage(rest) BY <1>10, <1>12, <3>2, <4>1
      <4>3. EndsMessage(c2s[c])' BY <1>14, <4>2 DEF EndsMessage
      <4> QED BY <1>3, <1>4, <1>10, <2>3, <3>2, <4>3 DEF Phase, InTransit
    <3>3. CASE cpc[c] = "killed"
      <4>1. CASE Plain(c2s[c])
        <5>1. Plain(c2s[c])' BY <1>11, <1>14, <4>1 DEF Plain
        <5> QED BY <1>3, <1>10, <2>3, <3>3, <5>1 DEF Phase, Abandoned
      <4>2. CASE EndsMessage(c2s[c])
        <5>1. n < Len(c2s[c]) BY <1>5, <1>6, <1>8, <1>12, <1>17, <4>2, Ends
        <5>2. EndsMessage(c2s[c])' BY <1>12, <1>14, <4>2, <5>1 DEF EndsMessage
        <5> QED BY <1>3, <1>10, <2>3, <3>3, <5>2 DEF Phase, Abandoned
      <4> QED BY <1>10, <3>3, <4>1, <4>2
    <3> QED BY <1>10, <3>1, <3>2, <3>3
  <2>8. ASSUME NEW d \in Clients, conn'[d] # "closed", d # c PROVE Phase(d)'
    <3>1. Phase(d) BY <1>3, <2>8 DEF Phases
    <3> QED BY <1>3, <1>14, <2>3, <2>8, <3>1, SamePhase
  <2>9. Unconnected' /\ OpenHasContext' BY <1>3 DEF Unconnected, OpenHasContext
  <2> QED BY <2>3, <2>4, <2>5, <2>6, <2>7, <2>8, <2>9 DEF Phases
<1> QED BY <1>16, <1>17

-----------------------------------------------------------------------------
(* SessionStage, on a worker *)

(* A worker takes the SessionEvent over from the queue.                    *)
LEMMA RequestTaken ==
  ASSUME TypeOK, OneRequest, NEW w \in Workers, client[w] = None, pending # <<>>,
         client' = [client EXCEPT ![w] = Head(pending)], pending' = Tail(pending)
  PROVE  /\ pending' \in Seq(Clients) /\ Head(pending) \in Clients /\ OneRequest'
         /\ \A d \in Clients : NoRequest(d)' <=> NoRequest(d)
<1>1. pending \in Seq(Clients) /\ Len(pending) \in Nat \ {0} BY DEF TypeOK
<1>2. PICK c \in Clients : c = Head(pending) /\ Queued(c, 1) BY <1>1 DEF Queued
<1>3. pending' \in Seq(Clients) BY <1>1
<1>4. ASSUME NEW d \in Clients, NEW i \in Nat
      PROVE  Queued(d, i)' <=> i # 0 /\ Queued(d, i + 1)
  <2>1. /\ DOMAIN pending = 1 .. Len(pending) /\ DOMAIN pending' = 1 .. Len(pending) - 1
        /\ \A j \in 1 .. Len(pending) - 1 : pending'[j] = pending[j + 1]
    BY <1>1
  <2>2. i \in 1 .. Len(pending) - 1 <=> i # 0 /\ i + 1 \in 1 .. Len(pending) BY <1>1
  <2> QED BY <2>1, <2>2 DEF Queued
<1>5. \A x \in Workers : client'[x] = IF x = w THEN c ELSE client[x] BY <1>2 DEF TypeOK
<1>6. \A d \in Clients : ~Queued(d, 0) BY <1>1 DEF Queued
<1>7. c # None /\ \A d \in Clients : d # None BY SessionAssumption
<1>8. \A x \in Workers : client[x] # c BY <1>2 DEF OneRequest
<1>9. \A i \in Nat : ~Queued(c, i)'
  <2> SUFFICES ASSUME NEW i \in Nat, Queued(c, i)' PROVE FALSE OBVIOUS
  <2>1. i # 0 /\ i + 1 \in Nat /\ Queued(c, i + 1) BY <1>4
  <2>2. i + 1 = 1 BY <1>2, <2>1 DEF OneRequest
  <2> QED BY <2>1, <2>2
<1>10. \A d \in Clients, i \in Nat : Queued(d, i)' => i + 1 \in Nat /\ Queued(d, i + 1) BY <1>4
<1>11. OneRequest'
  <2>1. \A d \in Clients : \A i, j \in Nat : Queued(d, i)' /\ Queued(d, j)' => i = j
    <3> SUFFICES ASSUME NEW d \in Clients, NEW i \in Nat, NEW j \in Nat,
                        Queued(d, i)', Queued(d, j)'
                 PROVE  i = j
      OBVIOUS
    <3>1. i + 1 \in Nat /\ j + 1 \in Nat /\ Queued(d, i + 1) /\ Queued(d, j + 1) BY <1>10
    <3>2. i + 1 = j + 1 BY <3>1 DEF OneRequest
    <3> QED BY <3>2
  <2>2. \A d \in Clients : \A x, y \in Workers : client'[x] = d /\ client'[y] = d => x = y
    BY <1>5, <1>8 DEF OneRequest
  <2>3. \A d \in Clients, i \in Nat, x \in Workers : ~(Queued(d, i)' /\ client'[x] = d)
    BY <1>5, <1>9, <1>10 DEF OneRequest
  <2> QED BY <2>1, <2>2, <2>3 DEF OneRequest
<1>12. ASSUME NEW d \in Clients PROVE NoRequest(d)' <=> NoRequest(d)
  <2>1. CASE d = c
    <3>1. client'[w] = c BY <1>5
    <3> QED BY <1>2, <2>1, <3>1 DEF NoRequest
  <2>2. CASE d # c
    <3>1. (\A x \in Workers : client'[x] # d) <=> \A x \in Workers : client[x] # d
      BY <1>5, <1>7, <2>2
    <3>2. ASSUME NEW i \in Nat, Queued(d, i) PROVE \E j \in Nat : Queued(d, j)'
      <4>1. i # 0 /\ i # 1 BY <1>2, <1>6, <2>2, <3>2 DEF Queued
      <4>2. i - 1 \in Nat /\ i - 1 # 0 /\ (i - 1) + 1 = i BY <4>1
      <4> QED BY <1>4, <3>2, <4>2
    <3> QED BY <1>10, <3>1, <3>2 DEF NoRequest
  <2> QED BY <2>1, <2>2
<1> QED BY <1>2, <1>3, <1>11, <1>12

(* A step that moves no bytes, closes nothing and keeps who has requests.  *)
LEMMA WorkerFrame ==
  ASSUME Inv, UNCHANGED <<cpc, out, c2s, s2c, conn, context, up, lpc, current>>,
         \A d \in Clients : NoRequest(d)' <=> NoRequest(d)
  PROVE  RequestsLive' /\ Receiving' /\ Phases' /\ Unconnected' /\ OpenHasContext'
<1> USE DEF Inv, TypeInv, Healthy
<1>1. RequestsLive' BY DEF RequestsLive
<1>2. Receiving'
  <2> SUFFICES ASSUME lpc # "loop"
               PROVE  /\ up => conn[current] = "open" /\ context[current] = "live"
                      /\ NoRequest(current)' \/ cpc[current] = "killed"
    BY DEF Receiving
  <2>1. PICK d \in Clients : d = current OBVIOUS
  <2>2. (NoRequest(d)' \/ cpc[d] = "killed") /\ d = current' BY <2>1 DEF Receiving
  <2> QED BY <2>1, <2>2 DEF Receiving
<1>3. ASSUME NEW d \in Clients, conn'[d] # "closed" PROVE Phase(d)'
  <2>1. Phase(d) BY <1>3 DEF Phases
  <2> QED BY <2>1, SamePhase
<1>4. Unconnected' /\ OpenHasContext' BY DEF Unconnected, OpenHasContext
<1> QED BY <1>1, <1>2, <1>3, <1>4 DEF Phases

(* handle_event() on the next SessionEvent.                                *)
LEMMA HandleRequestStep ==
  ASSUME Inv, NEW w \in Workers, HandleRequest(w)
  PROVE  Healthy'
<1> USE DEF Inv, TypeInv, Healthy
<1>1. /\ wpc[w] = "idle" /\ pending # <<>> /\ pending' = Tail(pending)
      /\ client' = [client EXCEPT ![w] = Head(pending)]
      /\ reply' = [reply EXCEPT ![w] = Message(ReplySize)]
      /\ wpc' = [wpc EXCEPT ![w] = "lock"]
      /\ UNCHANGED <<cpc, out, c2s, s2c, conn, context, up, lpc, current>>
  BY DEF HandleRequest, take_event, clientVars, sockVars, connVars, loopVars
<1>2. client[w] = None BY <1>1 DEF Serving
<1>3. /\ pending' \in Seq(Clients) /\ Head(pending) \in Clients /\ OneRequest'
      /\ \A d \in Clients : NoRequest(d)' <=> NoRequest(d)
  BY <1>1, <1>2, RequestTaken
<1>4. Serving'
  <2>1. Head(pending) # None BY <1>3, SessionAssumption
  <2>2. /\ wpc'[w] = "lock" /\ client'[w] # None /\ reply'[w] = Message(ReplySize)
        /\ \A x \in Workers :
             x # w => wpc'[x] = wpc[x] /\ client'[x] = client[x] /\ reply'[x] = reply[x]
    BY <1>1, <2>1 DEF TypeOK
  <2>3. \A x \in Workers : x # w => ((EndsMessage(reply[x]))' <=> EndsMessage(reply[x]))
    BY <2>2 DEF EndsMessage
  <2>4. EndsMessage(reply[w])' BY <2>2, MessageEnds, SessionAssumption DEF EndsMessage
  <2> QED BY <2>2, <2>3, <2>4 DEF Serving
<1> QED BY <1>1, <1>3, <1>4, WorkerFrame

(* send() takes the mutex and has the whole response before it.            *)
LEMMA SendLockStep ==
  ASSUME Inv, NEW w \in Workers, SendLock(w)
  PROVE  Healthy'
<1> USE DEF Inv, TypeInv, Healthy
<1>1. /\ wpc[w] = "lock" /\ wpc' = [wpc EXCEPT ![w] = "write"]
      /\ UNCHANGED <<cpc, out, c2s, s2c, conn, context, up, lpc, current>>
      /\ UNCHANGED <<pending, client, reply>>
  BY DEF SendLock, clientVars, sockVars, connVars, loopVars
<1>2. OneRequest' /\ \A d \in Clients : NoRequest(d)' <=> NoRequest(d) BY <1>1, SameRequests
<1>3. Serving'
  <2>1. wpc'[w] = "write" /\ \A x \in Workers : x # w => wpc'[x] = wpc[x] BY <1>1 DEF TypeOK
  <2>2. \A x \in Workers : (EndsMessage(reply[x]))' <=> EndsMessage(reply[x])
    BY <1>1 DEF EndsMessage
  <2> QED BY <1>1, <2>1, <2>2 DEF Serving
<1> QED BY <1>1, <1>2, <1>3, WorkerFrame

(* After the last write() the worker is free and the connection has no     *)
(* SessionEvent.                                                           *)
LEMMA RequestDone ==
  ASSUME Inv, NEW w \in Workers, NEW c \in Clients, c = client[w],
         client' = [client EXCEPT ![w] = None], UNCHANGED pending
  PROVE  /\ OneRequest' /\ NoRequest(c)'
         /\ \A d \in Clients : d # c => (NoRequest(d)' <=> NoRequest(d))
<1> USE DEF Inv, TypeInv, Healthy
<1>1. client'[w] = None /\ \A x \in Workers : x # w => client'[x] = client[x] BY DEF TypeOK
<1>2. \A d \in Clients, i \in Nat : Queued(d, i)' <=> Queued(d, i) BY DEF Queued
<1>3. \A d \in Clients : d # None BY SessionAssumption
<1>4. OneRequest' BY <1>1, <1>2, <1>3 DEF OneRequest
<1>5. NoRequest(c)' BY <1>1, <1>2, <1>3 DEF OneRequest, NoRequest
<1>6. \A d \in Clients : d # c => (NoRequest(d)' <=> NoRequest(d))
  BY <1>1, <1>2, <1>3 DEF NoRequest
<1> QED BY <1>4, <1>5, <1>6

(* The peer has closed, so it was killed: the process ends, or the reply   *)
(* is lost and the worker free.                                            *)
LEMMA SendToClosedStep ==
  ASSUME Inv, NEW w \in Workers, SendToClosed(w)
  PROVE  Healthy'
<1> USE DEF Inv, TypeInv, Healthy
<1>1. CASE process_ends BY <1>1, EndStep
<1>2. CASE ~process_ends
  <2>1. PICK c \in Clients : c = client[w] BY DEF SendToClosed, Sending
  <2>2. /\ up /\ HungUp(c)
        /\ client' = [client EXCEPT ![w] = None] /\ wpc' = [wpc EXCEPT ![w] = "idle"]
        /\ reply' = [reply EXCEPT ![w] = <<>>]
        /\ UNCHANGED <<cpc, out, c2s, s2c, conn, context, up, lpc, current, pending>>
    BY <1>2, <2>1 DEF SendToClosed, Sending, end_send, clientVars, sockVars, connVars, loopVars
  <2>3. /\ OneRequest' /\ NoRequest(c)'
        /\ \A d \in Clients : d # c => (NoRequest(d)' <=> NoRequest(d))
    BY <2>1, <2>2, RequestDone
  <2>4. ~NoRequest(c) BY <2>1 DEF NoRequest
  <2>5. cpc[c] = "killed" \/ (conn[c] = "open" /\ cpc[c] = "exit")
    BY <2>2, <2>4 DEF RequestsLive, HungUp
  <2>6. cpc[c] = "killed" BY <2>4, <2>5 DEF Phases, Phase
  <2>7. Serving'
    <3>1. /\ client'[w] = None /\ wpc'[w] = "idle"
          /\ \A x \in Workers :
               x # w => client'[x] = client[x] /\ wpc'[x] = wpc[x] /\ reply'[x] = reply[x]
      BY <2>2 DEF TypeOK
    <3>2. \A x \in Workers : x # w => ((EndsMessage(reply[x]))' <=> EndsMessage(reply[x]))
      BY <3>1 DEF EndsMessage
    <3> QED BY <3>1, <3>2 DEF Serving
  <2>8. RequestsLive' BY <2>2, <2>3 DEF RequestsLive
  <2>9. Receiving'
    <3> SUFFICES ASSUME lpc # "loop"
                 PROVE  /\ conn[current] = "open" /\ context[current] = "live"
                        /\ NoRequest(current)' \/ cpc[current] = "killed"
      BY <2>2 DEF Receiving
    <3>1. PICK d \in Clients : d = current OBVIOUS
    <3>2. (NoRequest(d)' \/ cpc[d] = "killed") /\ d = current'
      BY <2>2, <2>3, <2>6, <3>1 DEF Receiving
    <3> QED BY <2>2, <3>1, <3>2 DEF Receiving
  <2>10. ASSUME NEW d \in Clients, conn'[d] # "closed" PROVE Phase(d)'
    <3>1. Phase(d) BY <2>2, <2>10 DEF Phases
    <3>2. CASE d = c
      <4>1. Abandoned(c) BY <2>6, <3>1, <3>2 DEF Phase
      <4>2. Abandoned(c)' BY <2>2, <2>4, <4>1 DEF Abandoned
      <4> QED BY <2>2, <2>6, <3>2, <4>2 DEF Phase
    <3>3. CASE d # c BY <2>2, <2>3, <3>1, <3>3, SamePhase
    <3> QED BY <3>2, <3>3
  <2>11. Unconnected' /\ OpenHasContext' BY <2>2 DEF Unconnected, OpenHasContext
  <2> QED BY <2>3, <2>7, <2>8, <2>9, <2>10, <2>11 DEF Phases
<1> QED BY <1>1, <1>2

(* One write() of the reply; with its last byte the SessionEvent is done   *)
(* and the request answered.                                               *)
LEMMA SendWriteStep ==
  ASSUME Inv, NEW w \in Workers, SendWrite(w)
  PROVE  Healthy'
<1> USE DEF Inv, TypeInv, Healthy
<1>1. PICK n : n = Minimum(Room(s2c[client[w]]), Len(reply[w])) OBVIOUS
<1>2. PICK c \in Clients : c = client[w] BY DEF SendWrite, Sending
<1>3. /\ up /\ wpc[w] = "write" /\ ~HungUp(c) /\ n > 0
      /\ s2c' = [s2c EXCEPT ![c] = @ \o SubSeq(reply[w], 1, n)]
      /\ reply' = [reply EXCEPT ![w] = From(@, n + 1)]
      /\ UNCHANGED <<cpc, out, sent, printed, c2s, conn, context, listening, up>>
      /\ UNCHANGED <<lpc, current, data_len, pending, live>>
  BY <1>1, <1>2 DEF SendWrite, Sending, clientVars, connVars, loopVars
<1>4. ~NoRequest(c) BY <1>2 DEF NoRequest
<1>5. conn[c] = "open" /\ context[c] = "live" BY <1>3, <1>4 DEF RequestsLive, HungUp
<1>6. InService(c) /\ cpc[c] = "await" /\ out[c] = <<>>
  <2>1. Phase(c) /\ cpc[c] \in {"start", "prompt", "write", "await", "exit", "killed"}
    BY <1>5 DEF Phases, TypeOK
  <2> QED BY <1>3, <1>4, <2>1 DEF Phase, InTransit, Answered, HungUp
<1>7. /\ reply[w] \in Seq(Byte) /\ EndsMessage(reply[w])
      /\ s2c[c] \in Seq(Byte) /\ Len(s2c[c]) <= SockCap /\ Plain(s2c[c])
  BY <1>3, <1>6 DEF TypeOK, Serving, InService
<1>8. n \in 1 .. Len(reply[w]) /\ Len(s2c[c]) + n <= SockCap
  BY <1>1, <1>2, <1>3, <1>7, WriteSize
<1>9. n \in 0 .. Len(reply[w]) BY <1>8
<1> DEFINE part == SubSeq(reply[w], 1, n)
           rest == From(reply[w], n + 1)
           joined == s2c[c] \o part
<1>10. part \in Seq(Byte) /\ Len(part) = n /\ rest \in Seq(Byte) BY <1>7, <1>9, Split
<1>11. /\ n < Len(reply[w]) => Plain(part) /\ EndsMessage(rest)
       /\ n = Len(reply[w]) => EndsMessage(part) /\ rest = <<>>
  BY <1>7, <1>8, SplitMessage
<1> HIDE DEF part, rest
<1>12. /\ joined \in Seq(Byte) /\ Len(joined) <= SockCap
       /\ Plain(part) => Plain(joined)
       /\ EndsMessage(part) => EndsMessage(joined)
  BY <1>7, <1>8, <1>10, Join
<1>13. s2c' = [s2c EXCEPT ![c] = joined] /\ reply' = [reply EXCEPT ![w] = rest]
  BY <1>3 DEF part, rest
<1> HIDE DEF joined
<1>14. /\ s2c'[c] = joined /\ reply'[w] = rest
       /\ \A d \in Clients : d # c => s2c'[d] = s2c[d]
       /\ \A x \in Workers : x # w => reply'[x] = reply[x]
  BY <1>13 DEF TypeOK
<1>17. \A x \in Workers : x # w => ((EndsMessage(reply[x]))' <=> EndsMessage(reply[x]))
  BY <1>14 DEF EndsMessage
<1>18. Unconnected' /\ OpenHasContext' BY <1>3 DEF Unconnected, OpenHasContext
<1>19. CASE n = Len(reply[w])
  <2>1. client' = [client EXCEPT ![w] = None] /\ wpc' = [wpc EXCEPT ![w] = "idle"]
    BY <1>1, <1>2, <1>19 DEF SendWrite, end_send
  <2>3. /\ client'[w] = None /\ wpc'[w] = "idle"
        /\ \A x \in Workers : x # w => client'[x] = client[x] /\ wpc'[x] = wpc[x]
    BY <2>1 DEF TypeOK
  <2>6. /\ OneRequest' /\ NoRequest(c)'
        /\ \A d \in Clients : d # c => (NoRequest(d)' <=> NoRequest(d))
    BY <1>2, <1>3, <2>1, RequestDone
  <2>9. Serving' BY <1>17, <2>3 DEF Serving
  <2>10. RequestsLive' BY <1>3, <2>6 DEF RequestsLive
  <2>11. Receiving'
    <3> SUFFICES ASSUME lpc # "loop" PROVE NoRequest(current)' \/ cpc[current] = "killed"
      BY <1>3 DEF Receiving
    <3>1. PICK d \in Clients : d = current OBVIOUS
    <3>2. (NoRequest(d)' \/ cpc[d] = "killed") /\ d = current'
      BY <1>3, <2>6, <3>1 DEF Receiving
    <3> QED BY <3>1, <3>2
  <2>12. Answered(c)'
    BY <1>3, <1>6, <1>11, <1>12, <1>14, <1>19, <2>6 DEF Answered, InService, EndsMessage
  <2>13. Phase(c)' BY <1>3, <1>6, <2>12 DEF Phase
  <2>14. ASSUME NEW d \in Clients, conn'[d] # "closed", d # c PROVE Phase(d)'
    <3>1. Phase(d) BY <1>3, <2>14 DEF Phases
    <3> QED BY <1>3, <1>14, <2>6, <2>14, <3>1, SamePhase
  <2> QED BY <1>18, <2>6, <2>9, <2>10, <2>11, <2>13, <2>14 DEF Phases
<1>20. CASE n # Len(reply[w])
  <2>1. UNCHANGED <<mutex, client, wpc>> BY <1>1, <1>2, <1>20 DEF SendWrite
  <2>3. OneRequest' /\ \A d \in Clients : NoRequest(d)' <=> NoRequest(d)
    BY <1>3, <2>1, SameRequests
  <2>4. n < Len(reply[w]) BY <1>7, <1>8, <1>20
  <2>5. EndsMessage(reply[w])' BY <1>11, <1>14, <2>4 DEF EndsMessage
  <2>6. Serving' BY <1>17, <2>1, <2>5 DEF Serving
  <2>7. RequestsLive' BY <1>3, <2>3 DEF RequestsLive
  <2>8. Receiving'
    <3> SUFFICES ASSUME lpc # "loop" PROVE NoRequest(current)' \/ cpc[current] = "killed"
      BY <1>3 DEF Receiving
    <3>1. PICK d \in Clients : d = current OBVIOUS
    <3>2. (NoRequest(d)' \/ cpc[d] = "killed") /\ d = current'
      BY <1>3, <2>3, <3>1 DEF Receiving
    <3> QED BY <3>1, <3>2
  <2>9. InService(c)'
    BY <1>3, <1>6, <1>11, <1>12, <1>14, <2>3, <2>4 DEF InService, Plain
  <2>10. Phase(c)' BY <1>3, <1>6, <2>9 DEF Phase
  <2>11. ASSUME NEW d \in Clients, conn'[d] # "closed", d # c PROVE Phase(d)'
    <3>1. Phase(d) BY <1>3, <2>11 DEF Phases
    <3> QED BY <1>3, <1>14, <2>3, <2>11, <3>1, SamePhase
  <2> QED BY <1>18, <2>3, <2>6, <2>7, <2>8, <2>10, <2>11 DEF Phases
<1> QED BY <1>19, <1>20

-----------------------------------------------------------------------------
(* Theorems *)

(* Before the first connection nothing is on its way.                      *)
LEMMA InitInv == Init => SessionInv
<1> SUFFICES ASSUME Init PROVE SessionInv OBVIOUS
<1> USE SessionAssumption DEF Init
<1>b. /\ out \in [Clients -> Seq(Byte)] /\ c2s \in [Clients -> Seq(Byte)]
      /\ s2c \in [Clients -> Seq(Byte)] /\ reply \in [Workers -> Seq(Byte)]
      /\ \A c \in Clients : Len(c2s[c]) <= SockCap /\ Len(s2c[c]) <= SockCap
  BY Ends
<1>c. /\ cpc \in [Clients -> {"start", "prompt", "write", "await", "exit", "killed"}]
      /\ sent \in [Clients -> 0 .. MaxRequests] /\ printed \in [Clients -> BOOLEAN]
      /\ conn \in [Clients -> {"none", "backlog", "open", "closed", "leaked"}]
      /\ context \in [Clients -> {"none", "live", "deleted"}]
      /\ mutex \in [Clients -> Workers \cup {Loop, None}]
  OBVIOUS
<1>e. /\ listening \in BOOLEAN /\ up \in BOOLEAN /\ stale \in BOOLEAN
      /\ lpc \in {"loop", "lock", "read", "close"}
  OBVIOUS
<1>d. /\ current \in Clients \cup {None} /\ data_len \in 0 .. BufSize
      /\ pending \in Seq(Clients) /\ wpc \in [Workers -> {"idle", "lock", "write", "freed"}]
      /\ client \in [Workers -> Clients \cup {None}] /\ live \in [Clients -> Nat]
  OBVIOUS
<1>1. TypeOK BY <1>b, <1>c, <1>d, <1>e DEF TypeOK
<1>a. TypeInv BY <1>1 DEF TypeInv
<1>2. (\A c \in Clients, i \in Nat : ~Queued(c, i)) /\ \A c \in Clients, w \in Workers : client[w] # c
  BY DEF Queued
<1>3. \A c \in Clients : NoRequest(c) BY <1>2 DEF NoRequest
<1>4. OneRequest BY <1>2 DEF OneRequest
<1>5. Serving /\ RequestsLive /\ Receiving BY <1>3 DEF Serving, RequestsLive, Receiving
<1>6. Phases BY <1>3 DEF Phases, Phase
<1>7. Unconnected /\ OpenHasContext BY DEF Unconnected, OpenHasContext
<1> QED BY <1>a, <1>4, <1>5, <1>6, <1>7 DEF SessionInv, Healthy

(* Without a deleted context in use, every step of a client, the loop or a *)
(* worker keeps each command in one place.                                 *)
LEMMA HealthyStep == Inv /\ ~stale' /\ [Next]_vars => Healthy'
<1> SUFFICES ASSUME Inv, ~stale', [Next]_vars PROVE Healthy' OBVIOUS
<1>1. CASE UNCHANGED vars
  <2>1. UNCHANGED <<cpc, out, c2s, s2c, conn, context, up, lpc, current, pending, client, wpc, reply>>
    BY <1>1 DEF vars, clientVars, sockVars, connVars, loopVars, workVars
  <2>2. OneRequest' /\ \A d \in Clients : NoRequest(d)' <=> NoRequest(d)
    BY <2>1, SameRequests DEF Inv, Healthy
  <2>3. Serving' BY <2>1 DEF Inv, Healthy, Serving, EndsMessage
  <2>4. RequestsLive' /\ Receiving' /\ Phases' /\ Unconnected' /\ OpenHasContext'
    BY <2>1, <2>2, WorkerFrame
  <2> QED BY <2>2, <2>3, <2>4 DEF Healthy
<1>2. CASE \E c \in Clients : ClientConnect(c) \/ ClientStep(c) \/ ClientExit(c) \/ ClientKilled(c)
                              \/ \E n \in MsgSizes : ClientCommand(c, n)
  BY <1>2, ClientConnectStep, ClientWriteStep, ClientReceiveStep, ClientEofStep,
     ClientLeaveStep, ClientCommandStep DEF ClientStep
<1>3. CASE LoopStep \/ Quit \/ \E c \in Clients : AcceptFailsEarly(c) \/ AcceptFailsEvent(c)
  BY <1>3, AcceptStep, RecvBeginStep, RecvMutexStep, RecvReadStep, CloseStep, EndStep
     DEF LoopStep, Quit
<1>4. CASE \E w \in Workers : WorkerStep(w) \/ DeletedContextUsed(w)
  <2>1. PICK w \in Workers : WorkerStep(w) \/ DeletedContextUsed(w) BY <1>4
  <2>2. ~UseDeletedContext(w) BY DEF UseDeletedContext
  <2>3. ~DeletedContextUsed(w) BY DEF DeletedContextUsed, Inv, Healthy, Serving
  <2> QED BY <2>1, <2>2, <2>3, HandleRequestStep, SendLockStep, SendWriteStep, SendToClosedStep
          DEF WorkerStep
<1> QED BY <1>1, <1>2, <1>3, <1>4 DEF Next

(* A killed client stays so.                                               *)
LEMMA KilledStays ==
  TypeInv /\ [Next]_vars => \A c \in Clients : cpc[c] = "killed" => cpc'[c] = "killed"
<1> SUFFICES ASSUME TypeInv, [Next]_vars, NEW c \in Clients, cpc[c] = "killed"
             PROVE  cpc'[c] = "killed"
  OBVIOUS
<1>1. CASE \E d \in Clients : \/ ClientConnect(d) \/ ClientStep(d) \/ ClientExit(d)
                              \/ ClientKilled(d) \/ \E n \in MsgSizes : ClientCommand(d, n)
  <2>1. PICK d \in Clients : \/ ClientConnect(d) \/ ClientStep(d) \/ ClientExit(d)
                             \/ ClientKilled(d) \/ \E n \in MsgSizes : ClientCommand(d, n)
    BY <1>1
  <2>2. cpc[d] # "killed" /\ \E next : cpc' = [cpc EXCEPT ![d] = next]
    <3>1. CASE ClientConnect(d) BY <3>1 DEF ClientConnect
    <3>2. CASE ClientExit(d) \/ ClientKilled(d) BY <3>2 DEF ClientExit, ClientKilled, leave
    <3>3. CASE ClientStep(d)
      BY <3>3 DEF ClientStep, ClientWrite, ClientReceive, take_reply, ClientEof
    <3>4. CASE \E n \in MsgSizes : ClientCommand(d, n) BY <3>4 DEF ClientCommand
    <3> QED BY <2>1, <3>1, <3>2, <3>3, <3>4
  <2> QED BY <2>2 DEF TypeInv, TypeOK
<1>2. CASE LoopStep \/ Quit \/ \E d \in Clients : AcceptFailsEarly(d) \/ AcceptFailsEvent(d)
  BY <1>2 DEF LoopStep, Accept, AcceptFailsEarly, AcceptFailsEvent, RecvBegin, RecvLock,
              RecvRead, read_data, RecvEnd, close_connection, Quit, process_ends, clientVars
<1>3. CASE \E w \in Workers : WorkerStep(w) \/ DeletedContextUsed(w)
  BY <1>3 DEF WorkerStep, HandleRequest, take_event, SendLock, SendWrite, SendToClosed,
              process_ends, UseDeletedContext, DeletedContextUsed, clientVars
<1>4. CASE UNCHANGED vars BY <1>4 DEF vars, clientVars
<1> QED BY <1>1, <1>2, <1>3, <1>4 DEF Next

(* Only by a SessionEvent whose client was killed does a worker come to    *)
(* use a deleted context.                                                  *)
LEMMA StaleStep ==
  Inv /\ stale' /\ ~stale /\ [Next]_vars => \E c \in Clients : cpc[c] = "killed"
<1> SUFFICES ASSUME Inv, stale', ~stale, [Next]_vars PROVE \E c \in Clients : cpc[c] = "killed"
  OBVIOUS
<1>1. PICK w \in Workers : UseDeletedContext(w)
  BY DEF Next, LoopStep, ClientStep, WorkerStep, vars, ClientConnect, ClientWrite, ClientReceive,
         take_reply, ClientEof, ClientExit, ClientKilled, leave, ClientCommand, Accept,
         AcceptFailsEarly, AcceptFailsEvent, RecvBegin, RecvLock, RecvRead, read_data, RecvEnd,
         close_connection, Quit, process_ends, HandleRequest, take_event, SendLock, SendWrite,
         SendToClosed, DeletedContextUsed
<1>2. PICK c \in Clients : c = client[w] BY <1>1 DEF UseDeletedContext, Inv, TypeInv
<1>3. context[c] = "deleted" /\ ~NoRequest(c) BY <1>1, <1>2 DEF UseDeletedContext, NoRequest
<1> QED BY <1>3 DEF Inv, Healthy, RequestsLive

LEMMA InvStep == SessionInv /\ [Next]_vars => SessionInv'
<1> SUFFICES ASSUME SessionInv, [Next]_vars PROVE SessionInv' OBVIOUS
<1>1. TypeInv' BY TypeInvStep DEF SessionInv
<1>2. stale \in BOOLEAN /\ stale' \in BOOLEAN BY <1>1 DEF SessionInv, TypeInv, TypeOK
<1>3. ASSUME stale' PROVE \E c \in Clients : cpc'[c] = "killed"
  <2>1. \E c \in Clients : cpc[c] = "killed"
    BY <1>3, StaleStep DEF SessionInv, Inv
  <2> QED BY <2>1, KilledStays DEF SessionInv
<1>4. ASSUME ~stale' PROVE Healthy'
  <2>1. ~stale
    BY <1>4 DEF Next, LoopStep, ClientStep, WorkerStep, vars, ClientConnect, ClientWrite,
         ClientReceive, take_reply, ClientEof, ClientExit, ClientKilled, leave, ClientCommand,
         Accept, AcceptFailsEarly, AcceptFailsEvent, RecvBegin, RecvLock, RecvRead, read_data,
         RecvEnd, close_connection, Quit, process_ends, HandleRequest, take_event, SendLock,
         SendWrite, SendToClosed, UseDeletedContext, DeletedContextUsed
  <2> QED BY <1>4, <2>1, HealthyStep DEF SessionInv, Inv
<1> QED BY <1>1, <1>3, <1>4 DEF SessionInv

LEMMA PendingIndex == TypeOK => \A i \in DOMAIN pending : i \in Nat
<1>1. TypeOK => pending \in Seq(Clients) BY DEF TypeOK
<1>2. ASSUME pending \in Seq(Clients) PROVE \A i \in DOMAIN pending : i \in Nat
  <2>1. DOMAIN pending = 1 .. Len(pending) BY <1>2
  <2>2. Len(pending) \in Nat BY <1>2
  <2> QED BY <2>1, <2>2
<1> QED BY <1>1, <1>2

(* A SessionEvent's raw pointer to its ConnectionContext dangles only if   *)
(* its own client was killed before the reply, although close_connection() *)
(* deletes the context without asking the stage; no worker uses a deleted  *)
(* context before a client was killed.                                     *)
THEOREM ContextSafe == Spec => []ContextOutlivesRequests
<1>1. SessionInv => ContextOutlivesRequests
  <2> SUFFICES ASSUME SessionInv, ~stale, NEW c \in Clients, Requests(c) # {}
               PROVE  context[c] = "live" \/ cpc[c] = "killed"
    BY DEF ContextOutlivesRequests, SessionInv
  <2>1. \A i \in DOMAIN pending : i \in Nat BY PendingIndex DEF SessionInv, TypeInv
  <2>2. ~NoRequest(c) BY <2>1 DEF Requests, NoRequest, Queued
  <2> QED BY <2>2 DEF SessionInv, Healthy, RequestsLive
<1> QED BY <1>1, InitInv, InvStep, PTL DEF Spec

(* recv() touches the connection's one buffer while a SessionEvent still   *)
(* refers to the request in it only when the request's own client has been *)
(* killed.                                                                 *)
THEOREM BufferSafe == Spec => []RequestNotOverwritten
<1>1. SessionInv => RequestNotOverwritten
  <2> SUFFICES ASSUME SessionInv, ~stale, NEW c \in Clients,
                      lpc \in {"lock", "read"}, current = c, cpc[c] # "killed"
               PROVE  /\ \A i \in DOMAIN pending : pending[i] # c
                      /\ \A w \in Workers : client[w] = c => wpc[w] # "lock"
    BY DEF RequestNotOverwritten
  <2>1. \A i \in DOMAIN pending : i \in Nat BY PendingIndex DEF SessionInv, TypeInv
  <2>2. NoRequest(c) BY DEF SessionInv, Healthy, Receiving
  <2> QED BY <2>1, <2>2 DEF NoRequest, Queued
<1> QED BY <1>1, InitInv, InvStep, PTL DEF Spec

(* At the prompt of an open connection nothing of the last request is left *)
(* anywhere, so the next reply answers the next command, whichever other   *)
(* clients are killed, as long as no worker has used a deleted context.    *)
THEOREM RequestReply == Spec => []OneRequestOneReply
<1>1. SessionInv => OneRequestOneReply
  <2> SUFFICES ASSUME SessionInv, ~stale, NEW c \in Clients, cpc[c] = "prompt", conn[c] = "open"
               PROVE  /\ s2c[c] = <<>> /\ c2s[c] = <<>>
                      /\ \A i \in DOMAIN pending : pending[i] # c
                      /\ \A w \in Workers : client[w] # c
    BY DEF OneRequestOneReply
  <2>1. \A i \in DOMAIN pending : i \in Nat BY PendingIndex DEF SessionInv, TypeInv
  <2>2. Phase(c) BY DEF SessionInv, Healthy, Phases
  <2> QED BY <2>1, <2>2 DEF Phase, NoRequest, Queued
<1> QED BY <1>1, InitInv, InvStep, PTL DEF Spec

-----------------------------------------------------------------------------
(***************************************************************************)
(* The life of server processes, for any number of them that follow each   *)
(* other, any faults and a kill between any two steps: files left behind   *)
(* neither hide nor block the next server.  For any number of quit signals *)
(* at any moment: shutdown() meets a freed event base only on a thread that*)
(* another quit signal's thread has overtaken.                             *)
(***************************************************************************)
Present(p) == pc[p] \notin {"off", "gone"}

InServe == {"dispatch", "free", "stopped"}

-----------------------------------------------------------------------------
(* Files *)

\* Processes that do not overlap.
Alone == \A p, q \in Procs : Present(p) /\ Present(q) => p = q

\* Between unlink() and bind() nobody creates the path.
PathFree == \A p \in Procs : pc[p] = "bind" => sockfile = Nobody

\* From bind() until main() removes it the path names the process's socket.
PathOwned ==
  \A p \in Procs :
    pc[p] \in InServe \cup {"listen", "event", "remove_pid", "remove_socket"} =>
      sockfile = p

\* From writePidFile() until main() removes it the pid file holds its pid.
PidOwned ==
  \A p \in Procs :
    Present(p) /\ pc[p] \notin {"pid", "remove_socket"} => pidfile = p \/ faulted[p]

FilesInv == LifeTypeOK /\ Alone /\ PathFree /\ PathOwned /\ PidOwned /\ RestartSucceeds

-----------------------------------------------------------------------------
(* Signals *)

\* The thread of a signal runs in a process that is there and handles signals.
ThreadsLive ==
  \A s \in Signals :
    /\ spc[s] = "unsent" <=> target[s] = Nobody
    /\ spc[s] \notin {"unsent", "done"} =>
         /\ target[s] \in Procs /\ Present(target[s])
         /\ pc[target[s]] \notin {"pid", "handler"}

StartedInServe == \A p \in Procs : started[p] => pc[p] \in InServe \cup {"gone"}

BaseLive ==
  \A p \in Procs :
    /\ pc[p] \in {"socket", "unlink", "bind", "listen", "event", "dispatch", "free"} =>
         event_base[p] = "live"
    /\ pc[p] = "stopped" => event_base[p] = "freed"

\* The base is freed only after the loop was told to end.
LoopEndsByExit ==
  \A p \in Procs :
    pc[p] \in {"free", "stopped"} \/ event_base[p] = "freed" => exit_event[p]

\* The loop is told to end only by a thread that is through with shutdown().
ExitByThread ==
  \A p \in Procs :
    exit_event[p] /\ pc[p] # "gone" => \E s \in Signals : target[s] = p /\ spc[s] = "exited"

\* shutdown() that found started_ set has met the base serve() made.
ShutdownFindsBase ==
  \A s \in Signals : spc[s] \in {"clear", "loopexit"} => event_base[target[s]] # "null"

SignalInv ==
  /\ LifeTypeOK /\ ThreadsLive /\ StartedInServe /\ BaseLive
  /\ LoopEndsByExit /\ ExitByThread /\ ShutdownFindsBase

-----------------------------------------------------------------------------
(* Types *)

(* exit() at a failed call leaves well-typed state behind.                 *)
LEMMA FailsType ==
  ASSUME LifeTypeOK, NEW p \in Procs, NEW f, Fails(p, f)
  PROVE  LifeTypeOK'
BY DEF LifeTypeOK, Fails, End, Goto, Set, files

(* Every step of a process or a signal's thread keeps the types.           *)
LEMMA TypeStep == LifeTypeOK /\ [LifeNext]_lifeVars => LifeTypeOK'
<1> SUFFICES ASSUME LifeTypeOK, [LifeNext]_lifeVars PROVE LifeTypeOK' OBVIOUS
<1> USE DEF LifeTypeOK, files, signalVars, procVars
<1>1. ASSUME NEW p \in Procs, StartProcess(p) PROVE LifeTypeOK'
  BY <1>1 DEF StartProcess, Goto, Set
<1>2. ASSUME NEW p \in Procs, writePidFile(p) PROVE LifeTypeOK'
  BY <1>2 DEF writePidFile, write_pid, Goto, Set
<1>3. ASSUME NEW p \in Procs, setSignalHandler(p) PROVE LifeTypeOK'
  BY <1>3 DEF setSignalHandler, Goto, Set
<1>4. ASSUME NEW p \in Procs, init_seda(p) PROVE LifeTypeOK'
  <2>1. CASE Fails(p, "seda") BY <1>4, <2>1, FailsType DEF init_seda
  <2>2. CASE ~Fails(p, "seda") BY <1>4, <2>2 DEF init_seda, Goto, Set
  <2> QED BY <2>1, <2>2
<1>5. ASSUME NEW p \in Procs, init_server(p) PROVE LifeTypeOK'
  BY <1>5 DEF init_server, Goto, Set
<1>6. ASSUME NEW p \in Procs, event_base_new(p) PROVE LifeTypeOK'
  <2>1. CASE Fails(p, "base") BY <1>6, <2>1, FailsType DEF event_base_new
  <2>2. CASE ~Fails(p, "base")
    BY <1>6, <2>2 DEF event_base_new, Goto, Set
  <2> QED BY <2>1, <2>2
<1>7. ASSUME NEW p \in Procs, CreateSocket(p) PROVE LifeTypeOK'
  <2>1. CASE Fails(p, "socket") BY <1>7, <2>1, FailsType DEF CreateSocket
  <2>2. CASE ~Fails(p, "socket")
    BY <1>7, <2>2 DEF CreateSocket, Goto, Set
  <2> QED BY <2>1, <2>2
<1>8. ASSUME NEW p \in Procs, UnlinkSocket(p) PROVE LifeTypeOK'
  BY <1>8 DEF UnlinkSocket, unlink_path, Goto, Set
<1>9. ASSUME NEW p \in Procs, Bind(p) PROVE LifeTypeOK'
  <2>1. CASE Fails(p, "bind") BY <1>9, <2>1, FailsType DEF Bind
  <2>2. CASE ~Fails(p, "bind")
    BY <1>9, <2>2 DEF Bind, End, Goto, Set
  <2> QED BY <2>1, <2>2
<1>10. ASSUME NEW p \in Procs, Listen(p) PROVE LifeTypeOK'
  <2>1. CASE Fails(p, "listen") BY <1>10, <2>1, FailsType DEF Listen
  <2>2. CASE ~Fails(p, "listen") BY <1>10, <2>2 DEF Listen, Goto, Set
  <2> QED BY <2>1, <2>2
<1>11. ASSUME NEW p \in Procs, AddListenEvent(p) PROVE LifeTypeOK'
  <2>1. CASE Fails(p, "event") BY <1>11, <2>1, FailsType DEF AddListenEvent
  <2>2. CASE ~Fails(p, "event")
    BY <1>11, <2>2 DEF AddListenEvent, Goto, Set
  <2> QED BY <2>1, <2>2
<1>12. ASSUME NEW p \in Procs, Dispatch(p) PROVE LifeTypeOK'
  BY <1>12 DEF Dispatch, leave_dispatch, Goto, Set
<1>13. ASSUME NEW p \in Procs, event_base_free(p) PROVE LifeTypeOK'
  BY <1>13 DEF event_base_free, Goto, Set
<1>14. ASSUME NEW p \in Procs, ServeReturns(p) PROVE LifeTypeOK'
  BY <1>14 DEF ServeReturns, Goto, Set
<1>15. ASSUME NEW p \in Procs, removePidFile(p) PROVE LifeTypeOK'
  BY <1>15 DEF removePidFile, remove_pid, Goto, Set
<1>16. ASSUME NEW p \in Procs, RemoveSocketFile(p) PROVE LifeTypeOK'
  BY <1>16 DEF RemoveSocketFile, End, Goto, Set
<1>17. ASSUME NEW p \in Procs, Kill(p) PROVE LifeTypeOK'
  BY <1>17 DEF Kill, End, Goto, Set
<1>18. ASSUME NEW s \in Signals, NEW p \in Procs, Signal(s, p) PROVE LifeTypeOK'
  BY <1>18 DEF Signal, Goto, Set
<1>19. ASSUME NEW s \in Signals, QuitThread(s) PROVE LifeTypeOK'
  BY <1>19 DEF QuitThread, Advance
<1>20. ASSUME NEW s \in Signals, TestEventBase(s) PROVE LifeTypeOK'
  BY <1>20 DEF TestEventBase, Advance
<1>21. ASSUME NEW s \in Signals, TestStarted(s) PROVE LifeTypeOK'
  BY <1>21 DEF TestStarted, Advance
<1>22. ASSUME NEW s \in Signals, ClearStarted(s) PROVE LifeTypeOK'
  BY <1>22 DEF ClearStarted, Advance, Set
<1>23. ASSUME NEW s \in Signals, LoopExit(s) PROVE LifeTypeOK'
  BY <1>23 DEF LoopExit, loop_exit, Advance, Set
<1>24. ASSUME NEW s \in Signals, LoopExitFreed(s) PROVE LifeTypeOK'
  BY <1>24 DEF LoopExitFreed, Advance, End, Goto, Set
<1>25. CASE UNCHANGED lifeVars
  BY <1>25 DEF lifeVars
<1> QED BY <1>1, <1>2, <1>3, <1>4, <1>5, <1>6, <1>7, <1>8, <1>9, <1>10, <1>11, <1>12,
          <1>13, <1>14, <1>15, <1>16, <1>17, <1>18, <1>19, <1>20, <1>21, <1>22, <1>23, <1>24,
          <1>25
       DEF LifeNext, MainStep, SignalStep

-----------------------------------------------------------------------------
(* Files *)

(* exit() at a failed call leaves the files as they are.                   *)
LEMMA FailsFiles ==
  ASSUME FilesInv, NEW p \in Procs, NEW f, Fails(p, f)
  PROVE  FilesInv'
BY FailsType DEF FilesInv, LifeTypeOK, Alone, Present, PathFree, PathOwned, PidOwned,
   InServe,
   RestartSucceeds, Fails, End, Goto, Set, files

(* While processes do not overlap, every step keeps the files in order.    *)
LEMMA FilesStep == FilesInv /\ ~Overlap /\ [LifeNext]_lifeVars => FilesInv'
<1> SUFFICES ASSUME FilesInv, ~Overlap, [LifeNext]_lifeVars PROVE FilesInv' OBVIOUS
<1>t. LifeTypeOK' BY TypeStep DEF FilesInv
<1> DEFINE Rest == Alone /\ PathFree /\ PathOwned /\ PidOwned /\ RestartSucceeds
<1> SUFFICES Rest' BY <1>t DEF FilesInv
<1> USE DEF FilesInv, LifeTypeOK, Alone, Present, PathFree, PathOwned, PidOwned, InServe,
            RestartSucceeds, files, signalVars, procVars
<1>1. ASSUME NEW p \in Procs, StartProcess(p) PROVE Rest'
  BY <1>1 DEF StartProcess, Goto, Set
<1>2. ASSUME NEW p \in Procs, writePidFile(p) PROVE Rest'
  BY <1>2 DEF writePidFile, write_pid, Goto, Set
<1>3. ASSUME NEW p \in Procs, setSignalHandler(p) PROVE Rest'
  BY <1>3 DEF setSignalHandler, Goto, Set
<1>4. ASSUME NEW p \in Procs, init_seda(p) PROVE Rest'
  <2>1. CASE Fails(p, "seda") BY <1>4, <2>1, FailsFiles DEF init_seda
  <2>2. CASE ~Fails(p, "seda") BY <1>4, <2>2 DEF init_seda, Goto, Set
  <2> QED BY <2>1, <2>2
<1>5. ASSUME NEW p \in Procs, init_server(p) PROVE Rest'
  BY <1>5 DEF init_server, Goto, Set
<1>6. ASSUME NEW p \in Procs, event_base_new(p) PROVE Rest'
  <2>1. CASE Fails(p, "base") BY <1>6, <2>1, FailsFiles DEF event_base_new
  <2>2. CASE ~Fails(p, "base")
    BY <1>6, <2>2 DEF event_base_new, Goto, Set
  <2> QED BY <2>1, <2>2
<1>7. ASSUME NEW p \in Procs, CreateSocket(p) PROVE Rest'
  <2>1. CASE Fails(p, "socket") BY <1>7, <2>1, FailsFiles DEF CreateSocket
  <2>2. CASE ~Fails(p, "socket")
    BY <1>7, <2>2 DEF CreateSocket, Goto, Set
  <2> QED BY <2>1, <2>2
<1>8. ASSUME NEW p \in Procs, UnlinkSocket(p) PROVE Rest'
  BY <1>8 DEF UnlinkSocket, unlink_path, Goto, Set
<1>9. ASSUME NEW p \in Procs, Bind(p) PROVE Rest'
  <2>1. CASE Fails(p, "bind") BY <1>9, <2>1, FailsFiles DEF Bind
  <2>2. CASE ~Fails(p, "bind")
    BY <1>9, <2>2 DEF Bind, End, Goto, Set
  <2> QED BY <2>1, <2>2
<1>10. ASSUME NEW p \in Procs, Listen(p) PROVE Rest'
  <2>1. CASE Fails(p, "listen") BY <1>10, <2>1, FailsFiles DEF Listen
  <2>2. CASE ~Fails(p, "listen") BY <1>10, <2>2 DEF Listen, Goto, Set
  <2> QED BY <2>1, <2>2
<1>11. ASSUME NEW p \in Procs, AddListenEvent(p) PROVE Rest'
  <2>1. CASE Fails(p, "event") BY <1>11, <2>1, FailsFiles DEF AddListenEvent
  <2>2. CASE ~Fails(p, "event")
    BY <1>11, <2>2 DEF AddListenEvent, Goto, Set
  <2> QED BY <2>1, <2>2
<1>12. ASSUME NEW p \in Procs, Dispatch(p) PROVE Rest'
  BY <1>12 DEF Dispatch, leave_dispatch, Goto, Set
<1>13. ASSUME NEW p \in Procs, event_base_free(p) PROVE Rest'
  BY <1>13 DEF event_base_free, Goto, Set
<1>14. ASSUME NEW p \in Procs, ServeReturns(p) PROVE Rest'
  BY <1>14 DEF ServeReturns, Goto, Set
<1>15. ASSUME NEW p \in Procs, removePidFile(p) PROVE Rest'
  BY <1>15 DEF removePidFile, remove_pid, Goto, Set
<1>16. ASSUME NEW p \in Procs, RemoveSocketFile(p) PROVE Rest'
  BY <1>16 DEF RemoveSocketFile, End, Goto, Set
<1>17. ASSUME NEW p \in Procs, Kill(p) PROVE Rest'
  BY <1>17 DEF Kill, End, Goto, Set
<1>18. ASSUME NEW s \in Signals, NEW p \in Procs, Signal(s, p) PROVE Rest'
  BY <1>18 DEF Signal, Goto, Set
<1>19. ASSUME NEW s \in Signals, QuitThread(s) PROVE Rest'
  BY <1>19 DEF QuitThread, Advance
<1>20. ASSUME NEW s \in Signals, TestEventBase(s) PROVE Rest'
  BY <1>20 DEF TestEventBase, Advance
<1>21. ASSUME NEW s \in Signals, TestStarted(s) PROVE Rest'
  BY <1>21 DEF TestStarted, Advance
<1>22. ASSUME NEW s \in Signals, ClearStarted(s) PROVE Rest'
  BY <1>22 DEF ClearStarted, Advance, Set
<1>23. ASSUME NEW s \in Signals, LoopExit(s) PROVE Rest'
  BY <1>23 DEF LoopExit, loop_exit, Advance, Set
<1>24. ASSUME NEW s \in Signals, LoopExitFreed(s) PROVE Rest'
  BY <1>24 DEF LoopExitFreed, Advance, End, Goto, Set
<1>25. CASE UNCHANGED lifeVars
  BY <1>25 DEF lifeVars
<1> QED BY <1>1, <1>2, <1>3, <1>4, <1>5, <1>6, <1>7, <1>8, <1>9, <1>10, <1>11, <1>12,
          <1>13, <1>14, <1>15, <1>16, <1>17, <1>18, <1>19, <1>20, <1>21, <1>22, <1>23, <1>24,
          <1>25
       DEF LifeNext, MainStep, SignalStep

(* A server that serves is found under its path and its pid, wherever the  *)
(* processes before it were killed: unlink() before bind() and the pid     *)
(* file written anew put things right, as long as processes do not overlap.*)
THEOREM ServerReachable ==
  ASSUME ~Overlap
  PROVE  LifeSpec => []Reachable
<1>1. LifeInit => FilesInv
  BY LifecycleAssumption DEF LifeInit, FilesInv, LifeTypeOK, Alone, Present,
     PathFree, PathOwned,
     PidOwned, InServe, RestartSucceeds
<1>2. FilesInv => Reachable
  BY DEF FilesInv, LifeTypeOK, PathOwned, PidOwned, Present, InServe, Reachable
<1>3. FilesInv /\ [LifeNext]_lifeVars => FilesInv' BY FilesStep
<1> QED BY <1>1, <1>2, <1>3, PTL DEF LifeSpec

(* A process that gives up in start_unix_socket_server() does so because a *)
(* call failed for an outside reason, never because of a file an earlier   *)
(* process left at the path.                                               *)
THEOREM RestartNotBlocked ==
  ASSUME ~Overlap
  PROVE  LifeSpec => []RestartSucceeds
<1>1. LifeInit => FilesInv
  BY LifecycleAssumption DEF LifeInit, FilesInv, LifeTypeOK, Alone, Present,
     PathFree, PathOwned,
     PidOwned, InServe, RestartSucceeds
<1>2. FilesInv => RestartSucceeds BY DEF FilesInv
<1>3. FilesInv /\ [LifeNext]_lifeVars => FilesInv' BY FilesStep
<1> QED BY <1>1, <1>2, <1>3, PTL DEF LifeSpec

-----------------------------------------------------------------------------
(* Signals *)

(* The end of a process takes its threads along.                           *)
LEMMA EndSignals ==
  ASSUME SignalInv, NEW p \in Procs, NEW how, End(p, how),
     LifeTypeOK',
         UNCHANGED <<event_base, started, exit_event, target>>
  PROVE  SignalInv'
<1> USE DEF SignalInv, LifeTypeOK, End, Goto, Set
<1>1. ThreadsLive' BY LifecycleAssumption DEF ThreadsLive, Present
<1>3. StartedInServe' BY DEF StartedInServe, InServe
<1>4. BaseLive' BY DEF BaseLive
<1>5. LoopEndsByExit' BY DEF LoopEndsByExit
<1>6. ExitByThread' BY DEF ExitByThread, ThreadsLive, Present
<1>7. ShutdownFindsBase' BY DEF ShutdownFindsBase, ThreadsLive, Present
<1> QED BY <1>1, <1>3, <1>4, <1>5, <1>6, <1>7

(* Every step of a process or a signal's thread keeps the end of the loop  *)
(* tied to a thread that asked for it.                                     *)
LEMMA SignalInvStep ==
  ASSUME SignalInv, [LifeNext]_lifeVars
  PROVE  SignalInv'
<1>t. LifeTypeOK' BY TypeStep DEF SignalInv
<1>f. ASSUME NEW p \in Procs, NEW f, Fails(p, f) PROVE SignalInv'
  BY <1>t, <1>f, EndSignals DEF Fails
<1> DEFINE Rest == /\ ThreadsLive /\ StartedInServe /\ BaseLive
                   /\ LoopEndsByExit /\ ExitByThread /\ ShutdownFindsBase
<1> SUFFICES Rest' BY <1>t DEF SignalInv
<1> USE DEF SignalInv, LifeTypeOK, ThreadsLive, Present, StartedInServe, InServe,
            BaseLive, LoopEndsByExit, ExitByThread, ShutdownFindsBase, files, signalVars,
            procVars
<1>1. ASSUME NEW p \in Procs, StartProcess(p) PROVE Rest'
  BY <1>1 DEF StartProcess, Goto, Set
<1>2. ASSUME NEW p \in Procs, writePidFile(p) PROVE Rest'
  BY <1>2 DEF writePidFile, write_pid, Goto, Set
<1>3. ASSUME NEW p \in Procs, setSignalHandler(p) PROVE Rest'
  BY <1>3 DEF setSignalHandler, Goto, Set
<1>4. ASSUME NEW p \in Procs, init_seda(p) PROVE Rest'
  <2>1. CASE Fails(p, "seda") BY <1>4, <2>1, <1>f DEF init_seda
  <2>2. CASE ~Fails(p, "seda") BY <1>4, <2>2 DEF init_seda, Goto, Set
  <2> QED BY <2>1, <2>2
<1>5. ASSUME NEW p \in Procs, init_server(p) PROVE Rest'
  BY <1>5 DEF init_server, Goto, Set
<1>6. ASSUME NEW p \in Procs, event_base_new(p) PROVE Rest'
  <2>1. CASE Fails(p, "base") BY <1>6, <2>1, <1>f DEF event_base_new
  <2>2. CASE ~Fails(p, "base")
    BY <1>6, <2>2 DEF event_base_new, Goto, Set
  <2> QED BY <2>1, <2>2
<1>7. ASSUME NEW p \in Procs, CreateSocket(p) PROVE Rest'
  <2>1. CASE Fails(p, "socket") BY <1>7, <2>1, <1>f DEF CreateSocket
  <2>2. CASE ~Fails(p, "socket")
    BY <1>7, <2>2 DEF CreateSocket, Goto, Set
  <2> QED BY <2>1, <2>2
<1>8. ASSUME NEW p \in Procs, UnlinkSocket(p) PROVE Rest'
  BY <1>8 DEF UnlinkSocket, unlink_path, Goto, Set
<1>9. ASSUME NEW p \in Procs, Bind(p) PROVE Rest'
  <2>1. CASE Fails(p, "bind") BY <1>9, <2>1, <1>f DEF Bind
  <2>2. CASE End(p, "exited") /\ UNCHANGED <<event_base, started, exit_event, target>>
    BY <1>t, <2>2, EndSignals
  <2>3. CASE /\ Goto(p, "listen")
             /\ UNCHANGED <<event_base, started, exit_event, signalVars>>
    BY <1>9, <2>3 DEF Bind, Goto
  <2> QED BY <1>9, <2>1, <2>2, <2>3 DEF Bind
<1>10. ASSUME NEW p \in Procs, Listen(p) PROVE Rest'
  <2>1. CASE Fails(p, "listen") BY <1>10, <2>1, <1>f DEF Listen
  <2>2. CASE ~Fails(p, "listen") BY <1>10, <2>2 DEF Listen, Goto, Set
  <2> QED BY <2>1, <2>2
<1>11. ASSUME NEW p \in Procs, AddListenEvent(p) PROVE Rest'
  <2>1. CASE Fails(p, "event") BY <1>11, <2>1, <1>f DEF AddListenEvent
  <2>2. CASE ~Fails(p, "event")
    BY <1>11, <2>2 DEF AddListenEvent, Goto, Set
  <2> QED BY <2>1, <2>2
<1>12. ASSUME NEW p \in Procs, Dispatch(p) PROVE Rest'
  BY <1>12 DEF Dispatch, leave_dispatch, Goto, Set
<1>13. ASSUME NEW p \in Procs, event_base_free(p) PROVE Rest'
  BY <1>13 DEF event_base_free, Goto, Set
<1>14. ASSUME NEW p \in Procs, ServeReturns(p) PROVE Rest'
  BY <1>14 DEF ServeReturns, Goto, Set
<1>15. ASSUME NEW p \in Procs, removePidFile(p) PROVE Rest'
  BY <1>15 DEF removePidFile, remove_pid, Goto, Set
<1>16. ASSUME NEW p \in Procs, RemoveSocketFile(p) PROVE Rest'
  BY <1>16, <1>t, EndSignals DEF RemoveSocketFile
<1>17. ASSUME NEW p \in Procs, Kill(p) PROVE Rest'
  BY <1>17, <1>t, EndSignals DEF Kill
<1>18. ASSUME NEW s \in Signals, NEW p \in Procs, Signal(s, p) PROVE Rest'
  <2>1. /\ spc[s] = "unsent" /\ target[s] = Nobody /\ Nobody \notin Procs
        /\ pc[p] \notin {"off", "gone"} /\ target' = [target EXCEPT ![s] = p]
        /\ UNCHANGED <<event_base, started, exit_event>>
    BY <1>18, LifecycleAssumption DEF Signal
  <2>2. CASE pc[p] \in {"pid", "handler"}
    BY <1>18, <2>1, <2>2 DEF Signal, Goto, Set
  <2>3. CASE pc[p] \notin {"pid", "handler"}
    <3>1. pc' = pc /\ spc' = [spc EXCEPT ![s] = "server"] BY <1>18, <2>3 DEF Signal
    <3> QED BY <2>1, <2>3, <3>1
  <2> QED BY <2>2, <2>3
<1>19. ASSUME NEW s \in Signals, QuitThread(s) PROVE Rest'
  BY <1>19 DEF QuitThread, Advance
<1>20. ASSUME NEW s \in Signals, TestEventBase(s) PROVE Rest'
  BY <1>20 DEF TestEventBase, Advance
<1>21. ASSUME NEW s \in Signals, TestStarted(s) PROVE Rest'
  BY <1>21 DEF TestStarted, Advance
<1>22. ASSUME NEW s \in Signals, ClearStarted(s) PROVE Rest'
  BY <1>22 DEF ClearStarted, Advance, Set
<1>23. ASSUME NEW s \in Signals, LoopExit(s) PROVE Rest'
  BY <1>23 DEF LoopExit, loop_exit, Advance, Set
<1>24. ASSUME NEW s \in Signals, LoopExitFreed(s) PROVE Rest'
  BY <1>24, <1>t, EndSignals DEF LoopExitFreed, Advance
<1>25. CASE UNCHANGED lifeVars
  BY <1>25 DEF lifeVars
<1> QED BY <1>1, <1>2, <1>3, <1>4, <1>5, <1>6, <1>7, <1>8, <1>9, <1>10, <1>11, <1>12,
          <1>13, <1>14, <1>15, <1>16, <1>17, <1>18, <1>19, <1>20, <1>21, <1>22, <1>23, <1>24,
          <1>25
       DEF LifeNext, MainStep, SignalStep

(* However many quit signals arrive and whenever they do, a thread calls   *)
(* event_base_loopexit() on a base that serve() has freed only if the      *)
(* thread of another signal ended the loop in between: no single signal,   *)
(* and no other way out of the loop, leads there.                          *)
THEOREM ShutdownMeetsLiveBase == LifeSpec => []NoUseAfterFree
<1>1. LifeInit => SignalInv
  BY LifecycleAssumption DEF LifeInit, SignalInv, LifeTypeOK, ThreadsLive, Present,
     StartedInServe, InServe, BaseLive, LoopEndsByExit, ExitByThread, ShutdownFindsBase
<1>2. SignalInv => NoUseAfterFree
  <2> SUFFICES ASSUME SignalInv, NEW s \in Signals, spc[s] = "loopexit",
                      event_base[target[s]] # "live"
               PROVE  \E t \in Signals \ {s} : target[t] = target[s] /\ spc[t] = "exited"
    BY DEF NoUseAfterFree
  <2>1. target[s] \in Procs /\ Present(target[s]) BY DEF SignalInv, ThreadsLive
  <2>2. event_base[target[s]] = "freed"
    BY <2>1 DEF SignalInv, LifeTypeOK, ShutdownFindsBase
  <2>3. exit_event[target[s]] BY <2>1, <2>2 DEF SignalInv, LoopEndsByExit
  <2>4. \E t \in Signals : target[t] = target[s] /\ spc[t] = "exited"
    BY <2>1, <2>3 DEF SignalInv, ExitByThread, Present
  <2> QED BY <2>4
<1>3. SignalInv /\ [LifeNext]_lifeVars => SignalInv' BY SignalInvStep
<1> QED BY <1>1, <1>2, <1>3, PTL DEF LifeSpec

=============================================================================
