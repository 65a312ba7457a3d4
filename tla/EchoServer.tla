----------------------------- MODULE EchoServer -----------------------------
(***************************************************************************)
(* tcp-server/src/core.rs, IterativeTcpServer, running the                 *)
(* DelayedEchoService of service.rs: the accept loop calls the handler     *)
(* itself, so connections are served one after the other and a panic of    *)
(* the handler unwinds out of serve and ends the server.                   *)
(*                                                                         *)
(* A stream carries lines, and then perhaps the end of the stream or a     *)
(* reset.  A line is a member of Text, Empty, or Garbage: bytes that are   *)
(* not UTF-8.  The delay itself is left out: it is a step.                 *)
(***************************************************************************)
EXTENDS Integers, SequencesExt

CONSTANTS
  Conns,     \* the connections clients may make
  Text,      \* the lines a client may send, apart from the two special ones
  Empty, Garbage, Fin, Rst,
  MaxLines,  \* bound: the lines a client sends
  NoConn

ASSUME EchoAssumption ==
  /\ MaxLines \in Nat
  /\ NoConn \notin Conns
  /\ {Empty, Garbage, Fin, Rst} \cap Text = {}

VARIABLES
  pc,       \* where the server is: "accept", "read", "write", "shutdown" or "dead"
  cur,      \* the connection the handler has
  data,     \* the lines the handler has collected
  net,      \* what has become of each client's connection
  backlog,  \* the connections established and not accepted, in order
  inbox,    \* what a client sent and the server has not read
  sent,     \* history: all that a client sent
  reply,    \* the lines the client was sent, once they were
  killed    \* history: the process was killed from outside

vars == <<pc, cur, data, net, backlog, inbox, sent, reply, killed>>

NoReply == <<Fin>>
Lines == Text \cup {Empty, Garbage}
Ends == {Fin, Rst}
SentEnd(c, end) == \E k \in DOMAIN sent[c] : sent[c][k] = end

Init ==
  /\ pc = "accept" /\ cur = NoConn /\ data = << >>
  /\ net = [c \in Conns |-> "new"]
  /\ backlog = << >>
  /\ inbox = [c \in Conns |-> << >>]
  /\ sent = [c \in Conns |-> << >>]
  /\ reply = [c \in Conns |-> NoReply]
  /\ killed = FALSE

-----------------------------------------------------------------------------
(* The clients and the kernel.                                             *)

Connect(c) ==
  /\ net[c] = "new"
  /\ net' = [net EXCEPT ![c] = IF pc = "dead" THEN "refused" ELSE "backlog"]
  /\ backlog' = IF pc = "dead" THEN backlog ELSE Append(backlog, c)
  /\ UNCHANGED <<pc, cur, data, inbox, sent, reply, killed>>

(* When the listener is gone the kernel resets what waits in its backlog.  *)
ResetBacklog ==
  /\ pc = "dead"
  /\ backlog # << >>
  /\ net' = [net EXCEPT ![Head(backlog)] = "reset"]
  /\ backlog' = Tail(backlog)
  /\ UNCHANGED <<pc, cur, data, inbox, sent, reply, killed>>

(* A client writes as soon as it is connected, accepted or not.            *)
ClientSends(c, item) ==
  /\ net[c] \in {"backlog", "accepted"}
  /\ ~SentEnd(c, Rst)
  /\ SentEnd(c, Fin) => item = Rst
  /\ item \in Lines => Len(sent[c]) < MaxLines
  /\ sent' = [sent EXCEPT ![c] = Append(@, item)]
  /\ inbox' = [inbox EXCEPT ![c] = Append(@, item)]
  /\ UNCHANGED <<pc, cur, data, net, backlog, reply, killed>>

-----------------------------------------------------------------------------
(* The server.                                                             *)

Accept ==
  /\ pc = "accept"
  /\ backlog # << >>
  /\ cur' = Head(backlog)
  /\ backlog' = Tail(backlog)
  /\ net' = [net EXCEPT ![cur'] = "accepted"]
  /\ data' = << >>
  /\ pc' = "read"
  /\ UNCHANGED <<inbox, sent, reply, killed>>

(* Mutant: empty lines are left out instead of ending the request.         *)
TakeWhile_Filters(line) ==
  /\ data' = IF line \in Text THEN Append(data, line) ELSE data
  /\ pc' = IF line = Fin THEN "write" ELSE "read"

(* Mutant: the line that ends the request belongs to it.                   *)
TakeWhile_Inclusive(line) ==
  /\ data' = IF line = Fin THEN data ELSE Append(data, line)
  /\ pc' = IF line \in Text THEN "read" ELSE "write"

(* The request ends with an empty line or with the end of the stream.      *)
TakeWhile(line) ==
  /\ data' = IF line \in Text THEN Append(data, line) ELSE data
  /\ pc' = IF line \in Text THEN "read" ELSE "write"

ReadLine ==
  /\ pc = "read"
  /\ inbox[cur] # << >>
  /\ Head(inbox[cur]) \in Text \cup {Empty, Fin}
  /\ TakeWhile(Head(inbox[cur]))
  /\ inbox' = [inbox EXCEPT ![cur] = Tail(@)]
  /\ UNCHANGED <<cur, net, backlog, sent, reply, killed>>

(* The process ends, its listener with it, and the stream it had open. *)
Die ==
  /\ pc' = "dead"
  /\ cur' = NoConn
  /\ net' = IF cur = NoConn THEN net ELSE [net EXCEPT ![cur] = "closed"]
  /\ UNCHANGED <<data, backlog, inbox, sent, reply>>

(* Mutant: a line that cannot be read is skipped. *)
ReadPanics_Skips ==
  /\ pc = "read"
  /\ inbox[cur] # << >>
  /\ Head(inbox[cur]) \in {Garbage, Rst}
  /\ inbox' = [inbox EXCEPT ![cur] = Tail(@)]
  /\ UNCHANGED <<pc, cur, data, net, backlog, sent, reply, killed>>

(* line.unwrap(): a reset, or bytes that are not text.                     *)
ReadPanics ==
  /\ pc = "read"
  /\ inbox[cur] # << >>
  /\ Head(inbox[cur]) \in {Garbage, Rst}
  /\ Die
  /\ UNCHANGED killed

Write ==
  /\ pc = "write"
  /\ reply' = [reply EXCEPT ![cur] = data]
  /\ pc' = "shutdown"
  /\ UNCHANGED <<cur, data, net, backlog, inbox, sent, killed>>

(* The handler returns and the stream is dropped. *)
Close ==
  /\ net' = [net EXCEPT ![cur] = "closed"]
  /\ cur' = NoConn
  /\ pc' = "accept"
  /\ UNCHANGED <<data, backlog, inbox, sent, reply, killed>>

(* Mutant: the error is unwrapped. *)
WriteFails_Unwrapped ==
  /\ pc = "write"
  /\ SentEnd(cur, Fin) \/ SentEnd(cur, Rst)
  /\ Die
  /\ UNCHANGED killed

(* A peer that has closed may answer the reply with a reset; the error is  *)
(* logged and the loop goes on.                                            *)
WriteFails ==
  /\ pc = "write"
  /\ SentEnd(cur, Fin) \/ SentEnd(cur, Rst)
  /\ Close

(* A shutdown that fails is logged as well. *)
Shutdown == pc = "shutdown" /\ Close

ServerDies == pc # "dead" /\ Die /\ killed' = TRUE

-----------------------------------------------------------------------------
Quiet ==
  /\ pc \in {"accept", "dead"}
  /\ backlog = << >>
  /\ \A c \in Conns : net[c] # "new"
  /\ UNCHANGED vars

ServerStep ==
  \/ Accept \/ ReadLine \/ ReadPanics
  \/ Write \/ WriteFails \/ Shutdown

ClientStep(c) == Connect(c) \/ \E item \in Lines \cup Ends : ClientSends(c, item)

Next ==
  \/ ServerStep \/ ServerDies
  \/ \E c \in Conns : ClientStep(c)
  \/ ResetBacklog
  \/ Quiet

Spec == Init /\ [][Next]_vars

(* The server runs, and every client that stays connected ends its stream  *)
(* sooner or later, one way or the other: the code waits for it without a  *)
(* timeout.                                                                *)
Fairness ==
  /\ WF_vars(ServerStep)
  /\ WF_vars(ResetBacklog)
  /\ \A c \in Conns : WF_vars(~SentEnd(c, Fin) /\ \E item \in Ends : ClientSends(c, item))

FairSpec == Spec /\ Fairness

-----------------------------------------------------------------------------
TypeOK ==
  /\ pc \in {"accept", "read", "write", "shutdown", "dead"}
  /\ cur \in Conns \cup {NoConn}
  /\ cur = NoConn <=> pc \in {"accept", "dead"}
  /\ data \in Seq(Text)
  /\ net \in [Conns -> {"new", "backlog", "accepted", "closed", "refused", "reset"}]
  /\ backlog \in Seq(Conns)
  /\ inbox \in [Conns -> Seq(Lines \cup Ends)]
  /\ sent \in [Conns -> Seq(Lines \cup Ends)]
  /\ reply \in [Conns -> Seq(Text) \cup {NoReply}]
  /\ killed \in BOOLEAN

(* The lines before the first one that is not text. *)
Request(c) ==
  LET n == SelectInSeq(sent[c], LAMBDA item : item \notin Text)
  IN  IF n = 0 THEN sent[c] ELSE SubSeq(sent[c], 1, n - 1)

(* A stream that begins with these lines, and one of these items follows.  *)
FollowedBy(lines, items, stream) ==
  /\ Len(stream) > Len(lines)
  /\ \A k \in DOMAIN lines : stream[k] = lines[k]
  /\ stream[Len(lines) + 1] \in items

(* What ends a request, and what cannot be read. *)
Enders == {Empty, Fin}
Unreadable == {Garbage, Rst}

(* A client is sent back exactly its own lines, in order, up to the first  *)
(* empty one or the end of its stream, and only when they were all text:   *)
(* nothing of an earlier connection, nothing that followed.                *)
EchoesTheRequest ==
  /\ TypeOK
  /\ \A c \in Conns : reply[c] # NoReply =>
       reply[c] = Request(c) /\ FollowedBy(Request(c), Enders, sent[c])

(* When the server ends by itself, the request of a client it was serving  *)
(* was cut off by a line that cannot be read.  A peer that leaves while it *)
(* is being answered does not end it, nor does anything that a client sent *)
(* behind the end of its request, where the server does not read.          *)
OnlyBadLinesKill ==
  pc = "dead" /\ ~killed =>
    \E c \in Conns : net[c] = "closed" /\ FollowedBy(Request(c), Unreadable, sent[c])

(* What makes these inductive: who has a connection and where it waits...  *)
ConnsAgree ==
  /\ \A c \in Conns : net[c] = "accepted" <=> cur = c
  /\ \A c \in Conns : net[c] = "backlog" <=> \E k \in DOMAIN backlog : backlog[k] = c
  /\ \A j, k \in DOMAIN backlog : backlog[j] = backlog[k] => j = k

(* ... that nothing is read before it is accepted, that the handler has    *)
(* collected what it has read, up to the line that ends the request ...    *)
StreamsAgree ==
  /\ \A c \in Conns : net[c] \in {"new", "backlog"} => inbox[c] = sent[c]
  /\ pc = "read" => sent[cur] = data \o inbox[cur]
  /\ pc = "write" => FollowedBy(data, Enders, sent[cur])

(* ... that the reply was that ...                                         *)
RepliesAgree == \A c \in Conns : reply[c] # NoReply => FollowedBy(reply[c], Enders, sent[c])

(* ... and what had been collected when a line could not be read.          *)
DeathAgrees ==
  pc = "dead" /\ ~killed =>
    \E c \in Conns : net[c] = "closed" /\ FollowedBy(data, Unreadable, sent[c])

(* The inductive invariant. *)
EchoInv == TypeOK /\ ConnsAgree /\ StreamsAgree /\ RepliesAgree /\ DeathAgrees

(* Every client that connects is served or sees its connection reset, in   *)
(* the end, whatever the clients before it sent.                           *)
EveryClientSettled == \A c \in Conns : net[c] = "backlog" ~> net[c] \in {"closed", "reset"}

=============================================================================
