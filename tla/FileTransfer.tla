---------------------------- MODULE FileTransfer ----------------------------
(***************************************************************************)
(* One session of the file transfer protocol: the server's handler         *)
(* (tcp-server/src/service.rs, FileTransferService) and the client program *)
(* (tcp-server/src/client.rs with FileTransferClient of service.rs), with  *)
(* the stream between them and the file on the server's disk.              *)
(*                                                                         *)
(* Each direction of the stream is a channel of whole messages, which is   *)
(* what Framing shows frames to be; a frame cut short is the end of the    *)
(* stream.  A file is as many chunks as it is long.                        *)
(***************************************************************************)
EXTENDS Messages, Sequences

CONSTANTS
  MaxLen,          \* the longest file, in chunks
  MaxFileSize,     \* the client's --size, in chunks
  ServerVersion,   \* the server's protocol_version
  ClientVersions,  \* the versions a client may announce
  BufCap,          \* chunks that fit in the server's BufWriter
  WireCap,         \* chunks the kernel takes before a write blocks
  MaxChanges,      \* how often the file may change during the session
  Circumstances    \* what may be the case: file errors ("io"), "death",
                   \* a client of a later schema ("newer"), and a server
                   \* that logs what it receives ("debug")

ASSUME TransferAssumption ==
  /\ {MaxLen, MaxFileSize, MaxChanges} \subseteq Nat
  /\ {BufCap, WireCap} \subseteq Nat \ {0}
  /\ ServerVersion \in Nat \ {0} /\ ClientVersions \subseteq Nat
  /\ Circumstances \subseteq {"io", "death", "newer", "debug"}

Missing == -1
Files == {Missing} \cup 0 .. MaxLen

(* fs::metadata of the file, in the response. *)
Metadata(length) ==
  MetadataResponse(IF length = Missing
                   THEN FileMetadata(Status.NotFound, 0)
                   ELSE FileMetadata(Status.Found, length))

Unsupported == ErrorResponse(ErrorDetails(Kind.UnsupportedVersion))

(* What a client of a later schema may send: a status the enum does not    *)
(* have, or a field whose type has changed.                                *)
LaterAck == TransferAck(2)
Retyped(m) == [m EXCEPT !.f1 = Delimited(Text)]

VARIABLES
  spc,        \* where the server's handler is
  sres,       \* how it ended
  index,      \* the index of the next chunk
  wbuf,       \* the BufWriter of write_file_chunks
  handle,     \* the length of the file it has opened, or Missing
  cpc,        \* where the client is
  cres,       \* how it ended
  disk,       \* what the client's file holds
  cbuf,       \* the BufWriter around it
  version,    \* the version the client announces
  file,       \* the length of the file under its name, or Missing
  changes,    \* how often the file has changed
  given,      \* which of the circumstances are the case
  announced,  \* history: the metadata the server sent, or -2
  c2s, s2c,   \* what is written and not yet read
  copen,      \* TRUE while the client has its socket
  s2cEnd      \* the end of the server's stream: "open", "fin" or "rst"

server == <<spc, sres, index, wbuf, handle, announced>>
client == <<cpc, cres, disk, cbuf, version>>
disc == <<file, changes, given>>
wire == <<c2s, s2c, copen, s2cEnd>>
vars == <<server, client, disc, wire>>

sopen == s2cEnd = "open"

Init ==
  /\ spc = "query" /\ sres = "none" /\ index = 0 /\ wbuf = << >>
  /\ handle = Missing /\ announced = -2
  /\ cpc = "ask" /\ cres = "none" /\ disk = << >> /\ cbuf = << >>
  /\ version \in ClientVersions
  /\ file \in Files /\ changes = 0 /\ given \in SUBSET Circumstances
  /\ c2s = << >> /\ s2c = << >> /\ copen = TRUE /\ s2cEnd = "open"

-----------------------------------------------------------------------------
(* The stream.                                                             *)

(* The server writes: a live client gets the message once there is room;   *)
(* after the client has gone the first write may still succeed.            *)
ServerSends(m) ==
  /\ copen => Len(s2c) < WireCap
  /\ s2c' = IF copen THEN Append(s2c, m) ELSE s2c
  /\ UNCHANGED <<c2s, copen, s2cEnd>>

(* The handler is left with the given result and the stream dropped.  A    *)
(* socket closed with unread data resets the connection.                   *)
ServerEnds(res) ==
  /\ spc' = "done"
  /\ sres' = res
  /\ wbuf' = << >>
  /\ s2cEnd' = IF c2s = << >> THEN "fin" ELSE "rst"
  /\ UNCHANGED <<index, handle, announced, client, disc, c2s, s2c, copen>>

(* run_client returns, and nothing is left of its stream and its buffer.   *)
ClientEnds(res) ==
  /\ cpc' = "done"
  /\ cres' = res
  /\ cbuf' = << >>
  /\ copen' = FALSE
  /\ s2c' = << >>
  /\ UNCHANGED <<version, server, disc, c2s, s2cEnd>>

(* The client writes.  A server that has gone may answer with a reset.     *)
ClientSends(m) ==
  IF sopen
  THEN c2s' = Append(c2s, m) /\ UNCHANGED <<s2c, copen, s2cEnd>>
  ELSE s2cEnd' \in {s2cEnd, "rst"} /\ UNCHANGED <<c2s, s2c, copen>>

-----------------------------------------------------------------------------
(* The server: FileTransferService.handle_connection.                      *)

ServerMoves(from, to) == spc = from /\ spc' = to

(* The next frame; what it means decides where the handler goes on. *)
ServerReads(from) ==
  /\ spc = from
  /\ c2s # << >>
  /\ c2s' = Tail(c2s)
  /\ UNCHANGED <<sres, index, wbuf, handle, announced, client, disc, s2c, copen, s2cEnd>>

(* A query that cannot be decoded, and verify_protocol_version. *)
AfterQuery(m) ==
  IF ~IsFileQuery(m) THEN "failing"
  ELSE IF Value(m.f1) = ServerVersion THEN "respond" ELSE "refuse"

ReadFileQuery == ServerReads("query") /\ spc' = AfterQuery(Head(c2s))

(* The peer is gone before a query or an acknowledgement could be read. *)
ServerReadFails == spc \in {"query", "ack"} /\ c2s = << >> /\ ~copen /\ ServerEnds("error")

(* write_error_and_shutdown; the handler then returns an error. *)
RefuseVersion ==
  /\ ServerMoves("refuse", "failing")
  /\ ServerSends(Unsupported)
  /\ UNCHANGED <<sres, index, wbuf, handle, announced, client, disc>>

(* write_file_response: the size is that of the moment. *)
WriteFileResponse ==
  /\ ServerMoves("respond", IF file = Missing THEN "failing" ELSE "ack")
  /\ announced' = file
  /\ ServerSends(Metadata(file))
  /\ UNCHANGED <<sres, index, wbuf, handle, client, disc>>

(* After an error of the reader or a refusal: shutdown, then Err. *)
ServerFails == spc = "failing" /\ ServerEnds("error")

(* Mutant: whatever is not a refusal is taken for consent. *)
AfterAck_NotRejected(m) ==
  IF ~IsTransferAck(m) THEN "failing"
  ELSE IF Value(m.f1) # AckStatus.Rejected THEN "open" ELSE "shutdown"

(* Mutant: the status is converted whether it is logged or not. *)
AfterAck_AlwaysConverts(m) ==
  IF ~IsTransferAck(m) THEN "failing"
  ELSE IF Value(m.f1) \notin {AckStatus.Accepted, AckStatus.Rejected} THEN "panicking"
  ELSE IF Value(m.f1) = AckStatus.Accepted THEN "open" ELSE "shutdown"

(* The conversion of the status to an AckStatus is part of the debug line, *)
(* and its unwrap fails on a number the enum does not have.                *)
AfterAck(m) ==
  LET known == Value(m.f1) \in {AckStatus.Accepted, AckStatus.Rejected} IN
  IF ~IsTransferAck(m) THEN "failing"
  ELSE IF ~known /\ "debug" \in given THEN "panicking"
  ELSE IF Value(m.f1) = AckStatus.Accepted THEN "open" ELSE "shutdown"

ReadTransferAck == ServerReads("ack") /\ spc' = AfterAck(Head(c2s))

(* The unwinding drops the stream. *)
ServerPanics == spc = "panicking" /\ ServerEnds("panicked")

(* write_file_chunks opens the file by its name, once more. *)
OpenFile ==
  /\ ServerMoves("open", "read")
  /\ file # Missing
  /\ handle' = file
  /\ UNCHANGED <<sres, index, wbuf, announced, client, disc, wire>>

(* It is gone, or may be looked at but not read. *)
OpenFails == spc = "open" /\ ("io" \in given \/ file = Missing) /\ ServerEnds("error")

(* Mutant: a chunk that does not fit is forgotten. *)
BufferChunk_Drops ==
  /\ wbuf' = IF Len(wbuf) < BufCap THEN Append(wbuf, index) ELSE wbuf
  /\ index' = index + 1
  /\ spc' = IF Len(wbuf) < BufCap THEN "read" ELSE "spill"

(* A chunk that does not fit waits until the buffer has been written out. *)
BufferChunk ==
  IF Len(wbuf) < BufCap
  THEN wbuf' = Append(wbuf, index) /\ index' = index + 1 /\ spc' = "read"
  ELSE spc' = "spill" /\ UNCHANGED <<wbuf, index>>

ReadChunk ==
  /\ spc = "read"
  /\ index < handle
  /\ BufferChunk
  /\ UNCHANGED <<sres, handle, announced, client, disc, wire>>

(* Mutant: the last chunk is taken for the end of the file. *)
AtEof_Early == index + 1 >= handle

AtEof == index >= handle

ReadEof ==
  /\ ServerMoves("read", "flush")
  /\ AtEof
  /\ UNCHANGED <<sres, index, wbuf, handle, announced, client, disc, wire>>

(* An I/O error, or a directory.  The BufWriter is dropped, and a          *)
(* BufWriter that is dropped still writes out what it holds.               *)
ReadFails ==
  /\ "io" \in given
  /\ ServerMoves("read", "abort")
  /\ UNCHANGED <<sres, index, wbuf, handle, announced, client, disc, wire>>

SendBuffered ==
  /\ spc \in {"spill", "flush", "abort"}
  /\ wbuf # << >>
  /\ ServerSends(FileChunk(Head(wbuf)))
  /\ wbuf' = Tail(wbuf)
  /\ UNCHANGED <<spc, sres, index, handle, announced, client, disc>>

SendFails ==
  /\ spc \in {"refuse", "respond"} \/ (spc \in {"spill", "flush", "abort"} /\ wbuf # << >>)
  /\ ~copen
  /\ ServerEnds("error")

Spilled ==
  /\ ServerMoves("spill", "read")
  /\ wbuf = << >>
  /\ wbuf' = <<index>>
  /\ index' = index + 1
  /\ UNCHANGED <<sres, handle, announced, client, disc, wire>>

Flushed ==
  /\ ServerMoves("flush", "shutdown")
  /\ wbuf = << >>
  /\ UNCHANGED <<sres, index, wbuf, handle, announced, client, disc, wire>>

Aborted == spc = "abort" /\ wbuf = << >> /\ ServerEnds("error")

(* shutdown(Both) fails on a connection the client has reset. *)
Shutdown ==
  /\ spc = "shutdown"
  /\ \E res \in {"ok"} \cup (IF copen THEN {} ELSE {"error"}) : ServerEnds(res)

(* The process is killed; nothing is flushed. *)
ServerDies == "death" \in given /\ spc # "done" /\ ServerEnds("died")

-----------------------------------------------------------------------------
(* The client: run_client.                                                 *)

ClientMoves(from, to) == cpc = from /\ cpc' = to

(* Mutant: the query is repeated at once. *)
SendQuery_Twice ==
  /\ ClientMoves("ask", "response")
  /\ c2s' = c2s \o <<FileQuery(version), FileQuery(version)>>
  /\ UNCHANGED <<cres, disk, cbuf, version, server, disc, s2c, copen, s2cEnd>>

(* request_file: the query. *)
SendQuery ==
  /\ ClientMoves("ask", "response")
  /\ \/ ClientSends(FileQuery(version))
     \/ "newer" \in given /\ ClientSends(Retyped(FileQuery(version)))
  /\ UNCHANGED <<cres, disk, cbuf, version, server, disc>>

SizeAllowed(size) == size <= MaxFileSize

(* The metadata of a file there is: any status but NOT_FOUND. *)
Announces(m) ==
  /\ IsFileResponse(m) /\ m.f1 # Absent
  /\ Value(m.f1[2].f1) # Status.NotFound

(* request_file: the response, and the decision of run_client. *)
ReadMetadata ==
  /\ cpc = "response"
  /\ s2c # << >> /\ Announces(Head(s2c))
  /\ cpc' = IF SizeAllowed(Value(Head(s2c).f1[2].f2)) THEN "accept" ELSE "reject"
  /\ s2c' = Tail(s2c)
  /\ UNCHANGED <<cres, disk, cbuf, version, server, disc, c2s, copen, s2cEnd>>

(* NOT_FOUND, an error or an empty response: logged, and the program ends  *)
(* well.                                                                   *)
ReadRefusal ==
  /\ cpc = "response"
  /\ s2c # << >> /\ ~Announces(Head(s2c))
  /\ ClientEnds(IF IsFileResponse(Head(s2c)) THEN "declined" ELSE "error")
  /\ UNCHANGED disk

ResponseLost ==
  cpc = "response" /\ s2c = << >> /\ ~sopen /\ ClientEnds("error") /\ UNCHANGED disk

(* Mutant: the file is created without an acknowledgement. *)
SendAccepted_Skipped ==
  /\ ClientMoves("accept", "create")
  /\ UNCHANGED <<cres, disk, cbuf, version, server, disc, wire>>

SendAccepted ==
  /\ ClientMoves("accept", "create")
  /\ ClientSends(TransferAck(AckStatus.Accepted))
  /\ UNCHANGED <<cres, disk, cbuf, version, server, disc>>

SendRejected ==
  /\ ClientMoves("reject", "decline")
  /\ ClientSends(TransferAck(AckStatus.Rejected))
  /\ UNCHANGED <<cres, disk, cbuf, version, server, disc>>

(* A client of a later schema answers in a way of its own, and goes. *)
SendLaterAck ==
  /\ "newer" \in given
  /\ cpc \in {"accept", "reject"} /\ cpc' = "decline"
  /\ \E m \in {LaterAck, Retyped(LaterAck)} : ClientSends(m)
  /\ UNCHANGED <<cres, disk, cbuf, version, server, disc>>

Decline == cpc = "decline" /\ ClientEnds("declined") /\ UNCHANGED disk

ClientSendFails ==
  cpc \in {"ask", "accept", "reject"} /\ ~sopen /\ ClientEnds("error") /\ UNCHANGED disk

(* File::create comes after the acknowledgement, and may fail then. *)
CreateFile ==
  /\ ClientMoves("create", "receive")
  /\ UNCHANGED <<cres, disk, cbuf, version, server, disc, wire>>

CreateFails ==
  "io" \in given /\ cpc = "create" /\ ClientEnds("error") /\ UNCHANGED disk

(* The first n chunks in the BufWriter reach the file. *)
WritesOut(n) == disk' = disk \o SubSeq(cbuf, 1, n)

(* write_all to the BufWriter: the chunk fits in it, or what is in it is   *)
(* written out first and the chunk follows, at once if it is a large one.  *)
Save(chunk) ==
  \/ cbuf' = Append(cbuf, chunk) /\ UNCHANGED disk
  \/ cbuf' = <<chunk>> /\ WritesOut(Len(cbuf))
  \/ cbuf' = << >> /\ disk' = Append(disk \o cbuf, chunk)

(* A BufWriter that is dropped writes out what it can, and tells nobody.   *)
DropWriter ==
  \E n \in 0 .. Len(cbuf) : (n = Len(cbuf) \/ "io" \in given) /\ WritesOut(n)

(* Mutant: the result of the flush is ignored. *)
Flush_Unchecked == DropWriter

(* writer.flush()? *)
Flush == WritesOut(Len(cbuf))

(* receive_file. *)
ReceiveChunk ==
  /\ cpc = "receive"
  /\ s2c # << >> /\ IsFileChunk(Head(s2c))
  /\ Save(Value(Head(s2c).f1))
  /\ s2c' = Tail(s2c)
  /\ UNCHANGED <<cpc, cres, version, server, disc, c2s, copen, s2cEnd>>

(* A chunk that cannot be read, or not be written. *)
ReceiveFails ==
  /\ cpc = "receive"
  /\ s2c # << >> /\ ("io" \in given \/ ~IsFileChunk(Head(s2c)))
  /\ DropWriter
  /\ ClientEnds("error")

(* UnexpectedEof, and only that, ends the loop without an error; what is   *)
(* still in the BufWriter decides whether the client succeeds.             *)
ReceiveEnd ==
  /\ cpc = "receive"
  /\ s2c = << >>
  /\ ~sopen
  /\ \/ s2cEnd = "fin" /\ Flush /\ ClientEnds("saved")
     \/ (s2cEnd = "rst" \/ "io" \in given) /\ DropWriter /\ ClientEnds("error")

(* The process is killed; what was not written out is lost. *)
ClientDies ==
  "death" \in given /\ cpc # "done" /\ ClientEnds("died") /\ UNCHANGED disk

-----------------------------------------------------------------------------
(* Somebody changes the file.  An open file follows a change in place, not *)
(* a replacement of the name.                                              *)
FileChanges ==
  /\ changes < MaxChanges
  /\ spc # "done"
  /\ changes' = changes + 1
  /\ \E n \in Files, inPlace \in BOOLEAN :
       /\ file' = n
       /\ handle' = IF inPlace /\ n # Missing /\ handle # Missing THEN n ELSE handle
  /\ UNCHANGED <<spc, sres, index, wbuf, announced, client, given, wire>>

Over == spc = "done" /\ cpc = "done" /\ UNCHANGED vars

ServerStep ==
  \/ ReadFileQuery \/ ServerReadFails \/ RefuseVersion \/ WriteFileResponse \/ ServerFails
  \/ ReadTransferAck \/ ServerPanics \/ OpenFile \/ OpenFails
  \/ ReadChunk \/ ReadEof \/ ReadFails \/ SendBuffered \/ SendFails \/ Spilled
  \/ Flushed \/ Aborted \/ Shutdown

ClientStep ==
  \/ SendQuery \/ ReadMetadata \/ ReadRefusal \/ ResponseLost
  \/ SendAccepted \/ SendRejected \/ SendLaterAck \/ Decline \/ ClientSendFails
  \/ CreateFile \/ CreateFails \/ ReceiveChunk \/ ReceiveFails \/ ReceiveEnd

Next ==
  \/ ServerStep \/ ClientStep
  \/ ServerDies \/ ClientDies
  \/ FileChanges \/ Over

Spec == Init /\ [][Next]_vars

(***************************************************************************)
(* Each side goes on when it can.  Nobody must die, no file must change,   *)
(* and none of the errors must happen.                                     *)
(***************************************************************************)
FairSpec == Spec /\ WF_vars(ServerStep) /\ WF_vars(ClientStep)

-----------------------------------------------------------------------------
(* Frames carry a length and no type: each side decodes what arrives as    *)
(* the message it expects.  Whatever fails on either side, what is next on *)
(* the stream was meant as that.                                           *)
NeverMisdecoded ==
  /\ spc = "query" /\ c2s # << >> => Head(c2s).type = "FileQuery"
  /\ spc = "ack" /\ c2s # << >> => Head(c2s).type = "TransferAck"
  /\ cpc = "response" /\ s2c # << >> => Head(s2c).type = "FileResponse"
  /\ cpc \in {"create", "receive"} => \A i \in DOMAIN s2c : s2c[i].type = "FileChunk"

(* A handler panics only while it logs in detail, and only at a client     *)
(* whose schema is another: before it has read the file, and when that     *)
(* client has already made up its mind.                                    *)
OnlyLoggingPanics ==
  spc = "panicking" \/ sres = "panicked" =>
    /\ {"debug", "newer"} \subseteq given
    /\ announced # Missing /\ handle = Missing /\ index = 0
    /\ cpc \in {"decline", "done"} /\ disk = << >>

(* The server reads the file's contents only for a client that speaks its  *)
(* version and has accepted a size within its own limit.                   *)
ContentNeedsConsent ==
  spc \in {"open", "read", "spill", "flush", "abort"} =>
    /\ version = ServerVersion
    /\ announced \in 0 .. MaxFileSize
    /\ cpc \in {"create", "receive", "done"} /\ cres # "declined"

(* What is in the client's file, in its buffer, under way and in the       *)
(* server's buffer are the first chunks of the file, in order and without  *)
(* a gap; the client's file is their beginning however its program ends.   *)
NoGapInTransfer ==
  LET underWay == [i \in DOMAIN s2c |-> Value(s2c[i].f1)]
      all == disk \o cbuf \o underWay \o wbuf
  IN  /\ \A i \in DOMAIN disk : disk[i] = i - 1
      /\ cpc \in {"create", "receive"} =>
           /\ \A i \in DOMAIN all : all[i] = i - 1
           /\ spc \in {"read", "spill", "flush", "shutdown"} => Len(all) = index

(* When both sides report success, the client's file is what the server    *)
(* read, and the whole file if nobody changed it: nothing has stayed in a  *)
(* buffer that could not be written out.                                   *)
SuccessIsComplete ==
  sres = "ok" /\ cres = "saved" =>
    /\ Len(disk) = index
    /\ changes = 0 => Len(disk) = announced

(* A session ends on both sides, whichever of them fails or dies: the two  *)
(* never wait for each other.  (A network that falls silent is another     *)
(* matter: neither program has a timeout.)                                 *)
SessionEnds == <>(spc = "done" /\ cpc = "done")

(* If nothing fails and nobody changes it, a file that exists and is not   *)
(* too large arrives whole.                                                *)
WantedFileArrives ==
  given \subseteq {"debug"} /\ version = ServerVersion /\ file \in 0 .. MaxFileSize
    ~> \/ sres = "ok" /\ cres = "saved" /\ Len(disk) = file
       \/ changes > 0

(* service.rs: "Receives a file from the server and writes it to the       *)
(* specified writer."  What receive_file has accepted is the file.         *)
ReceivesTheFile == cres = "saved" /\ changes = 0 => Len(disk) = announced

(* client.rs: "Maximum file size to accept from the server".               *)
MaximumRespected == Len(disk) <= MaxFileSize

-----------------------------------------------------------------------------
(* What makes the safety invariants inductive.                             *)

(* Where the server reads or writes the contents of the file. *)
InContent == {"open", "read", "spill", "flush", "abort"}

TypeOK ==
  /\ spc \in InContent \cup
       {"query", "refuse", "respond", "failing", "ack", "panicking", "shutdown", "done"}
  /\ sres \in {"none", "ok", "error", "panicked", "died"}
  /\ index \in 0 .. MaxLen /\ wbuf \in Seq(0 .. MaxLen) /\ handle \in Files
  /\ announced \in Files \cup {-2}
  /\ cpc \in {"ask", "response", "accept", "reject", "create", "receive", "decline", "done"}
  /\ cres \in {"none", "saved", "declined", "error", "died"}
  /\ disk \in Seq(Nat) /\ cbuf \in Seq(Nat) /\ version \in ClientVersions
  /\ file \in Files /\ changes \in Nat
  /\ copen \in BOOLEAN /\ s2cEnd \in {"open", "fin", "rst"}

(* A side that has a result has left the stream, and has nothing in hand. *)
EndsAgree ==
  /\ spc = "done" <=> ~sopen
  /\ spc = "done" <=> sres # "none"
  /\ cpc = "done" <=> ~copen
  /\ cpc = "done" <=> cres # "none"
  /\ spc \in {"done", "shutdown"} => wbuf = << >>
  /\ cpc = "done" => s2c = << >> /\ cbuf = << >>
  /\ cres = "saved" => spc = "done"

(* While the server waits for the acknowledgement, what is on its way to   *)
(* it is nothing, or what a client sends that has made up its mind.        *)
AckOnWire ==
  \/ c2s = << >>
  \/ /\ c2s = <<TransferAck(AckStatus.Accepted)>>
     /\ cpc \in {"create", "receive", "done"} /\ cres # "declined"
     /\ announced <= MaxFileSize
  \/ c2s = <<TransferAck(AckStatus.Rejected)>> /\ cpc \in {"decline", "done"}
  \/ /\ c2s \in {<<LaterAck>>, <<Retyped(LaterAck)>>} /\ "newer" \in given
     /\ cpc \in {"decline", "done"}

(* While the client waits for the response: nothing, or the response.      *)
ResponseOnWire ==
  \/ s2c = << >> /\ spc \in {"query", "refuse", "respond", "failing", "ack", "done"}
  \/ s2c = <<Unsupported>> /\ spc \in {"failing", "done"}
  \/ /\ s2c = <<Metadata(announced)>>
     /\ \/ announced = Missing /\ spc \in {"failing", "done"}
        \/ announced \in Nat /\ spc \in {"ack", "done"}

(* Where the client can be when the server is at spc. *)
ServerTurn ==
  /\ spc = "query" =>
       /\ announced = -2 /\ cpc \in {"ask", "response", "done"} /\ s2c = << >>
       /\ \/ c2s = << >>
          \/ c2s \in {<<FileQuery(version)>>, <<Retyped(FileQuery(version))>>} /\ cpc # "ask"
  /\ spc \in {"refuse", "respond"} =>
       announced = -2 /\ cpc \in {"response", "done"} /\ s2c = << >> /\ c2s = << >>
  /\ spc = "failing" => cpc \in {"response", "decline", "done"}
  /\ spc = "ack" => announced \in Nat /\ cpc # "ask" /\ AckOnWire
  /\ spc = "shutdown" \/ sres = "ok" => cpc \in {"create", "receive", "decline", "done"}
  /\ announced # -2 \/ spc = "respond" => version = ServerVersion

(* Where the server can be when the client is at cpc. *)
ClientTurn ==
  /\ cpc = "ask" => spc \in {"query", "done"} /\ s2c = << >>
  /\ cpc = "response" => ResponseOnWire
  /\ cpc \in {"accept", "reject"} =>
       spc \in {"ack", "done"} /\ s2c = << >> /\ announced \in Nat
  /\ cpc = "accept" => announced <= MaxFileSize
  /\ cpc \in {"create", "receive"} =>
       spc \in InContent \cup {"ack", "shutdown", "done"} /\ announced \in 0 .. MaxFileSize
  /\ cpc = "decline" =>
       /\ spc \in {"ack", "failing", "panicking", "shutdown", "done"}
       /\ s2c = << >> /\ announced \in Nat

(* Nothing of the file has moved before it is opened, and nothing is moved *)
(* to a client that does not want it.                                      *)
NothingMoved ==
  /\ spc \in {"query", "refuse", "respond", "failing", "ack", "panicking", "open"} =>
       /\ index = 0 /\ handle = Missing /\ wbuf = << >>
       /\ disk = << >> /\ cbuf = << >>
  /\ spc \in {"ack", "open"} /\ cpc \in {"create", "receive"} => s2c = << >>
  /\ cpc \in {"ask", "response", "accept", "reject", "create", "decline"} =>
       disk = << >> /\ cbuf = << >>

Chunks == {FileChunk(n) : n \in 0 .. MaxLen}

(* How many chunks have reached the client. *)
Received == Len(disk) + Len(cbuf)

(* The chunks are numbered through from the client's disk to the server's  *)
(* buffer.                                                                 *)
ChunksInOrder ==
  /\ spc = "spill" => index < MaxLen
  /\ \A i \in DOMAIN disk : disk[i] = i - 1
  /\ \A i \in DOMAIN cbuf : cbuf[i] = Len(disk) + i - 1
  /\ cpc \in {"create", "receive"} =>
       /\ s2c \in Seq(Chunks)
       /\ \A i \in DOMAIN s2c : s2c[i] = FileChunk(Received + i - 1)
       /\ \A i \in DOMAIN wbuf : wbuf[i] = Received + Len(s2c) + i - 1
       /\ spc \in {"read", "spill", "flush", "shutdown"} \/ sres = "ok" =>
            Received + Len(s2c) + Len(wbuf) = index

(* As long as nobody changes the file its length is the one announced, and *)
(* the reader does not miss its end.                                       *)
LengthsAgree ==
  changes = 0 =>
    /\ announced # -2 => announced = file
    /\ spc \in {"read", "spill", "flush"} => handle = announced /\ index <= handle
    /\ spc = "spill" => index < handle
    /\ spc = "flush" => index = handle
    /\ (spc = "shutdown" \/ sres = "ok") /\ cpc \in {"create", "receive"} => index = announced

(* The invariant the proofs carry from step to step. *)
TransferInv ==
  /\ TypeOK /\ EndsAgree
  /\ ServerTurn /\ ClientTurn
  /\ NothingMoved /\ ChunksInOrder /\ LengthsAgree
  /\ OnlyLoggingPanics /\ ContentNeedsConsent /\ SuccessIsComplete

=============================================================================
