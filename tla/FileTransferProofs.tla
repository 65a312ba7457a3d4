------------------------- MODULE FileTransferProofs -------------------------
(***************************************************************************)
(* Machine-checked proofs about FileTransfer: what the two programs of one *)
(* session know about each other, for files of every length, every limit,  *)
(* every set of versions and every number of changes to the file.          *)
(***************************************************************************)
EXTENDS FileTransfer, SequenceTheorems, TLAPS

-----------------------------------------------------------------------------
(* What the two sides decode of each other's messages.                     *)

(* A number is sent, or left out when it is 0, and read back.              *)
LEMMA Numbers ==
  ASSUME NEW n \in Nat
  PROVE  IsVarint(Varint(n)) /\ Value(Varint(n)) = n
<1>1. <<"varint", n>> # << >>
  OBVIOUS
<1> QED  BY <1>1 DEF IsVarint, Varint, Value, Absent

(* Delimited bytes are no number, and read back as what they hold.         *)
LEMMA Contents ==
  ASSUME NEW content
  PROVE  /\ IsDelimited(Delimited(content)) /\ ~IsVarint(Delimited(content))
         /\ Delimited(content) # Absent /\ Delimited(content)[2] = content
<1>1. <<"delimited", content>> # << >>
  OBVIOUS
<1> QED  BY <1>1 DEF IsVarint, IsDelimited, Delimited, Absent

(* A query decodes to its version; that of a later schema does not decode. *)
LEMMA Queries ==
  ASSUME NEW v \in Nat
  PROVE  /\ FileQuery(v).type = "FileQuery" /\ Retyped(FileQuery(v)).type = "FileQuery"
         /\ IsFileQuery(FileQuery(v)) /\ Value(FileQuery(v).f1) = v
         /\ ~IsFileQuery(Retyped(FileQuery(v)))
  BY Numbers, Contents DEF FileQuery, Retyped, IsFileQuery

(* An acknowledgement decodes to its status.                               *)
LEMMA Acks ==
  ASSUME NEW n \in Nat
  PROVE  /\ TransferAck(n).type = "TransferAck" /\ Retyped(TransferAck(n)).type = "TransferAck"
         /\ IsTransferAck(TransferAck(n)) /\ Value(TransferAck(n).f1) = n
         /\ ~IsTransferAck(Retyped(TransferAck(n)))
  BY Numbers, Contents DEF TransferAck, Retyped, IsTransferAck

(* The response announces a file that exists with its length, and neither  *)
(* a file that does not nor the refusal of a version announces any.        *)
LEMMA Responses ==
  ASSUME NEW length \in Nat
  PROVE  /\ Announces(Metadata(length)) /\ ~Announces(Metadata(Missing))
         /\ ~Announces(Unsupported)
         /\ Value(Metadata(length).f1[2].f2) = length
         /\ Metadata(length).type = "FileResponse" /\ Metadata(Missing).type = "FileResponse"
         /\ Unsupported.type = "FileResponse"
<1>1. Metadata(length) = MetadataResponse(FileMetadata(0, length))
  BY DEF Metadata, Status, Missing
<1>2. Metadata(Missing) = MetadataResponse(FileMetadata(1, 0))
  BY DEF Metadata, Status
<1>3. IsVarint(Varint(0)) /\ Value(Varint(0)) = 0 /\ IsVarint(Varint(1)) /\ Value(Varint(1)) = 1
  BY Numbers
<1>4. ASSUME NEW s \in {0, 1}, NEW n \in Nat
      PROVE  LET r == MetadataResponse(FileMetadata(s, n)) IN
             /\ IsFileResponse(r) /\ r.f1 # Absent /\ r.type = "FileResponse"
             /\ Value(r.f1[2].f1) = s /\ Value(r.f1[2].f2) = n
  <2>1. IsVarint(Varint(s)) /\ Value(Varint(s)) = s /\ IsVarint(Varint(n)) /\ Value(Varint(n)) = n
    BY Numbers
  <2> QED  BY <2>1, Contents
              DEF MetadataResponse, FileMetadata, IsFileResponse, IsFileMetadata, IsDelimited
<1>5. Announces(Metadata(length)) /\ Value(Metadata(length).f1[2].f2) = length
  BY <1>1, <1>4 DEF Announces, Status
<1>6. ~Announces(Metadata(Missing))
  BY <1>2, <1>4 DEF Announces, Status
<1>7. ~Announces(Unsupported) /\ Unsupported.type = "FileResponse"
  BY DEF Announces, Unsupported, ErrorResponse
<1> QED  BY <1>1, <1>2, <1>4, <1>5, <1>6, <1>7

(* A chunk decodes to its number.                                          *)
LEMMA ChunkNumbers ==
  ASSUME NEW n \in Nat
  PROVE  /\ FileChunk(n).type = "FileChunk"
         /\ IsFileChunk(FileChunk(n)) /\ Value(FileChunk(n).f1) = n
  BY Numbers, Contents DEF FileChunk, IsFileChunk

-----------------------------------------------------------------------------
(* Runs of numbers.                                                        *)

(* Two runs of numbers, the second of which goes on where the first ends,  *)
(* are one run.                                                            *)
LEMMA RunsJoin ==
  ASSUME NEW a \in Seq(Nat), NEW b \in Seq(Nat),
         \A i \in DOMAIN a : a[i] = i - 1,
         \A i \in DOMAIN b : b[i] = Len(a) + i - 1
  PROVE  /\ a \o b \in Seq(Nat) /\ Len(a \o b) = Len(a) + Len(b)
         /\ \A i \in DOMAIN (a \o b) : (a \o b)[i] = i - 1
<1>1. /\ Len(a) \in Nat /\ Len(b) \in Nat
      /\ DOMAIN a = 1 .. Len(a) /\ DOMAIN b = 1 .. Len(b)
      /\ a \o b \in Seq(Nat) /\ Len(a \o b) = Len(a) + Len(b)
      /\ DOMAIN (a \o b) = 1 .. Len(a) + Len(b)
  BY ConcatProperties
<1>2. ASSUME NEW i \in 1 .. Len(a) + Len(b) PROVE (a \o b)[i] = i - 1
  <2>1. CASE i <= Len(a)
    <3>1. (a \o b)[i] = a[i] /\ i \in 1 .. Len(a)
      BY <1>1, <2>1, ConcatProperties
    <3> QED  BY <1>1, <3>1
  <2>2. CASE i > Len(a)
    <3>1. PICK k \in 1 .. Len(b) : i = Len(a) + k
      <4>1. i - Len(a) \in 1 .. Len(b) /\ i = Len(a) + (i - Len(a))
        BY <1>1, <2>2
      <4> QED  BY <4>1
    <3>2. (a \o b)[i] = b[k]
      BY <1>1, <2>2, <3>1, ConcatProperties
    <3>3. b[k] = Len(a) + k - 1
      BY <1>1, <3>1
    <3>4. Len(a) + k - 1 = i - 1
      BY <3>1
    <3> QED  BY <3>2, <3>3, <3>4
  <2> QED  BY <1>1, <2>1, <2>2
<1> QED  BY <1>1, <1>2

(* The number after the last goes to the end of a run of numbers.          *)
LEMMA AppendNumber ==
  ASSUME NEW S, NEW s \in Seq(S), NEW n \in Nat, NEW e \in S, e = n + Len(s),
         \A i \in DOMAIN s : s[i] = n + i - 1
  PROVE  /\ Append(s, e) \in Seq(S) /\ Len(Append(s, e)) = Len(s) + 1
         /\ \A i \in DOMAIN Append(s, e) : Append(s, e)[i] = n + i - 1
<1>1. /\ DOMAIN s = 1 .. Len(s) /\ DOMAIN Append(s, e) = 1 .. Len(s) + 1
      /\ Len(s) \in Nat
      /\ \A i \in 1 .. Len(s) : Append(s, e)[i] = s[i]
      /\ Append(s, e)[Len(s) + 1] = e
      /\ Append(s, e) \in Seq(S) /\ Len(Append(s, e)) = Len(s) + 1
  BY AppendProperties
<1>2. ASSUME NEW i \in 1 .. Len(s) + 1 PROVE Append(s, e)[i] = n + i - 1
  <2>1. CASE i = Len(s) + 1
    BY <1>1, <2>1
  <2>2. CASE i \in 1 .. Len(s)
    BY <1>1, <2>2
  <2> QED  BY <1>1, <2>1, <2>2
<1> QED  BY <1>1, <1>2

(* The beginning of a run goes on from where the whole run does.           *)
LEMMA RunBegins ==
  ASSUME NEW b \in Seq(Nat), NEW m \in Nat, \A i \in DOMAIN b : b[i] = m + i - 1,
         NEW n \in 0 .. Len(b)
  PROVE  /\ SubSeq(b, 1, n) \in Seq(Nat) /\ Len(SubSeq(b, 1, n)) = n
         /\ \A i \in DOMAIN SubSeq(b, 1, n) : SubSeq(b, 1, n)[i] = m + i - 1
<1>1. \A i \in 1 .. n : b[i] \in Nat /\ b[i] = m + i - 1
  OBVIOUS
<1>2. /\ SubSeq(b, 1, n) \in Seq(Nat) /\ Len(SubSeq(b, 1, n)) = n
      /\ \A i \in 1 .. n : SubSeq(b, 1, n)[i] = b[i]
  BY <1>1, SubSeqProperties
<1>3. DOMAIN SubSeq(b, 1, n) = 1 .. n
  BY <1>2
<1> QED  BY <1>1, <1>2, <1>3

(* What has reached the client is counted.                                 *)
LEMMA ReceivedCounts == ASSUME TypeOK PROVE Received \in Nat
<1>1. disk \in Seq(Nat) /\ cbuf \in Seq(Nat)
  BY DEF TypeOK
<1>2. Len(disk) \in Nat /\ Len(cbuf) \in Nat
  BY <1>1
<1> QED  BY <1>2 DEF Received

(* Whatever the client's BufWriter writes out continues the file.          *)
LEMMA FileContinues ==
  ASSUME TypeOK, ChunksInOrder, NEW n \in 0 .. Len(cbuf), WritesOut(n)
  PROVE  /\ disk' \in Seq(Nat) /\ Len(disk') = Len(disk) + n
         /\ \A i \in DOMAIN disk' : disk'[i] = i - 1
<1> DEFINE b == SubSeq(cbuf, 1, n)
<1>1. /\ disk \in Seq(Nat) /\ cbuf \in Seq(Nat) /\ Len(disk) \in Nat
      /\ \A i \in DOMAIN disk : disk[i] = i - 1
      /\ \A i \in DOMAIN cbuf : cbuf[i] = Len(disk) + i - 1
  BY DEF TypeOK, ChunksInOrder
<1>2. /\ b \in Seq(Nat) /\ Len(b) = n
      /\ \A i \in DOMAIN b : b[i] = Len(disk) + i - 1
  BY <1>1, RunBegins
<1> HIDE DEF b
<1>3. /\ disk \o b \in Seq(Nat) /\ Len(disk \o b) = Len(disk) + n
      /\ \A i \in DOMAIN (disk \o b) : (disk \o b)[i] = i - 1
  BY <1>1, <1>2, RunsJoin
<1>4. disk' = disk \o b
  BY DEF WritesOut, b
<1> QED  BY <1>3, <1>4

(* All of it: the file then holds what has reached the client.             *)
LEMMA FileComplete ==
  ASSUME TypeOK, ChunksInOrder, WritesOut(Len(cbuf))
  PROVE  /\ disk' \in Seq(Nat) /\ Len(disk') = Received
         /\ \A i \in DOMAIN disk' : disk'[i] = i - 1
<1>1. Len(cbuf) \in 0 .. Len(cbuf)
  BY DEF TypeOK
<1> QED  BY <1>1, FileContinues DEF Received

-----------------------------------------------------------------------------
(* The ways out of the protocol.                                           *)

(* The handler ends: well only after the shutdown, in a panic only after   *)
(* one.                                                                    *)
ServerLeaves(res) ==
  /\ spc # "done" /\ ServerEnds(res)
  /\ res \in {"ok", "error", "panicked", "died"}
  /\ res = "ok" => spc = "shutdown"
  /\ res = "panicked" => spc = "panicking"

(* The client ends: having declined, with the file, or otherwise.          *)
ClientLeaves(res) ==
  /\ cpc # "done" /\ ClientEnds(res)
  /\ res \in {"saved", "declined", "error", "died"}
  /\ res = "declined" => cpc \in {"response", "decline"}
  /\ res = "saved" => cpc = "receive" /\ s2c = << >> /\ ~sopen /\ Flush
  /\ UNCHANGED disk \/ Flush \/ DropWriter

(* Each way in which the handler ends is of this form.                     *)
LEMMA ServerLeavings ==
  ASSUME \/ ServerReadFails \/ ServerFails \/ ServerPanics \/ OpenFails
         \/ SendFails \/ Aborted \/ Shutdown \/ ServerDies
  PROVE  \E res : ServerLeaves(res)
  BY DEF ServerReadFails, ServerFails, ServerPanics, OpenFails, SendFails, Aborted,
         Shutdown, ServerDies, ServerLeaves

(* Each way in which the client ends is of this form.                      *)
LEMMA ClientLeavings ==
  ASSUME \/ ReadRefusal \/ ResponseLost \/ Decline \/ ClientSendFails
         \/ CreateFails \/ ReceiveFails \/ ReceiveEnd \/ ClientDies
  PROVE  \E res : ClientLeaves(res)
<1>1. CASE ReadRefusal \/ ResponseLost \/ Decline \/ ClientSendFails \/ CreateFails \/ ClientDies
  BY <1>1 DEF ReadRefusal, ResponseLost, Decline, ClientSendFails, CreateFails, ClientDies,
              ClientLeaves
<1>2. CASE ReceiveFails \/ ReceiveEnd
  BY <1>2 DEF ReceiveFails, ReceiveEnd, ClientLeaves
<1> QED  BY <1>1, <1>2

(* The end of the handler keeps the invariant.                             *)
LEMMA StepServerLeaves ==
  ASSUME TransferInv, NEW res, ServerLeaves(res)
  PROVE  TransferInv'
<1> USE TransferAssumption DEF TransferInv, Received
<1>1. /\ spc # "done" /\ spc' = "done" /\ sres' = res /\ wbuf' = << >>
      /\ s2cEnd' \in {"fin", "rst"}
      /\ res \in {"ok", "error", "panicked", "died"}
      /\ res = "ok" => spc = "shutdown"
      /\ res = "panicked" => spc = "panicking"
      /\ UNCHANGED <<index, handle, announced, cpc, cres, disk, cbuf, version, file, changes,
                     given, c2s, s2c, copen>>
  BY DEF ServerLeaves, ServerEnds, client, disc
<1>2. TypeOK' /\ EndsAgree'
  BY <1>1 DEF TypeOK, EndsAgree, sopen
<1>3. ServerTurn' /\ ClientTurn'
  BY <1>1 DEF ServerTurn, ClientTurn, ResponseOnWire, InContent
<1>4. NothingMoved' /\ LengthsAgree'
  BY <1>1 DEF TypeOK, EndsAgree, NothingMoved, LengthsAgree
<1>5. ChunksInOrder'
  <2>1. DOMAIN << >> = {} /\ Len(<< >>) = 0
    OBVIOUS
  <2>2. spc = "shutdown" => wbuf = << >>
    BY DEF EndsAgree
  <2> QED  BY <1>1, <2>1, <2>2 DEF ChunksInOrder
<1>6. OnlyLoggingPanics' /\ ContentNeedsConsent' /\ SuccessIsComplete'
  BY <1>1 DEF OnlyLoggingPanics, ContentNeedsConsent, SuccessIsComplete, EndsAgree
<1> QED  BY <1>2, <1>3, <1>4, <1>5, <1>6

(* The end of the client keeps the invariant.                              *)
LEMMA StepClientLeaves ==
  ASSUME TransferInv, NEW res, ClientLeaves(res)
  PROVE  TransferInv'
<1> USE TransferAssumption DEF TransferInv
<1>1. /\ cpc # "done" /\ cpc' = "done" /\ cres' = res /\ copen' = FALSE /\ s2c' = << >>
      /\ cbuf' = << >>
      /\ res \in {"saved", "declined", "error", "died"}
      /\ res = "declined" => cpc \in {"response", "decline"}
      /\ res = "saved" => cpc = "receive" /\ s2c = << >> /\ ~sopen
      /\ UNCHANGED <<spc, sres, index, wbuf, handle, announced, version, file, changes,
                     given, c2s, s2cEnd>>
  BY DEF ClientLeaves, ClientEnds, server, disc
<1>2. /\ disk' \in Seq(Nat) /\ \A i \in DOMAIN disk' : disk'[i] = i - 1
      /\ disk = << >> /\ cbuf = << >> => disk' = << >>
  <2>1. CASE UNCHANGED disk
    BY <2>1 DEF TypeOK, ChunksInOrder
  <2>2. ASSUME NEW n \in 0 .. Len(cbuf), WritesOut(n)
        PROVE  /\ disk' \in Seq(Nat) /\ \A i \in DOMAIN disk' : disk'[i] = i - 1
               /\ disk = << >> /\ cbuf = << >> => disk' = << >>
    <3>1. /\ disk' \in Seq(Nat) /\ Len(disk') = Len(disk) + n
          /\ \A i \in DOMAIN disk' : disk'[i] = i - 1
      BY <2>2, FileContinues
    <3>2. disk = << >> /\ cbuf = << >> => Len(disk') = 0
      BY <3>1
    <3> QED  BY <3>1, <3>2, EmptySeq
  <2>3. Len(cbuf) \in 0 .. Len(cbuf)
    BY DEF TypeOK
  <2> QED  BY <2>1, <2>2, <2>3 DEF ClientLeaves, Flush, DropWriter
<1>3. res = "saved" => Len(disk') = Received
  BY FileComplete DEF ClientLeaves, Flush
<1>4. TypeOK' /\ EndsAgree'
  <2>1. cbuf' \in Seq(Nat)
    BY <1>1
  <2>2. TypeOK'
    BY <1>1, <1>2, <2>1 DEF TypeOK
  <2>3. EndsAgree'
    BY <1>1 DEF EndsAgree, sopen
  <2> QED  BY <2>2, <2>3
<1>5. ServerTurn' /\ ClientTurn'
  BY <1>1 DEF ServerTurn, ClientTurn, AckOnWire
<1>6. NothingMoved' /\ LengthsAgree'
  BY <1>1, <1>2 DEF NothingMoved, LengthsAgree
<1>7. ChunksInOrder'
  BY <1>1, <1>2 DEF ChunksInOrder
<1>8. OnlyLoggingPanics' /\ ContentNeedsConsent'
  BY <1>1, <1>2 DEF OnlyLoggingPanics, ContentNeedsConsent, ClientTurn, ResponseOnWire,
                    InContent, NothingMoved, EndsAgree
<1>9. SuccessIsComplete'
  <2>1. SUFFICES ASSUME sres = "ok", res = "saved"
                 PROVE  Len(disk') = index /\ (changes = 0 => index = announced)
    BY <1>1 DEF SuccessIsComplete
  <2>2. s2c = << >> /\ wbuf = << >> /\ cpc = "receive"
    BY <1>1, <2>1 DEF EndsAgree, sopen
  <2>3. Received \in Nat
    BY ReceivedCounts
  <2>4. Received = index
    BY <2>1, <2>2, <2>3 DEF ChunksInOrder
  <2> QED  BY <1>3, <2>1, <2>2, <2>4 DEF LengthsAgree
<1> QED  BY <1>4, <1>5, <1>6, <1>7, <1>8, <1>9

(* A change of the file keeps the invariant.                               *)
LEMMA StepFileChanges == ASSUME TransferInv, FileChanges PROVE TransferInv'
<1> USE TransferAssumption DEF TransferInv, Received
<1>1. /\ changes' = changes + 1 /\ file' \in Files
      /\ spc # "done"
      /\ \/ handle' = handle
         \/ handle # Missing /\ handle' \in Files
      /\ UNCHANGED <<spc, sres, index, wbuf, announced, cpc, cres, disk, cbuf, version,
                     given, c2s, s2c, copen, s2cEnd>>
  BY DEF FileChanges, client, wire
<1>2. TypeOK' /\ EndsAgree'
  BY <1>1 DEF TypeOK, EndsAgree, sopen
<1>3. ServerTurn' /\ ClientTurn'
  BY <1>1 DEF ServerTurn, ClientTurn, AckOnWire, ResponseOnWire
<1>4. NothingMoved' /\ ChunksInOrder' /\ LengthsAgree'
  BY <1>1 DEF NothingMoved, ChunksInOrder, LengthsAgree, TypeOK
<1>5. OnlyLoggingPanics' /\ ContentNeedsConsent' /\ SuccessIsComplete'
  BY <1>1 DEF OnlyLoggingPanics, ContentNeedsConsent, SuccessIsComplete, TypeOK, EndsAgree
<1> QED  BY <1>2, <1>3, <1>4, <1>5

-----------------------------------------------------------------------------
(* The handler reads and writes messages.                                  *)

(* What a sequence of one message is.                                      *)
LEMMA OneMessage ==
  ASSUME NEW m
  PROVE  /\ Head(<<m>>) = m /\ Tail(<<m>>) = << >> /\ Append(<< >>, m) = <<m>>
         /\ <<m>> # << >>
  OBVIOUS

(* Reading the query keeps the invariant.                                  *)
LEMMA StepReadFileQuery == ASSUME TransferInv, ReadFileQuery PROVE TransferInv'
<1> USE TransferAssumption DEF TransferInv, Received
<1>1. /\ spc = "query" /\ c2s # << >> /\ c2s' = Tail(c2s) /\ spc' = AfterQuery(Head(c2s))
      /\ UNCHANGED <<sres, index, wbuf, handle, announced, cpc, cres, disk, cbuf, version, file,
                     changes, given, s2c, copen, s2cEnd>>
  BY DEF ReadFileQuery, ServerReads, client, disc
<1>2. /\ spc' \in {"failing", "respond", "refuse"}
      /\ spc' = "respond" => version = ServerVersion
      /\ c2s' = << >>
      /\ announced = -2 /\ cpc \in {"response", "done"} /\ s2c = << >>
  <2>1. PICK m \in {FileQuery(version), Retyped(FileQuery(version))} : c2s = <<m>>
    BY <1>1 DEF ServerTurn
  <2>2. version \in Nat
    BY DEF TypeOK
  <2>3. IsFileQuery(m) => Value(m.f1) = version
    BY <2>2, Queries
  <2>4. cpc # "ask"
    BY <1>1 DEF ServerTurn
  <2> QED  BY <1>1, <2>1, <2>3, <2>4, OneMessage DEF AfterQuery, ServerTurn
<1>3. TypeOK' /\ EndsAgree'
  BY <1>1, <1>2 DEF TypeOK, EndsAgree, sopen
<1>4. ServerTurn' /\ ClientTurn'
  BY <1>1, <1>2 DEF ServerTurn, ClientTurn, ResponseOnWire
<1>5. NothingMoved' /\ ChunksInOrder' /\ LengthsAgree'
  BY <1>1, <1>2 DEF NothingMoved, ChunksInOrder, LengthsAgree
<1>6. OnlyLoggingPanics' /\ ContentNeedsConsent' /\ SuccessIsComplete'
  BY <1>1, <1>2 DEF OnlyLoggingPanics, ContentNeedsConsent, SuccessIsComplete, EndsAgree
<1> QED  BY <1>3, <1>4, <1>5, <1>6

(* Refusing the version keeps the invariant.                               *)
LEMMA StepRefuseVersion == ASSUME TransferInv, RefuseVersion PROVE TransferInv'
<1> USE TransferAssumption DEF TransferInv, Received
<1>1. /\ spc = "refuse" /\ spc' = "failing"
      /\ s2c' = IF copen THEN Append(s2c, Unsupported) ELSE s2c
      /\ UNCHANGED <<sres, index, wbuf, handle, announced, cpc, cres, disk, cbuf, version, file,
                     changes, given, c2s, copen, s2cEnd>>
  BY DEF RefuseVersion, ServerMoves, ServerSends, client, disc
<1>2. /\ s2c' \in {<< >>, <<Unsupported>>}
      /\ copen \/ s2c' = << >>
      /\ cpc \in {"response", "done"} /\ announced = -2
  BY <1>1, OneMessage DEF ServerTurn
<1>3. TypeOK' /\ EndsAgree'
  BY <1>1, <1>2 DEF TypeOK, EndsAgree, sopen
<1>4. ServerTurn' /\ ClientTurn'
  BY <1>1, <1>2 DEF ServerTurn, ClientTurn, ResponseOnWire
<1>5. NothingMoved' /\ ChunksInOrder' /\ LengthsAgree'
  BY <1>1, <1>2 DEF NothingMoved, ChunksInOrder, LengthsAgree
<1>6. OnlyLoggingPanics' /\ ContentNeedsConsent' /\ SuccessIsComplete'
  BY <1>1, <1>2 DEF OnlyLoggingPanics, ContentNeedsConsent, SuccessIsComplete, EndsAgree
<1> QED  BY <1>3, <1>4, <1>5, <1>6

(* The response keeps the invariant.                                       *)
LEMMA StepWriteFileResponse == ASSUME TransferInv, WriteFileResponse PROVE TransferInv'
<1> USE TransferAssumption DEF TransferInv, Received
<1>1. /\ spc = "respond" /\ spc' = IF file = Missing THEN "failing" ELSE "ack"
      /\ announced' = file
      /\ s2c' = IF copen THEN Append(s2c, Metadata(file)) ELSE s2c
      /\ UNCHANGED <<sres, index, wbuf, handle, cpc, cres, disk, cbuf, version, file,
                     changes, given, c2s, copen, s2cEnd>>
  BY DEF WriteFileResponse, ServerMoves, ServerSends, client, disc
<1>2. /\ s2c' = << >> \/ s2c' = <<Metadata(announced')>>
      /\ copen \/ s2c' = << >>
      /\ cpc \in {"response", "done"} /\ c2s = << >> /\ version = ServerVersion
  BY <1>1, OneMessage DEF ServerTurn
<1>3. file \in Files /\ (file # Missing => file \in Nat)
  BY DEF TypeOK, Files
<1>4. TypeOK' /\ EndsAgree'
  BY <1>1, <1>2 DEF TypeOK, EndsAgree, sopen
<1>5. ServerTurn' /\ ClientTurn'
  BY <1>1, <1>2, <1>3 DEF ServerTurn, ClientTurn, ResponseOnWire, AckOnWire, Missing
<1>6. NothingMoved' /\ ChunksInOrder' /\ LengthsAgree'
  BY <1>1, <1>2 DEF NothingMoved, ChunksInOrder, LengthsAgree
<1>7. OnlyLoggingPanics' /\ ContentNeedsConsent' /\ SuccessIsComplete'
  BY <1>1, <1>2 DEF OnlyLoggingPanics, ContentNeedsConsent, SuccessIsComplete, EndsAgree
<1> QED  BY <1>4, <1>5, <1>6, <1>7

(* Reading the acknowledgement keeps the invariant: only an acceptance     *)
(* opens the file, and only the status of a later schema panics.           *)
LEMMA StepReadTransferAck == ASSUME TransferInv, ReadTransferAck PROVE TransferInv'
<1> USE TransferAssumption DEF TransferInv, Received
<1>1. /\ spc = "ack" /\ c2s # << >> /\ spc' = AfterAck(Head(c2s))
      /\ UNCHANGED <<sres, index, wbuf, handle, announced, cpc, cres, disk, cbuf, version, file,
                     changes, given, s2c, copen, s2cEnd>>
  BY DEF ReadTransferAck, ServerReads, client, disc
<1>2. AckOnWire /\ announced \in Nat /\ announced # Missing /\ version = ServerVersion
  BY <1>1 DEF ServerTurn, Missing
<1>3. /\ AckStatus.Accepted = 0 /\ AckStatus.Rejected = 1
      /\ LaterAck = TransferAck(2)
  BY DEF AckStatus, LaterAck
<1>4. \/ /\ spc' = "open"
         /\ cpc \in {"create", "receive", "done"} /\ cres # "declined"
         /\ announced <= MaxFileSize
      \/ spc' \in {"failing", "shutdown"} /\ cpc \in {"decline", "done"}
      \/ /\ spc' = "panicking" /\ cpc \in {"decline", "done"}
         /\ {"debug", "newer"} \subseteq given
  <2>1. CASE /\ c2s = <<TransferAck(0)>>
             /\ cpc \in {"create", "receive", "done"} /\ cres # "declined"
             /\ announced <= MaxFileSize
    <3>1. Head(c2s) = TransferAck(0)
      BY <2>1, OneMessage
    <3>2. AfterAck(TransferAck(0)) = "open"
      BY <1>3, Acks DEF AfterAck
    <3> QED  BY <1>1, <2>1, <3>1, <3>2
  <2>2. CASE c2s = <<TransferAck(1)>> /\ cpc \in {"decline", "done"}
    <3>1. Head(c2s) = TransferAck(1)
      BY <2>2, OneMessage
    <3>2. AfterAck(TransferAck(1)) = "shutdown"
      BY <1>3, Acks DEF AfterAck
    <3> QED  BY <1>1, <2>2, <3>1, <3>2
  <2>3. CASE c2s = <<TransferAck(2)>> /\ "newer" \in given /\ cpc \in {"decline", "done"}
    <3>1. Head(c2s) = TransferAck(2)
      BY <2>3, OneMessage
    <3>2. /\ AfterAck(TransferAck(2)) \in {"panicking", "shutdown"}
          /\ AfterAck(TransferAck(2)) = "panicking" => "debug" \in given
      BY <1>3, Acks DEF AfterAck
    <3> QED  BY <1>1, <2>3, <3>1, <3>2
  <2>4. CASE c2s = <<Retyped(TransferAck(2))>> /\ cpc \in {"decline", "done"}
    <3>1. Head(c2s) = Retyped(TransferAck(2))
      BY <2>4, OneMessage
    <3>2. AfterAck(Retyped(TransferAck(2))) = "failing"
      BY Acks DEF AfterAck
    <3> QED  BY <1>1, <2>4, <3>1, <3>2
  <2> QED  BY <1>1, <1>2, <1>3, <2>1, <2>2, <2>3, <2>4 DEF AckOnWire
<1>5. TypeOK' /\ EndsAgree'
  BY <1>1, <1>4 DEF TypeOK, EndsAgree, sopen, InContent, NothingMoved
<1>6. ServerTurn' /\ ClientTurn'
  BY <1>1, <1>2, <1>4 DEF ServerTurn, ClientTurn, ResponseOnWire, InContent
<1>7. NothingMoved' /\ ChunksInOrder' /\ LengthsAgree'
  BY <1>1, <1>4 DEF NothingMoved, ChunksInOrder, LengthsAgree
<1>8. OnlyLoggingPanics' /\ ContentNeedsConsent' /\ SuccessIsComplete'
  BY <1>1, <1>2, <1>4 DEF OnlyLoggingPanics, ContentNeedsConsent, SuccessIsComplete, EndsAgree, NothingMoved
<1> QED  BY <1>5, <1>6, <1>7, <1>8

-----------------------------------------------------------------------------
(* The chunks.                                                             *)

(* A run of numbers without its first begins with the next.                *)
LEMMA TailOfNumbers ==
  ASSUME NEW S \in SUBSET Nat, NEW s \in Seq(S), s # << >>, NEW n \in Nat,
         \A i \in DOMAIN s : s[i] = n + i - 1
  PROVE  /\ Head(s) = n /\ n \in S
         /\ Tail(s) \in Seq(S) /\ Len(Tail(s)) = Len(s) - 1
         /\ \A i \in DOMAIN Tail(s) : Tail(s)[i] = n + 1 + i - 1
<1>1. /\ Head(s) = s[1] /\ Len(s) \in Nat /\ Len(s) > 0
      /\ DOMAIN s = 1 .. Len(s) /\ DOMAIN Tail(s) = 1 .. Len(s) - 1
      /\ Tail(s) \in Seq(S) /\ Len(Tail(s)) = Len(s) - 1
      /\ \A i \in 1 .. Len(s) - 1 : Tail(s)[i] = s[i + 1]
      /\ Head(s) \in S
  BY HeadTailProperties, EmptySeq
<1>2. Head(s) = n
  BY <1>1
<1>3. ASSUME NEW i \in 1 .. Len(s) - 1 PROVE Tail(s)[i] = n + 1 + i - 1
  <2>1. i + 1 \in 1 .. Len(s)
    BY <1>1
  <2> QED  BY <1>1, <2>1
<1> QED  BY <1>1, <1>2, <1>3

(* The same of the chunks on the stream.                                   *)
LEMMA AppendChunk ==
  ASSUME NEW s \in Seq(Chunks), NEW n \in Nat, NEW e \in 0 .. MaxLen, e = n + Len(s),
         \A i \in DOMAIN s : s[i] = FileChunk(n + i - 1)
  PROVE  /\ Append(s, FileChunk(e)) \in Seq(Chunks)
         /\ Len(Append(s, FileChunk(e))) = Len(s) + 1
         /\ \A i \in DOMAIN Append(s, FileChunk(e)) :
              Append(s, FileChunk(e))[i] = FileChunk(n + i - 1)
<1> DEFINE c == FileChunk(e)
<1>1. c \in Chunks
  BY DEF Chunks
<1> HIDE DEF c
<1>2. /\ DOMAIN s = 1 .. Len(s) /\ DOMAIN Append(s, c) = 1 .. Len(s) + 1
      /\ Len(s) \in Nat
      /\ \A i \in 1 .. Len(s) : Append(s, c)[i] = s[i]
      /\ Append(s, c)[Len(s) + 1] = c
      /\ Append(s, c) \in Seq(Chunks) /\ Len(Append(s, c)) = Len(s) + 1
  BY <1>1
<1>3. c = FileChunk(n + (Len(s) + 1) - 1)
  <2>1. n + (Len(s) + 1) - 1 = e
    BY <1>2
  <2> QED  BY <2>1 DEF c
<1>4. \A i \in DOMAIN Append(s, c) : Append(s, c)[i] = FileChunk(n + i - 1)
  BY <1>2, <1>3
<1> QED  BY <1>2, <1>4 DEF c

(* The first chunk on the stream is the next the client needs.             *)
LEMMA TailOfChunks ==
  ASSUME NEW s \in Seq(Chunks), s # << >>, NEW n \in Nat,
         \A i \in DOMAIN s : s[i] = FileChunk(n + i - 1)
  PROVE  /\ Head(s) = FileChunk(n)
         /\ Tail(s) \in Seq(Chunks) /\ Len(Tail(s)) = Len(s) - 1
         /\ \A i \in DOMAIN Tail(s) : Tail(s)[i] = FileChunk(n + 1 + i - 1)
<1>1. /\ Head(s) = s[1] /\ Len(s) \in Nat /\ Len(s) > 0
      /\ DOMAIN s = 1 .. Len(s) /\ DOMAIN Tail(s) = 1 .. Len(s) - 1
      /\ Tail(s) \in Seq(Chunks) /\ Len(Tail(s)) = Len(s) - 1
      /\ \A i \in 1 .. Len(s) - 1 : Tail(s)[i] = s[i + 1]
  BY HeadTailProperties, EmptySeq
<1>2. Head(s) = FileChunk(n)
  <2>1. s[1] = FileChunk(n + 1 - 1) /\ n + 1 - 1 = n
    BY <1>1
  <2> QED  BY <1>1, <2>1
<1>3. ASSUME NEW i \in 1 .. Len(s) - 1 PROVE Tail(s)[i] = FileChunk(n + 1 + i - 1)
  <2>1. i + 1 \in 1 .. Len(s) /\ n + (i + 1) - 1 = n + 1 + i - 1
    BY <1>1
  <2>2. s[i + 1] = FileChunk(n + (i + 1) - 1)
    BY <1>1, <2>1
  <2> QED  BY <1>1, <2>1, <2>2
<1> QED  BY <1>1, <1>2, <1>3

-----------------------------------------------------------------------------
(* The handler reads the file and fills its buffer.                        *)

(* Opening the file keeps the invariant.                                   *)
LEMMA StepOpenFile == ASSUME TransferInv, OpenFile PROVE TransferInv'
<1> USE TransferAssumption DEF TransferInv, Received
<1>1. /\ spc = "open" /\ spc' = "read" /\ handle' = file /\ file # Missing
      /\ UNCHANGED <<index, wbuf>>
      /\ UNCHANGED <<sres, announced, cpc, cres, disk, cbuf, version, file, changes, given,
                     c2s, s2c, copen, s2cEnd>>
  BY DEF OpenFile, ServerMoves, client, disc, wire
<1>2. file \in Nat /\ announced \in Nat
  BY <1>1, TransferAssumption DEF TypeOK, Files, ContentNeedsConsent
<1>3. cpc \in {"create", "receive"} => Received = 0 /\ Len(s2c) = 0 /\ Len(wbuf) = 0
  BY <1>1 DEF NothingMoved
<1>4. TypeOK' /\ EndsAgree'
  BY <1>1, <1>2, <1>3 DEF TypeOK, EndsAgree, sopen, InContent
<1>5. ServerTurn' /\ ClientTurn'
  BY <1>1, <1>2, <1>3 DEF ServerTurn, ClientTurn, ResponseOnWire, ContentNeedsConsent, InContent
<1>6. NothingMoved' /\ LengthsAgree'
  BY <1>1, <1>2, <1>3 DEF NothingMoved, LengthsAgree, ContentNeedsConsent, TypeOK, EndsAgree
<1>7. ChunksInOrder'
  BY <1>1, <1>2, <1>3 DEF ChunksInOrder, NothingMoved, EndsAgree, TypeOK
<1>8. OnlyLoggingPanics' /\ ContentNeedsConsent' /\ SuccessIsComplete'
  BY <1>1, <1>2, <1>3 DEF OnlyLoggingPanics, ContentNeedsConsent, SuccessIsComplete, EndsAgree
<1> QED  BY <1>4, <1>5, <1>6, <1>7, <1>8

(* Putting a chunk into the buffer keeps the invariant.                    *)
LEMMA StepReadChunk == ASSUME TransferInv, ReadChunk PROVE TransferInv'
<1> USE TransferAssumption DEF TransferInv, Received
<1>1. /\ spc = "read" /\ index < handle /\ handle' = handle
      /\ \/ wbuf' = Append(wbuf, index) /\ index' = index + 1 /\ spc' = "read"
         \/ wbuf' = wbuf /\ index' = index /\ spc' = "spill"
      /\ UNCHANGED <<sres, announced, cpc, cres, disk, cbuf, version, file, changes, given,
                     c2s, s2c, copen, s2cEnd>>
  BY DEF ReadChunk, BufferChunk, client, disc, wire
<1>2. index \in 0 .. MaxLen /\ index < MaxLen /\ wbuf \in Seq(0 .. MaxLen)
  BY <1>1 DEF TypeOK, Files, Missing
<1>3. wbuf' \in Seq(0 .. MaxLen)
  <2>1. Append(wbuf, index) \in Seq(0 .. MaxLen)
    BY <1>2, AppendProperties
  <2> QED  BY <1>1, <1>2, <2>1
<1>4. TypeOK' /\ EndsAgree'
  <2>1. index' \in 0 .. MaxLen /\ wbuf' \in Seq(0 .. MaxLen) /\ spc' \in InContent
    BY <1>1, <1>2, <1>3 DEF InContent
  <2>2. TypeOK
    OBVIOUS
  <2>3. TypeOK'
    BY ONLY <1>1, <2>1, <2>2 DEF TypeOK
  <2>4. EndsAgree'
    BY <1>1 DEF EndsAgree, sopen, InContent
  <2> QED  BY <2>3, <2>4
<1>5. ServerTurn' /\ ClientTurn'
  BY <1>1 DEF ServerTurn, ClientTurn, ResponseOnWire, InContent
<1>6. NothingMoved' /\ LengthsAgree'
  <2>1. NothingMoved'
    BY <1>1, <1>2 DEF NothingMoved
  <2>2. LengthsAgree'
    BY <1>1, <1>2 DEF LengthsAgree, EndsAgree, ClientTurn, TypeOK, Files, Missing
  <2> QED  BY <2>1, <2>2
<1>7. ChunksInOrder'
  <2>1. CASE wbuf' = wbuf /\ index' = index /\ spc' = "spill"
    BY <1>1, <1>2, <2>1 DEF ChunksInOrder
  <2>2. CASE wbuf' = Append(wbuf, index) /\ index' = index + 1 /\ spc' = "read"
    <3>1. CASE cpc \in {"create", "receive"}
      <4>1. PICK n \in Nat : n = Received + Len(s2c)
        BY <3>1 DEF ChunksInOrder, TypeOK
      <4>2. index = n + Len(wbuf) /\ \A i \in DOMAIN wbuf : wbuf[i] = n + i - 1
        BY <1>1, <1>2, <3>1, <4>1 DEF ChunksInOrder
      <4>3. /\ Len(wbuf') = Len(wbuf) + 1
            /\ \A i \in DOMAIN wbuf' : wbuf'[i] = n + i - 1
        BY <1>2, <2>2, <4>2, AppendNumber, SMTT(30)
      <4>4. Len(wbuf) \in Nat
        BY <1>2
      <4>5. Received + Len(s2c) + Len(wbuf') = index'
        BY <2>2, <4>1, <4>2, <4>3, <4>4
      <4> QED  BY <1>1, <2>2, <3>1, <4>1, <4>3, <4>5 DEF ChunksInOrder
    <3>2. CASE cpc \notin {"create", "receive"}
      BY <1>1, <2>2, <3>2 DEF ChunksInOrder
    <3> QED  BY <3>1, <3>2
  <2> QED  BY <1>1, <2>1, <2>2
<1>8. OnlyLoggingPanics' /\ ContentNeedsConsent' /\ SuccessIsComplete'
  BY <1>1 DEF OnlyLoggingPanics, ContentNeedsConsent, SuccessIsComplete, EndsAgree
<1> QED  BY <1>4, <1>5, <1>6, <1>7, <1>8

(* The end of the file, or an error, keeps the invariant.                  *)
LEMMA StepReadEof == ASSUME TransferInv, ReadEof \/ ReadFails \/ Flushed PROVE TransferInv'
<1> USE TransferAssumption DEF TransferInv, Received
<1>1. /\ \/ spc = "read" /\ spc' = "flush" /\ index >= handle
         \/ spc = "read" /\ spc' = "abort"
         \/ spc = "flush" /\ spc' = "shutdown" /\ wbuf = << >>
      /\ UNCHANGED <<index, wbuf, handle>>
      /\ UNCHANGED <<sres, announced, cpc, cres, disk, cbuf, version, file, changes, given,
                     c2s, s2c, copen, s2cEnd>>
  BY DEF ReadEof, AtEof, ReadFails, Flushed, ServerMoves, client, disc, wire
<1>2. index \in Nat /\ handle \in Int
  BY DEF TypeOK, Files, Missing
<1>3. TypeOK' /\ EndsAgree'
  BY <1>1, <1>2 DEF TypeOK, EndsAgree, sopen, InContent
<1>4. ServerTurn' /\ ClientTurn'
  BY <1>1, <1>2 DEF ServerTurn, ClientTurn, ResponseOnWire, ContentNeedsConsent, InContent
<1>5. NothingMoved' /\ LengthsAgree'
  <2>1. NothingMoved'
    BY <1>1 DEF NothingMoved
  <2>2. spc = "read" /\ changes = 0 => announced = handle /\ index <= handle
    BY DEF LengthsAgree
  <2>3. spc = "flush" /\ changes = 0 => announced = handle /\ index = handle
    BY DEF LengthsAgree
  <2>4. sres = "none"
    BY <1>1 DEF EndsAgree
  <2> QED  BY <1>1, <1>2, <2>1, <2>2, <2>3, <2>4 DEF LengthsAgree
<1>6. ChunksInOrder'
  BY <1>1, <1>2 DEF ChunksInOrder, NothingMoved, EndsAgree, TypeOK
<1>7. OnlyLoggingPanics' /\ ContentNeedsConsent' /\ SuccessIsComplete'
  BY <1>1, <1>2 DEF OnlyLoggingPanics, ContentNeedsConsent, SuccessIsComplete, EndsAgree
<1> QED  BY <1>3, <1>4, <1>5, <1>6, <1>7

(* Going on with the chunk that did not fit keeps the invariant.           *)
LEMMA StepSpilled == ASSUME TransferInv, Spilled PROVE TransferInv'
<1> USE TransferAssumption DEF TransferInv, Received
<1>1. /\ spc = "spill" /\ spc' = "read" /\ handle' = handle
      /\ wbuf = << >> /\ wbuf' = <<index>> /\ index' = index + 1
      /\ UNCHANGED <<sres, announced, cpc, cres, disk, cbuf, version, file, changes, given,
                     c2s, s2c, copen, s2cEnd>>
  BY DEF Spilled, ServerMoves, client, disc, wire
<1>2. /\ index \in 0 .. MaxLen /\ index + 1 \in 0 .. MaxLen
      /\ <<index>> \in Seq(0 .. MaxLen) /\ handle \in Int
  BY <1>1 DEF TypeOK, ChunksInOrder, Files, Missing
<1>3. TypeOK' /\ EndsAgree'
  BY <1>1, <1>2 DEF TypeOK, EndsAgree, sopen, InContent
<1>4. ServerTurn' /\ ClientTurn'
  BY <1>1 DEF ServerTurn, ClientTurn, ResponseOnWire, InContent
<1>5. NothingMoved' /\ LengthsAgree'
  BY <1>1, <1>2 DEF NothingMoved, LengthsAgree, EndsAgree
<1>6. ChunksInOrder'
  <2>1. Len(wbuf) = 0 /\ Len(wbuf') = 1 /\ DOMAIN wbuf' = {1} /\ wbuf'[1] = index
    BY <1>1
  <2>2. CASE cpc \in {"create", "receive"}
    <3>1. Received \in Nat /\ Len(s2c) \in Nat
      BY <2>2 DEF ChunksInOrder, TypeOK
    <3>2. Received + Len(s2c) = index
      BY <1>1, <2>1, <2>2, <3>1 DEF ChunksInOrder
    <3>3. /\ Received + Len(s2c) + Len(wbuf') = index'
          /\ \A i \in DOMAIN wbuf' : wbuf'[i] = Received + Len(s2c) + i - 1
      BY <1>1, <1>2, <2>1, <3>1, <3>2
    <3> QED  BY <1>1, <2>2, <3>3 DEF ChunksInOrder
  <2>3. CASE cpc \notin {"create", "receive"}
    BY <1>1, <2>3 DEF ChunksInOrder
  <2> QED  BY <2>2, <2>3
<1>7. OnlyLoggingPanics' /\ ContentNeedsConsent' /\ SuccessIsComplete'
  BY <1>1 DEF OnlyLoggingPanics, ContentNeedsConsent, SuccessIsComplete, EndsAgree
<1> QED  BY <1>3, <1>4, <1>5, <1>6, <1>7

(* Writing out the buffer keeps the invariant.                             *)
LEMMA StepSendBuffered == ASSUME TransferInv, SendBuffered PROVE TransferInv'
<1> USE TransferAssumption DEF TransferInv
<1>1. /\ spc \in {"spill", "flush", "abort"} /\ wbuf # << >> /\ wbuf' = Tail(wbuf)
      /\ s2c' = IF copen THEN Append(s2c, FileChunk(Head(wbuf))) ELSE s2c
      /\ UNCHANGED <<spc, sres, index, handle, announced, cpc, cres, disk, cbuf, version, file,
                     changes, given, c2s, copen, s2cEnd>>
  BY DEF SendBuffered, ServerSends, client, disc
<1> Received' = Received /\ Received \in Nat
  BY <1>1, ReceivedCounts DEF Received
<1>2. cpc \in {"create", "receive", "done"} /\ sres = "none"
  BY <1>1 DEF ContentNeedsConsent, EndsAgree
<1>3. wbuf \in Seq(0 .. MaxLen) /\ wbuf' \in Seq(0 .. MaxLen)
  BY <1>1, HeadTailProperties DEF TypeOK
<1>4. cpc = "done" => s2c' = << >>
  BY <1>1 DEF EndsAgree
<1>5. TypeOK' /\ EndsAgree'
  BY <1>1, <1>3, <1>4 DEF TypeOK, EndsAgree, sopen
<1>6. ServerTurn' /\ ClientTurn'
  BY <1>1, <1>2 DEF ServerTurn, ClientTurn
<1>7. NothingMoved' /\ LengthsAgree'
  BY <1>1 DEF NothingMoved, LengthsAgree
<1>8. ChunksInOrder'
  <2>1. CASE cpc \in {"create", "receive"}
    <3>1. copen /\ s2c \in Seq(Chunks)
      BY <2>1 DEF EndsAgree, ChunksInOrder, TypeOK
    <3>2. PICK d \in Nat, n \in Nat : d = Received /\ n = Received + Len(s2c)
      <4>1. Received + Len(s2c) \in Nat
        BY <3>1
      <4> QED  BY <4>1
    <3>3. /\ \A i \in DOMAIN s2c : s2c[i] = FileChunk(d + i - 1)
          /\ \A i \in DOMAIN wbuf : wbuf[i] = n + i - 1
      BY <2>1, <3>2 DEF ChunksInOrder
    <3>4. /\ Head(wbuf) = n /\ n \in 0 .. MaxLen
          /\ Len(wbuf') = Len(wbuf) - 1
          /\ \A i \in DOMAIN wbuf' : wbuf'[i] = n + 1 + i - 1
      <4> DEFINE S == 0 .. MaxLen
      <4>1. S \in SUBSET Nat /\ wbuf \in Seq(S) /\ wbuf # << >>
        BY <1>1, <1>3
      <4> HIDE DEF S
      <4>2. /\ Head(wbuf) = n /\ n \in S
            /\ Len(Tail(wbuf)) = Len(wbuf) - 1
            /\ \A i \in DOMAIN Tail(wbuf) : Tail(wbuf)[i] = n + 1 + i - 1
        <5>1. \A i \in DOMAIN wbuf : wbuf[i] = n + i - 1
          BY <3>3
        <5> QED  BY <4>1, <5>1, TailOfNumbers
      <4> QED  BY <1>1, <4>2 DEF S
    <3>5. /\ s2c' \in Seq(Chunks) /\ Len(s2c') = Len(s2c) + 1
          /\ \A i \in DOMAIN s2c' : s2c'[i] = FileChunk(d + i - 1)
      <4>1. s2c' = Append(s2c, FileChunk(n))
        BY <1>1, <3>1, <3>4
      <4>2. n = d + Len(s2c)
        BY <3>2
      <4>3. /\ Append(s2c, FileChunk(n)) \in Seq(Chunks)
            /\ Len(Append(s2c, FileChunk(n))) = Len(s2c) + 1
            /\ \A i \in DOMAIN Append(s2c, FileChunk(n)) :
                 Append(s2c, FileChunk(n))[i] = FileChunk(d + i - 1)
        <5>1. n \in 0 .. MaxLen /\ \A i \in DOMAIN s2c : s2c[i] = FileChunk(d + i - 1)
          BY <3>3, <3>4
        <5> QED  BY <3>1, <4>2, <5>1, AppendChunk
      <4> QED  BY <4>1, <4>3
    <3>6. Len(s2c) \in Nat /\ Len(wbuf) \in Nat
      BY <1>3, <3>1
    <3>7. /\ Received' + Len(s2c') = n + 1
          /\ Received' + Len(s2c') + Len(wbuf') = Received + Len(s2c) + Len(wbuf)
      BY <1>1, <3>2, <3>4, <3>5, <3>6
    <3>8. /\ \A i \in DOMAIN s2c' : s2c'[i] = FileChunk(Received' + i - 1)
          /\ \A i \in DOMAIN wbuf' : wbuf'[i] = Received' + Len(s2c') + i - 1
      BY <1>1, <3>2, <3>4, <3>5, <3>7
    <3> QED  BY <1>1, <2>1, <3>5, <3>7, <3>8 DEF ChunksInOrder
  <2>2. CASE cpc \notin {"create", "receive"}
    BY <1>1, <2>2 DEF ChunksInOrder
  <2> QED  BY <2>1, <2>2
<1>9. OnlyLoggingPanics' /\ ContentNeedsConsent' /\ SuccessIsComplete'
  BY <1>1, <1>2 DEF OnlyLoggingPanics, ContentNeedsConsent, SuccessIsComplete
<1> QED  BY <1>5, <1>6, <1>7, <1>8, <1>9

-----------------------------------------------------------------------------
(* The client.                                                             *)

(* What a client writes reaches a server that is there.                    *)
LEMMA Sending ==
  ASSUME TransferInv, NEW m, ClientSends(m)
  PROVE  /\ s2c' = s2c /\ copen' = copen
         /\ \/ /\ spc # "done" /\ c2s' = Append(c2s, m) /\ s2cEnd' = s2cEnd
            \/ /\ spc = "done" /\ s2cEnd' \in {"fin", "rst"}
  BY DEF TransferInv, TypeOK, EndsAgree, ClientSends, sopen

(* The query keeps the invariant.                                          *)
LEMMA StepSendQuery == ASSUME TransferInv, SendQuery PROVE TransferInv'
<1> USE TransferAssumption DEF TransferInv, Received
<1>1. /\ cpc = "ask" /\ cpc' = "response"
      /\ UNCHANGED <<spc, sres, index, wbuf, handle, announced, cres, disk, cbuf, version, file,
                     changes, given>>
  BY DEF SendQuery, ClientMoves, server, disc
<1>2. PICK m \in {FileQuery(version), Retyped(FileQuery(version))} : ClientSends(m)
  BY DEF SendQuery
<1>3. /\ s2c' = s2c /\ copen' = copen
      /\ \/ /\ spc # "done" /\ c2s' = Append(c2s, m) /\ s2cEnd' = s2cEnd
         \/ /\ spc = "done" /\ s2cEnd' \in {"fin", "rst"}
  BY <1>2, Sending
<1>4. spc = "done" \/ (spc = "query" /\ c2s = << >> /\ c2s' = <<m>>)
  BY <1>1, <1>3, OneMessage DEF ServerTurn, ClientTurn
<1>5. TypeOK' /\ EndsAgree'
  BY <1>1, <1>3 DEF TypeOK, EndsAgree, sopen
<1>6. ServerTurn' /\ ClientTurn'
  BY <1>1, <1>3, <1>4 DEF ServerTurn, ClientTurn, ResponseOnWire
<1>7. NothingMoved' /\ ChunksInOrder' /\ LengthsAgree'
  BY <1>1, <1>3 DEF NothingMoved, ChunksInOrder, LengthsAgree
<1>8. OnlyLoggingPanics' /\ ContentNeedsConsent' /\ SuccessIsComplete'
  BY <1>1 DEF OnlyLoggingPanics, ContentNeedsConsent, SuccessIsComplete
<1> QED  BY <1>5, <1>6, <1>7, <1>8

(* Reading the metadata keeps the invariant: the client decides by the     *)
(* length that the server announced.                                       *)
LEMMA StepReadMetadata == ASSUME TransferInv, ReadMetadata PROVE TransferInv'
<1> USE TransferAssumption DEF TransferInv, Received
<1>1. /\ cpc = "response" /\ s2c # << >> /\ Announces(Head(s2c)) /\ s2c' = Tail(s2c)
      /\ cpc' = IF SizeAllowed(Value(Head(s2c).f1[2].f2)) THEN "accept" ELSE "reject"
      /\ UNCHANGED <<spc, sres, index, wbuf, handle, announced, cres, disk, cbuf, version, file,
                     changes, given, c2s, copen, s2cEnd>>
  BY DEF ReadMetadata, server, disc
<1>2. /\ announced \in Nat /\ spc \in {"ack", "done"} /\ s2c' = << >>
      /\ cpc' = IF announced <= MaxFileSize THEN "accept" ELSE "reject"
  <2>1. PICK m : s2c = <<m>>
    BY <1>1 DEF ClientTurn, ResponseOnWire
  <2>2. m # Unsupported /\ m # Metadata(Missing)
    BY <1>1, <2>1, OneMessage, Responses
  <2>3. m = Metadata(announced) /\ announced \in Nat /\ spc \in {"ack", "done"}
    BY <1>1, <2>1, <2>2, OneMessage DEF ClientTurn, ResponseOnWire
  <2> QED  BY <1>1, <2>1, <2>3, OneMessage, Responses DEF SizeAllowed
<1>3. TypeOK' /\ EndsAgree'
  BY <1>1, <1>2 DEF TypeOK, EndsAgree, sopen
<1>4. ServerTurn' /\ ClientTurn'
  BY <1>1, <1>2 DEF ServerTurn, ClientTurn, AckOnWire
<1>5. NothingMoved' /\ ChunksInOrder' /\ LengthsAgree'
  BY <1>1, <1>2 DEF NothingMoved, ChunksInOrder, LengthsAgree
<1>6. OnlyLoggingPanics' /\ ContentNeedsConsent' /\ SuccessIsComplete'
  BY <1>1, <1>2 DEF OnlyLoggingPanics, ContentNeedsConsent, SuccessIsComplete
<1> QED  BY <1>3, <1>4, <1>5, <1>6

(* Accepting keeps the invariant: the next on the stream is a chunk.       *)
LEMMA StepSendAccepted == ASSUME TransferInv, SendAccepted PROVE TransferInv'
<1> USE TransferAssumption DEF TransferInv, Received
<1>1. /\ cpc = "accept" /\ cpc' = "create"
      /\ UNCHANGED <<spc, sres, index, wbuf, handle, announced, cres, disk, cbuf, version, file,
                     changes, given>>
  BY DEF SendAccepted, ClientMoves, server, disc
<1>2. /\ s2c' = s2c /\ copen' = copen
      /\ \/ /\ spc # "done" /\ c2s' = Append(c2s, TransferAck(AckStatus.Accepted))
            /\ s2cEnd' = s2cEnd
         \/ /\ spc = "done" /\ s2cEnd' \in {"fin", "rst"}
  BY Sending DEF SendAccepted
<1>3. \/ spc = "done"
      \/ spc = "ack" /\ c2s = << >> /\ c2s' = <<TransferAck(AckStatus.Accepted)>>
  BY <1>1, <1>2, OneMessage DEF ServerTurn, ClientTurn, AckOnWire
<1>4. /\ cres = "none" /\ sres # "ok" /\ s2c = << >> /\ disk = << >> /\ cbuf = << >> /\ wbuf = << >>
      /\ announced \in 0 .. MaxFileSize
  BY <1>1, <1>3 DEF ServerTurn, ClientTurn, EndsAgree, NothingMoved
<1>5. TypeOK' /\ EndsAgree'
  BY <1>1, <1>2 DEF TypeOK, EndsAgree, sopen
<1>6. ServerTurn' /\ ClientTurn'
  BY <1>1, <1>2, <1>3, <1>4 DEF ServerTurn, ClientTurn, AckOnWire
<1>7. NothingMoved' /\ LengthsAgree'
  BY <1>1, <1>2, <1>3, <1>4 DEF NothingMoved, LengthsAgree
<1>8. ChunksInOrder'
  BY <1>1, <1>2, <1>3, <1>4 DEF ChunksInOrder
<1>9. OnlyLoggingPanics' /\ ContentNeedsConsent' /\ SuccessIsComplete'
  BY <1>1 DEF OnlyLoggingPanics, ContentNeedsConsent, SuccessIsComplete
<1> QED  BY <1>5, <1>6, <1>7, <1>8, <1>9

(* Declining keeps the invariant, in a way that the server knows or not.   *)
LEMMA StepSendRejected ==
  ASSUME TransferInv, SendRejected \/ SendLaterAck
  PROVE  TransferInv'
<1> USE TransferAssumption DEF TransferInv, Received
<1>1. /\ cpc \in {"accept", "reject"} /\ cpc' = "decline"
      /\ UNCHANGED <<spc, sres, index, wbuf, handle, announced, cres, disk, cbuf, version, file,
                     changes, given>>
  BY DEF SendRejected, SendLaterAck, ClientMoves, server, disc
<1>2. PICK m : /\ \/ m = TransferAck(AckStatus.Rejected)
                  \/ m \in {LaterAck, Retyped(LaterAck)} /\ "newer" \in given
               /\ ClientSends(m)
  BY DEF SendRejected, SendLaterAck
<1>3. /\ s2c' = s2c /\ copen' = copen
      /\ \/ /\ spc # "done" /\ c2s' = Append(c2s, m) /\ s2cEnd' = s2cEnd
         \/ /\ spc = "done" /\ s2cEnd' \in {"fin", "rst"}
  BY <1>2, Sending
<1>4. spc = "done" \/ (spc = "ack" /\ c2s = << >> /\ c2s' = <<m>>)
  BY <1>1, <1>3, OneMessage DEF ServerTurn, ClientTurn, AckOnWire
<1>5. TypeOK' /\ EndsAgree'
  BY <1>1, <1>3 DEF TypeOK, EndsAgree, sopen
<1>6. ServerTurn' /\ ClientTurn'
  BY <1>1, <1>2, <1>3, <1>4 DEF ServerTurn, ClientTurn, AckOnWire
<1>7. NothingMoved' /\ ChunksInOrder' /\ LengthsAgree'
  BY <1>1, <1>3, <1>4 DEF NothingMoved, ChunksInOrder, LengthsAgree
<1>8. OnlyLoggingPanics' /\ ContentNeedsConsent' /\ SuccessIsComplete'
  BY <1>1 DEF OnlyLoggingPanics, ContentNeedsConsent, SuccessIsComplete
<1> QED  BY <1>5, <1>6, <1>7, <1>8

(* Creating the file keeps the invariant.                                  *)
LEMMA StepCreateFile == ASSUME TransferInv, CreateFile PROVE TransferInv'
<1> USE TransferAssumption DEF TransferInv, Received
<1>1. /\ cpc = "create" /\ cpc' = "receive"
      /\ UNCHANGED <<spc, sres, index, wbuf, handle, announced, cres, disk, cbuf, version, file,
                     changes, given, c2s, s2c, copen, s2cEnd>>
  BY DEF CreateFile, ClientMoves, server, disc, wire
<1>2. TypeOK' /\ EndsAgree'
  BY <1>1 DEF TypeOK, EndsAgree, sopen
<1>3. ServerTurn' /\ ClientTurn'
  BY <1>1 DEF ServerTurn, ClientTurn, AckOnWire
<1>4. NothingMoved' /\ ChunksInOrder' /\ LengthsAgree'
  BY <1>1 DEF NothingMoved, ChunksInOrder, LengthsAgree
<1>5. OnlyLoggingPanics' /\ ContentNeedsConsent' /\ SuccessIsComplete'
  BY <1>1 DEF OnlyLoggingPanics, ContentNeedsConsent, SuccessIsComplete
<1> QED  BY <1>2, <1>3, <1>4, <1>5

(* Receiving a chunk keeps the invariant: it is the next of the file.      *)
LEMMA StepReceiveChunk == ASSUME TransferInv, ReceiveChunk PROVE TransferInv'
<1> USE TransferAssumption DEF TransferInv
<1>1. /\ cpc = "receive" /\ s2c # << >> /\ s2c' = Tail(s2c)
      /\ Save(Value(Head(s2c).f1))
      /\ UNCHANGED <<spc, sres, index, wbuf, handle, announced, cpc, cres, version, file,
                     changes, given, c2s, copen, s2cEnd>>
  BY DEF ReceiveChunk, server, disc
<1>2. PICK n \in Nat : n = Received
  BY DEF TypeOK, Received
<1>3. /\ s2c \in Seq(Chunks)
      /\ \A i \in DOMAIN s2c : s2c[i] = FileChunk(n + i - 1)
  BY <1>1, <1>2 DEF ChunksInOrder
<1>4. /\ Head(s2c) = FileChunk(n)
      /\ s2c' \in Seq(Chunks) /\ Len(s2c') = Len(s2c) - 1
      /\ \A i \in DOMAIN s2c' : s2c'[i] = FileChunk(n + 1 + i - 1)
  <2>1. /\ Head(s2c) = FileChunk(n)
        /\ Tail(s2c) \in Seq(Chunks) /\ Len(Tail(s2c)) = Len(s2c) - 1
        /\ \A i \in DOMAIN Tail(s2c) : Tail(s2c)[i] = FileChunk(n + 1 + i - 1)
    BY <1>1, <1>3, TailOfChunks
  <2> QED  BY <1>1, <2>1
<1>5. Save(n)
  BY <1>1, <1>4, ChunkNumbers
<1>6. /\ disk' \in Seq(Nat) /\ cbuf' \in Seq(Nat) /\ Received' = n + 1
      /\ \A i \in DOMAIN disk' : disk'[i] = i - 1
      /\ \A i \in DOMAIN cbuf' : cbuf'[i] = Len(disk') + i - 1
  <2>1. /\ disk \in Seq(Nat) /\ cbuf \in Seq(Nat)
        /\ Len(disk) \in Nat /\ Len(cbuf) \in Nat /\ n = Len(disk) + Len(cbuf)
        /\ \A i \in DOMAIN disk : disk[i] = i - 1
        /\ \A i \in DOMAIN cbuf : cbuf[i] = Len(disk) + i - 1
    BY <1>2 DEF TypeOK, ChunksInOrder, Received
  <2>2. CASE cbuf' = Append(cbuf, n) /\ UNCHANGED disk
    <3>1. /\ Append(cbuf, n) \in Seq(Nat) /\ Len(Append(cbuf, n)) = Len(cbuf) + 1
          /\ \A i \in DOMAIN Append(cbuf, n) : Append(cbuf, n)[i] = Len(disk) + i - 1
      BY <2>1, AppendNumber
    <3> QED  BY <2>1, <2>2, <3>1 DEF Received
  <2>3. CASE cbuf' = <<n>> /\ WritesOut(Len(cbuf))
    <3>1. /\ disk' \in Seq(Nat) /\ Len(disk') = n
          /\ \A i \in DOMAIN disk' : disk'[i] = i - 1
      BY <1>2, <2>3, FileComplete
    <3>2. <<n>> \in Seq(Nat) /\ Len(<<n>>) = 1 /\ \A i \in DOMAIN <<n>> : <<n>>[i] = n + i - 1
      OBVIOUS
    <3> QED  BY <2>3, <3>1, <3>2 DEF Received
  <2>4. CASE cbuf' = << >> /\ disk' = Append(disk \o cbuf, n)
    <3> DEFINE d == disk \o cbuf
    <3>1. /\ d \in Seq(Nat) /\ Len(d) = n
          /\ \A i \in DOMAIN d : d[i] = i - 1
      BY <2>1, RunsJoin
    <3> HIDE DEF d
    <3>2. /\ Append(d, n) \in Seq(Nat) /\ Len(Append(d, n)) = n + 1
          /\ \A i \in DOMAIN Append(d, n) : Append(d, n)[i] = i - 1
      <4> DEFINE z == 0
      <4>1. z \in Nat /\ n = z + Len(d) /\ d \in Seq(Nat) /\ \A i \in DOMAIN d : d[i] = z + i - 1
        BY <3>1
      <4> HIDE DEF z
      <4>2. /\ Append(d, n) \in Seq(Nat) /\ Len(Append(d, n)) = Len(d) + 1
            /\ \A i \in DOMAIN Append(d, n) : Append(d, n)[i] = z + i - 1
        BY ONLY n \in Nat, <4>1, AppendNumber
      <4>3. DOMAIN Append(d, n) = 1 .. Len(d) + 1 /\ Len(d) \in Nat
        BY <3>1, <4>2
      <4> QED  BY <3>1, <4>2, <4>3 DEF z
    <3>3. disk' = Append(d, n)
      BY <2>4 DEF d
    <3>4. cbuf' \in Seq(Nat) /\ Len(cbuf') = 0 /\ DOMAIN cbuf' = {}
      BY <2>4
    <3> QED  BY <3>2, <3>3, <3>4 DEF Received
  <2> QED  BY <1>5, <2>2, <2>3, <2>4 DEF Save
<1>7. spc \notin {"ack", "open"} /\ spc \notin {"query", "refuse", "respond", "failing", "panicking"}
  BY <1>1 DEF NothingMoved, ClientTurn, InContent
<1>8. TypeOK' /\ EndsAgree'
  BY <1>1, <1>6 DEF TypeOK, EndsAgree, sopen
<1>9. ServerTurn' /\ ClientTurn'
  BY <1>1, <1>7 DEF ServerTurn, ClientTurn
<1>10. NothingMoved' /\ LengthsAgree'
  BY <1>1, <1>7 DEF NothingMoved, LengthsAgree
<1>11. ChunksInOrder'
  <2>1. Len(s2c) \in Nat
    BY <1>3
  <2>2. Received' + Len(s2c') = Received + Len(s2c)
    BY <1>2, <1>4, <1>6, <2>1
  <2>3. \A i \in DOMAIN s2c' : s2c'[i] = FileChunk(Received' + i - 1)
    BY <1>4, <1>6
  <2> QED  BY <1>1, <1>4, <1>6, <2>2, <2>3 DEF ChunksInOrder
<1>12. OnlyLoggingPanics' /\ ContentNeedsConsent' /\ SuccessIsComplete'
  BY <1>1 DEF OnlyLoggingPanics, ContentNeedsConsent, SuccessIsComplete, EndsAgree
<1> QED  BY <1>8, <1>9, <1>10, <1>11, <1>12

-----------------------------------------------------------------------------
(* The invariant and what follows from it.                                 *)

(* The invariant holds before the client has asked.                        *)
LEMMA InitTransferInv == Init => TransferInv
<1> SUFFICES ASSUME Init PROVE TransferInv
  OBVIOUS
<1> USE TransferAssumption DEF Init
<1>1. DOMAIN << >> = {} /\ Len(<< >>) = 0
  OBVIOUS
<1>2. TypeOK /\ EndsAgree
  BY DEF TypeOK, EndsAgree, sopen, Files
<1>3. ServerTurn /\ ClientTurn
  BY DEF ServerTurn, ClientTurn
<1>4. NothingMoved /\ LengthsAgree
  BY DEF NothingMoved, LengthsAgree
<1>5. ChunksInOrder
  BY <1>1 DEF ChunksInOrder
<1>6. OnlyLoggingPanics /\ ContentNeedsConsent /\ SuccessIsComplete
  BY DEF OnlyLoggingPanics, ContentNeedsConsent, SuccessIsComplete
<1> QED  BY <1>2, <1>3, <1>4, <1>5, <1>6 DEF TransferInv

(* Nothing changes, and nothing the invariant speaks of.                   *)
LEMMA StepNothing == ASSUME TransferInv, UNCHANGED vars PROVE TransferInv'
<1> USE DEF vars, server, client, disc, wire
<1>1. TypeOK' /\ EndsAgree'
  BY DEF TransferInv, TypeOK, EndsAgree, sopen
<1>2. ServerTurn' /\ ClientTurn'
  BY DEF TransferInv, ServerTurn, ClientTurn, AckOnWire, ResponseOnWire
<1>3. NothingMoved' /\ ChunksInOrder' /\ LengthsAgree'
  BY DEF TransferInv, NothingMoved, ChunksInOrder, Received, LengthsAgree
<1>4. OnlyLoggingPanics' /\ ContentNeedsConsent' /\ SuccessIsComplete'
  BY DEF TransferInv, OnlyLoggingPanics, ContentNeedsConsent, SuccessIsComplete
<1> QED  BY <1>1, <1>2, <1>3, <1>4 DEF TransferInv

(* Every step of the session keeps the invariant.                          *)
LEMMA StepTransferInv == TransferInv /\ [Next]_vars => TransferInv'
<1> SUFFICES ASSUME TransferInv, [Next]_vars PROVE TransferInv'
  OBVIOUS
<1>1. CASE ServerStep \/ ServerDies
  BY <1>1, ServerLeavings, StepServerLeaves, StepReadFileQuery, StepRefuseVersion,
     StepWriteFileResponse, StepReadTransferAck, StepOpenFile, StepReadChunk, StepReadEof,
     StepSendBuffered, StepSpilled
     DEF ServerStep
<1>2. CASE ClientStep \/ ClientDies
  BY <1>2, ClientLeavings, StepClientLeaves, StepSendQuery, StepReadMetadata,
     StepSendAccepted, StepSendRejected, StepCreateFile, StepReceiveChunk
     DEF ClientStep
<1>3. CASE UNCHANGED vars \/ Over
  BY <1>3, StepNothing DEF Over
<1> QED  BY <1>1, <1>2, <1>3, StepFileChanges DEF Next

(* The invariant holds in every reachable state of every session.          *)
THEOREM TransferInvariant == Spec => []TransferInv
  BY InitTransferInv, StepTransferInv, PTL DEF Spec

(* Frames carry no type, and yet each side decodes what the other meant,   *)
(* whatever fails on either side.                                          *)
THEOREM FramesAreUnderstood == Spec => []NeverMisdecoded
<1>1. TransferInv => NeverMisdecoded
  <2> SUFFICES ASSUME TransferInv PROVE NeverMisdecoded
    OBVIOUS
  <2> USE TransferAssumption DEF TransferInv
  <2>1. spc = "query" /\ c2s # << >> => Head(c2s).type = "FileQuery"
    BY OneMessage, Queries DEF ServerTurn, TypeOK
  <2>2. spc = "ack" /\ c2s # << >> => Head(c2s).type = "TransferAck"
    BY OneMessage, Acks DEF ServerTurn, AckOnWire, AckStatus, LaterAck
  <2>3. cpc = "response" /\ s2c # << >> => Head(s2c).type = "FileResponse"
    BY OneMessage, Responses DEF ClientTurn, ResponseOnWire
  <2>4. cpc \in {"create", "receive"} => \A i \in DOMAIN s2c : s2c[i].type = "FileChunk"
    <3>1. cpc \in {"create", "receive"} =>
            \A i \in DOMAIN s2c : Received + i - 1 \in Nat /\ s2c[i] = FileChunk(Received + i - 1)
      <4>1. Received \in Nat
        BY ReceivedCounts
      <4>2. cpc \in {"create", "receive"} => s2c \in Seq(Chunks)
        BY DEF ChunksInOrder
      <4> QED  BY <4>1, <4>2 DEF ChunksInOrder
    <3> QED  BY <3>1, ChunkNumbers
  <2> QED  BY <2>1, <2>2, <2>3, <2>4 DEF NeverMisdecoded
<1> QED  BY TransferInvariant, <1>1, PTL

(* Only the debug line of the acknowledgement can panic, at a client of a  *)
(* later schema that has already declined, before the file is opened.      *)
THEOREM PanicsOnlyInLogging == Spec => []OnlyLoggingPanics
<1>1. TransferInv => OnlyLoggingPanics
  BY DEF TransferInv
<1> QED  BY TransferInvariant, <1>1, PTL

(* The file is opened and read only for a client of the server's version   *)
(* that has accepted its size.                                             *)
THEOREM ConsentBeforeContent == Spec => []ContentNeedsConsent
<1>1. TransferInv => ContentNeedsConsent
  BY DEF TransferInv
<1> QED  BY TransferInvariant, <1>1, PTL

(* When both sides report success the client has what the server read, and *)
(* all of the file if nobody changed it.                                   *)
THEOREM SuccessMeansComplete == Spec => []SuccessIsComplete
<1>1. TransferInv => SuccessIsComplete
  BY DEF TransferInv
<1> QED  BY TransferInvariant, <1>1, PTL

(* What is in the client's file, in its buffer, under way and in the       *)
(* server's buffer are the first chunks of the file, in order and without  *)
(* a gap.                                                                  *)
THEOREM TransferHasNoGap == Spec => []NoGapInTransfer
<1>1. TransferInv => NoGapInTransfer
  <2> SUFFICES ASSUME TransferInv PROVE NoGapInTransfer
    OBVIOUS
  <2> DEFINE underWay == [i \in DOMAIN s2c |-> Value(s2c[i].f1)]
             here == disk \o cbuf
             sent == here \o underWay
             all == sent \o wbuf
  <2>1. /\ disk \in Seq(Nat) /\ \A i \in DOMAIN disk : disk[i] = i - 1
        /\ cbuf \in Seq(Nat) /\ \A i \in DOMAIN cbuf : cbuf[i] = Len(disk) + i - 1
        /\ wbuf \in Seq(0 .. MaxLen)
    BY DEF TransferInv, TypeOK, ChunksInOrder
  <2>2. ASSUME cpc \in {"create", "receive"}
        PROVE  /\ \A i \in DOMAIN all : all[i] = i - 1
               /\ spc \in {"read", "spill", "flush", "shutdown"} => Len(all) = index
    <3>1. /\ s2c \in Seq(Chunks)
          /\ \A i \in DOMAIN s2c : s2c[i] = FileChunk(Received + i - 1)
          /\ \A i \in DOMAIN wbuf : wbuf[i] = Received + Len(s2c) + i - 1
          /\ spc \in {"read", "spill", "flush", "shutdown"} =>
               Received + Len(s2c) + Len(wbuf) = index
      BY <2>2 DEF TransferInv, ChunksInOrder
    <3>2. DOMAIN s2c = 1 .. Len(s2c) /\ Len(s2c) \in Nat /\ Received \in Nat
      BY <2>1, <3>1 DEF Received
    <3>3. ASSUME NEW i \in DOMAIN s2c
          PROVE  Value(s2c[i].f1) = Received + i - 1 /\ Received + i - 1 \in Nat
      BY <3>1, <3>2, ChunkNumbers
    <3>4. /\ underWay \in Seq(Nat) /\ Len(underWay) = Len(s2c)
          /\ \A i \in DOMAIN underWay : underWay[i] = Received + i - 1
      BY <3>2, <3>3
    <3>5. wbuf \in Seq(Nat)
      <4>1. \A i \in 1 .. Len(wbuf) : wbuf[i] \in Nat
        BY <2>1, TransferAssumption
      <4>2. /\ Len(wbuf) \in Nat /\ DOMAIN wbuf = 1 .. Len(wbuf)
            /\ wbuf = [i \in 1 .. Len(wbuf) |-> wbuf[i]]
        BY <2>1, LenProperties
      <4>3. [i \in 1 .. Len(wbuf) |-> wbuf[i]] \in Seq(Nat)
        BY <4>1, <4>2
      <4> QED  BY <4>2, <4>3
    <3> HIDE DEF underWay
    <3>6. /\ here \in Seq(Nat) /\ Len(here) = Received
          /\ \A i \in DOMAIN here : here[i] = i - 1
      BY <2>1, RunsJoin DEF Received
    <3> HIDE DEF here
    <3>7. /\ sent \in Seq(Nat) /\ Len(sent) = Received + Len(s2c)
          /\ \A i \in DOMAIN sent : sent[i] = i - 1
      <4>1. \A i \in DOMAIN underWay : underWay[i] = Len(here) + i - 1
        BY <3>4, <3>6
      <4>2. underWay \in Seq(Nat) /\ here \in Seq(Nat) /\ \A i \in DOMAIN here : here[i] = i - 1
        BY <3>4, <3>6
      <4>3. /\ here \o underWay \in Seq(Nat)
            /\ Len(here \o underWay) = Len(here) + Len(underWay)
            /\ \A i \in DOMAIN (here \o underWay) : (here \o underWay)[i] = i - 1
        BY ONLY <4>1, <4>2, RunsJoin
      <4> QED  BY <3>4, <3>6, <4>3
    <3> HIDE DEF sent
    <3>8. /\ Len(all) = Received + Len(s2c) + Len(wbuf)
          /\ \A i \in DOMAIN all : all[i] = i - 1
      <4>1. \A i \in DOMAIN wbuf : wbuf[i] = Len(sent) + i - 1
        BY <3>1, <3>7
      <4>2. wbuf \in Seq(Nat) /\ sent \in Seq(Nat) /\ \A i \in DOMAIN sent : sent[i] = i - 1
        BY <3>5, <3>7
      <4>3. /\ Len(sent \o wbuf) = Len(sent) + Len(wbuf)
            /\ \A i \in DOMAIN (sent \o wbuf) : (sent \o wbuf)[i] = i - 1
        BY ONLY <4>1, <4>2, RunsJoin
      <4> QED  BY <3>7, <4>3
    <3> QED  BY <3>1, <3>8
  <2> QED  BY <2>1, <2>2 DEF NoGapInTransfer
<1> QED  BY TransferInvariant, <1>1, PTL

=============================================================================
