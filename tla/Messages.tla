------------------------------ MODULE Messages ------------------------------
(***************************************************************************)
(* tcp-server/src/proto/file_transfer.rs: the messages of the protocol as  *)
(* prost encodes and decodes them.  A frame does not say what it holds: it *)
(* is a set of numbered fields, none of the messages has more than two,    *)
(* and a reader takes from it what the message it expects declares.        *)
(*                                                                         *)
(* A field is absent, a number, or delimited bytes (a string, or a nested  *)
(* message).  "type" is history: what the writer meant; it is not sent.    *)
(***************************************************************************)
EXTENDS Integers

(* A field with its default value is not sent. *)
Absent == << >>
Varint(n) == IF n = 0 THEN Absent ELSE <<"varint", n>>
Delimited(content) == <<"delimited", content>>

(* A field of another wire type is an error, an absent one the default. *)
IsVarint(f) == f # Absent => f[1] = "varint"
IsDelimited(f) == f # Absent => f[1] = "delimited"
Value(f) == IF f = Absent THEN 0 ELSE f[2]

(* Names, contents and error messages: never empty, never looked at. *)
Text == [f1 |-> <<"text">>, f2 |-> <<"text">>]

-----------------------------------------------------------------------------
Status == [Found |-> 0, NotFound |-> 1]
Kind == [InvalidQuery |-> 0, UnsupportedVersion |-> 1]
AckStatus == [Accepted |-> 0, Rejected |-> 1]

FileQuery(version) ==
  [type |-> "FileQuery", f1 |-> Varint(version), f2 |-> Delimited(Text)]

FileMetadata(status, size) == [f1 |-> Varint(status), f2 |-> Varint(size)]

ErrorDetails(kind) == [f1 |-> Varint(kind), f2 |-> Delimited(Text)]

MetadataResponse(metadata) ==
  [type |-> "FileResponse", f1 |-> Delimited(metadata), f2 |-> Absent]

ErrorResponse(details) ==
  [type |-> "FileResponse", f1 |-> Absent, f2 |-> Delimited(details)]

TransferAck(status) ==
  [type |-> "TransferAck", f1 |-> Varint(status), f2 |-> Absent]

FileChunk(index) ==
  [type |-> "FileChunk", f1 |-> Varint(index), f2 |-> Delimited(Text)]

-----------------------------------------------------------------------------
(* Whether a frame decodes as the message a reader expects. *)

IsFileQuery(m) == IsVarint(m.f1) /\ IsDelimited(m.f2)
IsTransferAck(m) == IsVarint(m.f1)
IsFileChunk(m) == IsVarint(m.f1) /\ IsDelimited(m.f2)
IsFileMetadata(m) == IsVarint(m.f1) /\ IsVarint(m.f2)
IsErrorDetails(m) == IsVarint(m.f1) /\ IsDelimited(m.f2)

IsFileResponse(m) ==
  /\ IsDelimited(m.f1) /\ (m.f1 # Absent => IsFileMetadata(m.f1[2]))
  /\ IsDelimited(m.f2) /\ (m.f2 # Absent => IsErrorDetails(m.f2[2]))

=============================================================================
