------------------------------ MODULE Framing -------------------------------
(***************************************************************************)
(* read_message and write_message of tcp-server/src/service.rs: a message  *)
(* is its length in Width big-endian digits, then its bytes, written by    *)
(* two calls of write_all to a stream or to a BufWriter over one.  The     *)
(* kernel takes and hands out any number of bytes at a time, and either    *)
(* end of a frame may be missing when the writer is cut off.               *)
(*                                                                         *)
(* A payload is an encoded message; Messages says what decoding makes of   *)
(* it.  The code has Base 256 and Width 4.                                 *)
(***************************************************************************)
EXTENDS Integers, Sequences, SequencesExt

CONSTANTS
  Base, Width,  \* the digits of a length, and how many there are
  Payloads,     \* the encoded messages
  Capacities,   \* what the writer buffers: 0 is a bare stream
  MaxSent,      \* bound: the messages of a session
  WireCap       \* bound: the bytes the kernel holds

Bytes == 0 .. Base - 1

Power[k \in 0 .. Width] == IF k = 0 THEN 1 ELSE Base * Power[k - 1]

ASSUME FramingAssumption ==
  /\ Base \in Nat \ {0, 1} /\ Width \in Nat \ {0}
  /\ Payloads \subseteq Seq(Bytes)
  /\ \A p \in Payloads : Len(p) < Power[Width]
  /\ Capacities \subseteq Nat
  /\ MaxSent \in Nat /\ WireCap \in Nat \ {0}

VARIABLES
  capacity,  \* of the writer's buffer
  writer,    \* "writing", "flushing", "finished"; "killed" or "reset"
  sent,      \* history: the payloads given to write_message
  calls,     \* the calls of write_all still to come
  buf,       \* the BufWriter's buffer
  push,      \* bytes a blocking write is handing to the kernel
  wire,      \* what the kernel holds
  need,      \* the length of the message being read, or Prefix
  part,      \* the bytes read_exact has so far
  received,  \* what read_message has returned
  result     \* "reading"; "eof" or "error"

writing == <<capacity, sent, calls, buf>>
reading == <<need, part, received, result>>
vars == <<writing, writer, push, wire, reading>>

Prefix == -1

(* Mutant: the least significant digit first. *)
LengthPrefix_Little(n) == [i \in 1 .. Width |-> (n \div Power[i - 1]) % Base]

(* to_be_bytes of the length, cut to the width of the prefix. *)
LengthPrefix(n) == [i \in 1 .. Width |-> (n \div Power[Width - i]) % Base]

(* from_be_bytes. *)
LengthOf(bytes) ==
  LET number[i \in 0 .. Len(bytes)] ==
        IF i = 0 THEN 0 ELSE number[i - 1] * Base + bytes[i]
  IN  number[Len(bytes)]

Frame(p) == LengthPrefix(Len(p)) \o p

Init ==
  /\ capacity \in Capacities
  /\ writer = "writing" /\ sent = << >> /\ calls = << >>
  /\ buf = << >> /\ push = << >> /\ wire = << >>
  /\ need = Prefix /\ part = << >> /\ received = << >> /\ result = "reading"

-----------------------------------------------------------------------------
(* The writer.                                                             *)

CanWrite == writer = "writing" /\ push = << >>

WriteMessage(p) ==
  /\ CanWrite /\ calls = << >>
  /\ Len(sent) < MaxSent
  /\ sent' = Append(sent, p)
  /\ calls' = <<LengthPrefix(Len(p)), p>>
  /\ UNCHANGED <<capacity, writer, buf, push, wire, reading>>

Spare == capacity - Len(buf)

(* Mutant: a long piece passes the buffer by. *)
MakeRoom_Overtakes ==
  /\ CanWrite /\ calls # << >>
  /\ Len(Head(calls)) > Spare
  /\ push' = Head(calls) /\ calls' = Tail(calls)
  /\ UNCHANGED <<capacity, writer, sent, buf, wire, reading>>

(* BufWriter::write_all: the buffer is written out when the piece does not *)
(* fit, and a piece as large as the buffer is not buffered at all.         *)
MakeRoom ==
  /\ CanWrite /\ calls # << >>
  /\ Len(Head(calls)) > Spare /\ buf # << >>
  /\ push' = buf /\ buf' = << >>
  /\ UNCHANGED <<capacity, writer, sent, calls, wire, reading>>

WritePiece ==
  /\ CanWrite /\ calls # << >>
  /\ Len(Head(calls)) <= Spare \/ buf = << >>
  /\ calls' = Tail(calls)
  /\ IF Len(Head(calls)) < capacity
     THEN buf' = buf \o Head(calls) /\ UNCHANGED push
     ELSE push' = Head(calls) /\ UNCHANGED buf
  /\ UNCHANGED <<capacity, writer, sent, wire, reading>>

(* The kernel takes as much as it has room for. *)
KernelTakes(k) ==
  /\ writer \in {"writing", "flushing"}
  /\ k <= Len(push) /\ Len(wire) + k <= WireCap
  /\ wire' = wire \o SubSeq(push, 1, k)
  /\ push' = SubSeq(push, k + 1, Len(push))
  /\ UNCHANGED <<writing, writer, reading>>

(* Mutant: the BufWriter is forgotten with bytes in it. *)
Flush_Skipped ==
  /\ CanWrite /\ calls = << >>
  /\ writer' = "flushing"
  /\ UNCHANGED <<writing, push, wire, reading>>

(* The last message is written: flush, or the drop of the BufWriter. *)
Flush ==
  /\ CanWrite /\ calls = << >>
  /\ writer' = "flushing"
  /\ push' = buf /\ buf' = << >>
  /\ UNCHANGED <<capacity, sent, calls, wire, reading>>

Finish ==
  /\ writer = "flushing" /\ push = << >>
  /\ writer' = "finished"
  /\ UNCHANGED <<writing, push, wire, reading>>

(* The writing program ends without finishing, or the connection breaks.   *)
(* A reset may overtake what the kernel still held.                        *)
Cut ==
  /\ writer \in {"writing", "flushing"}
  /\ \/ writer' = "killed" /\ UNCHANGED wire
     \/ writer' = "reset" /\ wire' \in Prefixes(wire)
  /\ calls' = << >> /\ buf' = << >> /\ push' = << >>
  /\ UNCHANGED <<capacity, sent, reading>>

-----------------------------------------------------------------------------
(* The reader: read_message again and again, as in receive_file.           *)

Missing == (IF need = Prefix THEN Width ELSE need) - Len(part)

(* One read inside read_exact. *)
Read(k) ==
  /\ result = "reading"
  /\ k <= Missing /\ k <= Len(wire)
  /\ part' = part \o SubSeq(wire, 1, k)
  /\ wire' = SubSeq(wire, k + 1, Len(wire))
  /\ UNCHANGED <<writing, writer, push, need, received, result>>

PrefixRead ==
  /\ need = Prefix /\ Missing = 0
  /\ need' = LengthOf(part)
  /\ part' = << >>
  /\ UNCHANGED <<writing, writer, push, wire, received, result>>

(* Mutant: read in the place of read_exact. *)
MessageRead_Short ==
  /\ need # Prefix /\ (Missing = 0 \/ part # << >>)
  /\ received' = Append(received, part)
  /\ need' = Prefix /\ part' = << >>
  /\ UNCHANGED <<writing, writer, push, wire, result>>

MessageRead ==
  /\ need # Prefix /\ Missing = 0
  /\ received' = Append(received, part)
  /\ need' = Prefix /\ part' = << >>
  /\ UNCHANGED <<writing, writer, push, wire, result>>

(* Mutant: the end of the stream inside a message hands out what is there. *)
ReadFails_Partial ==
  /\ result = "reading" /\ Missing > 0 /\ wire = << >>
  /\ writer \in {"finished", "killed", "reset"}
  /\ result' = IF writer = "reset" THEN "error" ELSE "eof"
  /\ received' = IF need = Prefix THEN received ELSE Append(received, part)
  /\ UNCHANGED <<writing, writer, push, wire, need, part>>

(* read_exact reports the end of the stream as UnexpectedEof, between two  *)
(* messages as well as inside one.                                         *)
ReadFails ==
  /\ result = "reading" /\ Missing > 0 /\ wire = << >>
  /\ writer \in {"finished", "killed", "reset"}
  /\ result' = IF writer = "reset" THEN "error" ELSE "eof"
  /\ UNCHANGED <<writing, writer, push, wire, need, part, received>>

Over == result # "reading" /\ writer \notin {"writing", "flushing"} /\ UNCHANGED vars

WriterStep ==
  \/ MakeRoom \/ WritePiece \/ Flush \/ Finish
  \/ \E k \in 1 .. WireCap : KernelTakes(k)

ReaderStep ==
  \/ PrefixRead \/ MessageRead \/ ReadFails
  \/ \E k \in 1 .. WireCap : Read(k)

Next ==
  \/ \E p \in Payloads : WriteMessage(p)
  \/ WriterStep \/ Cut \/ ReaderStep
  \/ Over

(* Both programs go on; the writer comes to an end of its own accord. *)
Spec == Init /\ [][Next]_vars /\ WF_vars(WriterStep) /\ WF_vars(ReaderStep)

-----------------------------------------------------------------------------
Frames(messages) == FlattenSeq([i \in DOMAIN messages |-> Frame(messages[i])])

(* The reader's position: the bytes it has taken of the current message.   *)
InHand == IF need = Prefix THEN part ELSE LengthPrefix(need) \o part

(* No byte is lost, repeated or overtaken between the buffer, a blocked    *)
(* write, the kernel and a half-read message, and the reader cuts the      *)
(* stream where the writer joined it: everything together is the frames    *)
(* of what was sent, or a beginning of them once the writer was cut off.   *)
BytesInOrder ==
  LET all == Frames(received) \o InHand \o wire \o push \o buf \o FlattenSeq(calls)
  IN  /\ IsPrefix(received, sent)
      /\ IF writer \in {"killed", "reset"}
         THEN IsPrefix(all, Frames(sent))
         ELSE all = Frames(sent)

(* The types, and never more than a message's two calls to come.           *)
TypeOK ==
  /\ capacity \in Nat
  /\ writer \in {"writing", "flushing", "finished", "killed", "reset"}
  /\ sent \in Seq(Payloads) /\ received \in Seq(Payloads)
  /\ calls \in Seq(Seq(Bytes)) /\ Len(calls) <= 2
  /\ buf \in Seq(Bytes) /\ push \in Seq(Bytes) /\ wire \in Seq(Bytes)
  /\ part \in Seq(Bytes) /\ need \in Nat \cup {Prefix}
  /\ result \in {"reading", "eof", "error"}

(* What makes BytesInOrder inductive: a writer that has nothing to write   *)
(* any more holds no bytes back...                                         *)
WriterAgrees ==
  /\ writer # "writing" => calls = << >> /\ buf = << >>
  /\ writer \notin {"writing", "flushing"} => push = << >>

(* ... and a reader that knows a length knows that of the next message,    *)
(* and stops only where it misses something that will never come.          *)
ReaderAgrees ==
  /\ need # Prefix => Len(received) < Len(sent) /\ need = Len(sent[Len(received) + 1])
  /\ Missing >= 0
  /\ result # "reading" =>
       Missing > 0 /\ wire = << >> /\ writer \in {"finished", "killed", "reset"}

FramingInv == TypeOK /\ WriterAgrees /\ ReaderAgrees /\ BytesInOrder

Channel == INSTANCE MessageChannel
  WITH Messages <- Payloads,
       end <- CASE writer \in {"writing", "flushing"} -> "open"
                [] writer = "finished" -> "finished"
                [] OTHER -> "cut"

(* The bytes implement a channel of whole messages: each is handed out     *)
(* once and in order, a writer that finishes has all of them read, and a   *)
(* reader never waits for ever.                                            *)
ImplementsChannel == Channel!Spec

=============================================================================
