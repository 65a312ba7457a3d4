--------------------------- MODULE MessageChannel ---------------------------
(***************************************************************************)
(* What one direction of a connection promises to the two programs that    *)
(* exchange messages over it: they arrive once and in order, and the       *)
(* reader learns of the end.  A writer that finishes has all its messages  *)
(* read; one that is cut off may lose the last of them, and the reader     *)
(* cannot always tell.                                                     *)
(*                                                                         *)
(* The module is an abstract specification; Framing implements it with     *)
(* bytes, and FileTransfer is written in terms of it.                      *)
(***************************************************************************)
EXTENDS Integers, Sequences

CONSTANT Messages

VARIABLES
  sent,      \* the messages written
  received,  \* the messages read
  end,       \* "open", "finished" or "cut"
  result     \* the reader's last word: "reading", "eof" or "error"

channel == <<sent, received, end, result>>

Init == sent = << >> /\ received = << >> /\ end = "open" /\ result = "reading"

Send(m) ==
  /\ end = "open"
  /\ sent' = Append(sent, m)
  /\ UNCHANGED <<received, end, result>>

Receive ==
  /\ result = "reading"
  /\ Len(received) < Len(sent)
  /\ received' = Append(received, sent[Len(received) + 1])
  /\ UNCHANGED <<sent, end, result>>

End ==
  /\ end = "open"
  /\ end' \in {"finished", "cut"}
  /\ UNCHANGED <<sent, received, result>>

(* The reader stops: after everything, or anywhere when the writer was cut. *)
Stop ==
  /\ result = "reading"
  /\ \/ end = "finished" /\ received = sent /\ result' = "eof"
     \/ end = "cut" /\ result' \in {"eof", "error"}
  /\ UNCHANGED <<sent, received, end>>

Next == (\E m \in Messages : Send(m)) \/ Receive \/ End \/ Stop

(* A reader that has something to read or to learn does so. *)
Spec == Init /\ [][Next]_channel /\ WF_channel(Receive \/ Stop)

=============================================================================
