----------------------------- MODULE MCFraming ------------------------------
EXTENDS Framing

(* The empty message (an acknowledgement that accepts), one byte, a        *)
(* message that could be a length, and the longest.                        *)
SomePayloads == {<< >>, <<1>>, <<0, 1>>, <<1, 0, 1>>}

=============================================================================
