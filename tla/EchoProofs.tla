----------------------------- MODULE EchoProofs -----------------------------
(***************************************************************************)
(* Machine-checked proofs about EchoServer, for every set of connections,  *)
(* every set of lines and every number of lines a client may send.         *)
(***************************************************************************)
EXTENDS EchoServer, SequenceTheorems, TLAPS

Items == Lines \cup Ends

-----------------------------------------------------------------------------
(* Streams.                                                                *)

(* What is sent later does not change what the lines are followed by.      *)
LEMMA FollowedStill ==
  ASSUME NEW lines \in Seq(Text), NEW stream \in Seq(Items), NEW item \in Items,
         NEW items, FollowedBy(lines, items, stream)
  PROVE  FollowedBy(lines, items, Append(stream, item))
<1>1. /\ Len(stream) \in Nat /\ Len(lines) \in Nat /\ DOMAIN lines = 1 .. Len(lines)
      /\ Len(Append(stream, item)) = Len(stream) + 1
      /\ \A k \in 1 .. Len(stream) : Append(stream, item)[k] = stream[k]
  BY AppendProperties
<1>2. Len(stream) > Len(lines)
  BY DEF FollowedBy
<1>3. Len(lines) + 1 \in 1 .. Len(stream) /\ \A k \in 1 .. Len(lines) : k \in 1 .. Len(stream)
  BY <1>1, <1>2
<1> QED  BY <1>1, <1>2, <1>3 DEF FollowedBy

(* What a handler has collected, when something follows that is not text,  *)
(* is the request: the lines before the first that is not text.            *)
LEMMA RequestIs ==
  ASSUME NEW c \in Conns, NEW lines \in Seq(Text), sent[c] \in Seq(Items),
         NEW items, items \cap Text = {}, FollowedBy(lines, items, sent[c])
  PROVE  lines = Request(c)
<1> DEFINE stream == sent[c]
           others == {i \in 1 .. Len(stream) : stream[i] \notin Text}
           n == Len(lines) + 1
<1>1. /\ Len(stream) \in Nat /\ Len(lines) \in Nat /\ DOMAIN lines = 1 .. Len(lines)
      /\ \A k \in 1 .. Len(lines) : lines[k] \in Text
  OBVIOUS
<1>2. /\ Len(stream) > Len(lines) /\ stream[n] \in items
      /\ \A k \in 1 .. Len(lines) : stream[k] = lines[k]
  BY <1>1 DEF FollowedBy
<1>3. stream[n] \notin Text
  BY <1>2
<1>4. n \in others /\ \A i \in others : n <= i
  <2>1. n \in 1 .. Len(stream)
    BY <1>1, <1>2
  <2>2. ASSUME NEW i \in others PROVE n <= i
    <3>1. i \in Nat /\ i >= 1 /\ stream[i] \notin Text
      OBVIOUS
    <3>2. i \notin 1 .. Len(lines)
      BY <1>1, <1>2, <3>1
    <3> QED  BY <1>1, <3>1, <3>2
  <2> QED  BY <1>3, <2>1, <2>2
<1>5. SelectInSeq(stream, LAMBDA item : item \notin Text) = n
  <2>1. Min(others) = n
    <3> HIDE DEF others, n
    <3>1. others \subseteq Nat
      BY DEF others
    <3>2. \A m \in others : (\A i \in others : m <= i) => m = n
      BY <1>4, <3>1
    <3> QED  BY <1>4, <3>2 DEF Min
  <2>2. others # {}
    BY <1>4
  <2> QED  BY <2>1, <2>2 DEF SelectInSeq
<1>6. Request(c) = SubSeq(stream, 1, n - 1)
  <2>1. n # 0
    BY <1>1
  <2> HIDE DEF n
  <2> QED  BY <1>5, <2>1 DEF Request
<1>7. lines = SubSeq(stream, 1, Len(lines))
  <2>1. SubSeq(stream, 1, Len(lines)) \in Seq(Items)
    BY <1>1, <1>2, SubSeqProperties
  <2>2. Len(SubSeq(stream, 1, Len(lines))) = Len(lines)
    BY <1>1, <1>2, SubSeqProperties
  <2>3. \A k \in 1 .. Len(lines) : SubSeq(stream, 1, Len(lines))[k] = lines[k]
    BY <1>1, <1>2, SubSeqProperties
  <2>4. lines \in Seq(Text \cup Items) /\ SubSeq(stream, 1, Len(lines)) \in Seq(Text \cup Items)
    BY <2>1
  <2> QED  BY <2>2, <2>3, <2>4, SeqEqual
<1>8. n - 1 = Len(lines)
  BY <1>1
<1> QED  BY <1>6, <1>7, <1>8

(* Reading takes the next line from what is left of the stream.            *)
LEMMA ReadingOn ==
  ASSUME NEW lines \in Seq(Text), NEW rest \in Seq(Items), rest # << >>
  PROVE  /\ Head(rest) \in Items /\ Tail(rest) \in Seq(Items)
         /\ Len(lines \o rest) > Len(lines)
         /\ \A k \in DOMAIN lines : (lines \o rest)[k] = lines[k]
         /\ (lines \o rest)[Len(lines) + 1] = Head(rest)
         /\ Head(rest) \in Text => lines \o rest = Append(lines, Head(rest)) \o Tail(rest)
<1> DEFINE whole == lines \o rest
           line == Head(rest)
<1>1. lines \in Seq(Items) /\ Items # {}
  BY DEF Items, Lines
<1>2. /\ line \in Items /\ Tail(rest) \in Seq(Items) /\ line = rest[1]
      /\ Len(Tail(rest)) = Len(rest) - 1 /\ Len(rest) \in Nat /\ Len(rest) > 0
      /\ \A k \in 1 .. Len(rest) - 1 : Tail(rest)[k] = rest[k + 1]
  BY HeadTailProperties, EmptySeq
<1>3. /\ whole \in Seq(Items) /\ Len(whole) = Len(lines) + Len(rest) /\ Len(lines) \in Nat
      /\ \A k \in 1 .. Len(lines) + Len(rest) :
           whole[k] = IF k <= Len(lines) THEN lines[k] ELSE rest[k - Len(lines)]
  BY <1>1, ConcatProperties
<1>4. Len(whole) > Len(lines) /\ \A k \in 1 .. Len(lines) : whole[k] = lines[k]
  BY <1>2, <1>3
<1>5. Len(lines) + 1 \in DOMAIN whole /\ whole[Len(lines) + 1] = line
  <2>1. Len(lines) + 1 \in 1 .. Len(lines) + Len(rest) /\ (Len(lines) + 1) - Len(lines) = 1
    BY <1>2, <1>3
  <2> QED  BY <1>2, <1>3, <2>1
<1>6. ASSUME line \in Text PROVE whole = Append(lines, line) \o Tail(rest)
  <2> DEFINE more == Append(lines, line)
             other == more \o Tail(rest)
  <2>1. /\ more \in Seq(Items) /\ Len(more) = Len(lines) + 1
        /\ \A k \in 1 .. Len(lines) : more[k] = lines[k]
        /\ more[Len(lines) + 1] = line
    BY <1>1, <1>2, AppendProperties
  <2>2. /\ other \in Seq(Items) /\ Len(other) = Len(more) + Len(Tail(rest))
        /\ \A k \in 1 .. Len(more) + Len(Tail(rest)) :
             other[k] = IF k <= Len(more) THEN more[k] ELSE Tail(rest)[k - Len(more)]
    BY <1>2, <2>1, ConcatProperties
  <2>3. Len(whole) = Len(other)
    BY <1>2, <1>3, <2>1, <2>2
  <2>4. ASSUME NEW k \in 1 .. Len(whole) PROVE whole[k] = other[k]
    <3>1. k \in 1 .. Len(lines) + Len(rest) /\ k \in 1 .. Len(more) + Len(Tail(rest))
      BY <1>3, <2>2, <2>3
    <3>2. CASE k <= Len(lines)
      BY <1>3, <2>1, <2>2, <3>1, <3>2
    <3>3. CASE k = Len(lines) + 1
      BY <1>3, <1>5, <2>1, <2>2, <3>1, <3>3
    <3>4. CASE k > Len(lines) + 1
      <4>1. whole[k] = rest[k - Len(lines)]
        BY <1>3, <3>1, <3>4
      <4>2. other[k] = Tail(rest)[k - Len(more)]
        BY <1>3, <2>1, <2>2, <3>1, <3>4
      <4>3. k - Len(more) \in 1 .. Len(rest) - 1 /\ (k - Len(more)) + 1 = k - Len(lines)
        BY <1>2, <1>3, <2>1, <3>1, <3>4
      <4> QED  BY <1>2, <4>1, <4>2, <4>3
    <3> QED  BY <1>3, <3>1, <3>2, <3>3, <3>4
  <2> HIDE DEF whole, other
  <2> QED  BY <1>3, <2>2, <2>3, <2>4, SeqEqual
<1> QED  BY <1>2, <1>4, <1>5, <1>6

-----------------------------------------------------------------------------
(* The backlog.                                                            *)

(* A connection that leaves the backlog was waiting there, is not left     *)
(* behind in it, and nothing else has left.                                *)
LEMMA HeadLeaves ==
  ASSUME EchoInv, backlog # << >>
  PROVE  /\ Head(backlog) \in Conns
         /\ net[Head(backlog)] = "backlog"
         /\ Tail(backlog) \in Seq(Conns)
         /\ \A c \in Conns :
              (\E k \in DOMAIN Tail(backlog) : Tail(backlog)[k] = c)
                <=> net[c] = "backlog" /\ c # Head(backlog)
         /\ \A j, k \in DOMAIN Tail(backlog) : Tail(backlog)[j] = Tail(backlog)[k] => j = k
<1>1. backlog \in Seq(Conns) /\ ConnsAgree
  BY DEF EchoInv, TypeOK
<1>2. /\ Len(backlog) \in Nat /\ Len(backlog) > 0 /\ DOMAIN backlog = 1 .. Len(backlog)
      /\ Head(backlog) = backlog[1] /\ Head(backlog) \in Conns
      /\ Tail(backlog) \in Seq(Conns) /\ DOMAIN Tail(backlog) = 1 .. Len(backlog) - 1
      /\ \A k \in 1 .. Len(backlog) - 1 : Tail(backlog)[k] = backlog[k + 1]
  BY <1>1, HeadTailProperties, EmptySeq
<1>3. /\ \A k \in 1 .. Len(backlog) - 1 : k + 1 \in 1 .. Len(backlog) /\ k + 1 # 1
      /\ \A k \in 1 .. Len(backlog) : k # 1 => k - 1 \in 1 .. Len(backlog) - 1 /\ (k - 1) + 1 = k
  BY <1>2
<1>4. net[Head(backlog)] = "backlog"
  BY <1>1, <1>2 DEF ConnsAgree
<1>5. ASSUME NEW c \in Conns
      PROVE  (\E k \in DOMAIN Tail(backlog) : Tail(backlog)[k] = c)
               <=> net[c] = "backlog" /\ c # Head(backlog)
  <2>1. ASSUME NEW k \in DOMAIN Tail(backlog), Tail(backlog)[k] = c
        PROVE  net[c] = "backlog" /\ c # Head(backlog)
    BY <1>1, <1>2, <1>3, <2>1 DEF ConnsAgree
  <2>2. ASSUME net[c] = "backlog", c # Head(backlog)
        PROVE  \E k \in DOMAIN Tail(backlog) : Tail(backlog)[k] = c
    <3>1. PICK k \in 1 .. Len(backlog) : backlog[k] = c
      BY <1>1, <1>2, <2>2 DEF ConnsAgree
    <3>2. k - 1 \in DOMAIN Tail(backlog) /\ Tail(backlog)[k - 1] = c
      BY <1>2, <1>3, <2>2, <3>1
    <3> QED  BY <3>2
  <2> QED  BY <2>1, <2>2
<1>6. ASSUME NEW j \in DOMAIN Tail(backlog), NEW k \in DOMAIN Tail(backlog),
             Tail(backlog)[j] = Tail(backlog)[k]
      PROVE  j = k
  BY <1>1, <1>2, <1>3, <1>6 DEF ConnsAgree
<1> QED  BY <1>2, <1>4, <1>5, <1>6

(* A connection that was never made joins the backlog once.                *)
LEMMA ConnJoins ==
  ASSUME EchoInv, NEW c \in Conns, net[c] = "new"
  PROVE  /\ Append(backlog, c) \in Seq(Conns)
         /\ \A d \in Conns :
              (\E k \in DOMAIN Append(backlog, c) : Append(backlog, c)[k] = d)
                <=> net[d] = "backlog" \/ d = c
         /\ \A j, k \in DOMAIN Append(backlog, c) :
              Append(backlog, c)[j] = Append(backlog, c)[k] => j = k
<1>1. backlog \in Seq(Conns) /\ ConnsAgree
  BY DEF EchoInv, TypeOK
<1>2. /\ Len(backlog) \in Nat /\ DOMAIN backlog = 1 .. Len(backlog)
      /\ Append(backlog, c) \in Seq(Conns)
      /\ DOMAIN Append(backlog, c) = 1 .. Len(backlog) + 1
      /\ \A k \in 1 .. Len(backlog) : Append(backlog, c)[k] = backlog[k]
      /\ Append(backlog, c)[Len(backlog) + 1] = c
  BY <1>1, AppendProperties
<1>3. /\ \A k \in 1 .. Len(backlog) + 1 : k \in 1 .. Len(backlog) \/ k = Len(backlog) + 1
      /\ \A k \in 1 .. Len(backlog) : k \in DOMAIN Append(backlog, c)
      /\ Len(backlog) + 1 \in DOMAIN Append(backlog, c)
  BY <1>2
<1>4. \A k \in 1 .. Len(backlog) : backlog[k] # c
  BY <1>1, <1>2 DEF ConnsAgree
<1>5. \A d \in Conns :
        (\E k \in DOMAIN Append(backlog, c) : Append(backlog, c)[k] = d)
          <=> net[d] = "backlog" \/ d = c
  BY <1>1, <1>2, <1>3 DEF ConnsAgree
<1>6. \A j, k \in DOMAIN Append(backlog, c) :
        Append(backlog, c)[j] = Append(backlog, c)[k] => j = k
  BY <1>1, <1>2, <1>3, <1>4 DEF ConnsAgree
<1> QED  BY <1>2, <1>5, <1>6

-----------------------------------------------------------------------------
(* The steps of the clients and the kernel.                                *)

LEMMA Typed == EchoInv => TypeOK
  BY DEF EchoInv

(* A client that connects is put into the backlog, or refused.             *)
LEMMA StepConnect == ASSUME EchoInv, NEW c \in Conns, Connect(c) PROVE EchoInv'
<1>1. /\ net[c] = "new" /\ UNCHANGED <<pc, cur, data, inbox, sent, reply, killed>>
      /\ \/ pc # "dead" /\ net' = [net EXCEPT ![c] = "backlog"] /\ backlog' = Append(backlog, c)
         \/ pc = "dead" /\ net' = [net EXCEPT ![c] = "refused"] /\ backlog' = backlog
  BY DEF Connect
<1>2. TypeOK' /\ ConnsAgree'
  <2>1. CASE net' = [net EXCEPT ![c] = "backlog"] /\ backlog' = Append(backlog, c)
    <3>1. TypeOK'
      BY <1>1, <2>1, Typed, ConnJoins DEF TypeOK
    <3>2. ConnsAgree /\ net \in [Conns -> {"new", "backlog", "accepted", "closed", "refused", "reset"}]
      BY DEF EchoInv, TypeOK
    <3>3. \A d \in Conns : net'[d] = IF d = c THEN "backlog" ELSE net[d]
      BY <2>1, <3>2
    <3>4. ConnsAgree'
      BY <1>1, <2>1, <3>2, <3>3, ConnJoins DEF ConnsAgree
    <3> QED  BY <3>1, <3>4
  <2>2. CASE net' = [net EXCEPT ![c] = "refused"] /\ backlog' = backlog
    BY <1>1, <2>2 DEF EchoInv, TypeOK, ConnsAgree
  <2> QED  BY <1>1, <2>1, <2>2
<1>3. StreamsAgree' /\ RepliesAgree'
  BY <1>1 DEF EchoInv, TypeOK, StreamsAgree, RepliesAgree, FollowedBy
<1>4. DeathAgrees'
  BY <1>1 DEF EchoInv, TypeOK, DeathAgrees
<1> QED  BY <1>2, <1>3, <1>4 DEF EchoInv

(* The kernel resets what waits in the backlog of a listener that is gone. *)
LEMMA StepResetBacklog == ASSUME EchoInv, ResetBacklog PROVE EchoInv'
<1>1. /\ backlog # << >>
      /\ net' = [net EXCEPT ![Head(backlog)] = "reset"]
      /\ backlog' = Tail(backlog)
      /\ UNCHANGED <<pc, cur, data, inbox, sent, reply, killed>>
  BY DEF ResetBacklog
<1>2. net[Head(backlog)] = "backlog" /\ Head(backlog) \in Conns
  BY <1>1, HeadLeaves
<1>3. TypeOK'
  BY <1>1, Typed, HeadLeaves DEF TypeOK
<1>4. ConnsAgree'
  <2>1. \A d \in Conns : net'[d] = IF d = Head(backlog) THEN "reset" ELSE net[d]
    BY <1>1, Typed DEF TypeOK
  <2>2. ConnsAgree
    BY DEF EchoInv
  <2> QED  BY <1>1, <1>2, <2>1, <2>2, HeadLeaves DEF ConnsAgree
<1>5. StreamsAgree' /\ RepliesAgree'
  BY <1>1, <1>2 DEF EchoInv, TypeOK, StreamsAgree, RepliesAgree, FollowedBy
<1>6. DeathAgrees'
  BY <1>1, <1>2 DEF EchoInv, TypeOK, DeathAgrees
<1> QED  BY <1>3, <1>4, <1>5, <1>6 DEF EchoInv

(* What a client sends comes behind what it has sent, read or not.         *)
LEMMA StepClientSends ==
  ASSUME EchoInv, NEW c \in Conns, NEW item \in Items, ClientSends(c, item)
  PROVE  EchoInv'
<1>1. /\ net[c] \in {"backlog", "accepted"}
      /\ sent' = [sent EXCEPT ![c] = Append(sent[c], item)]
      /\ inbox' = [inbox EXCEPT ![c] = Append(inbox[c], item)]
      /\ UNCHANGED <<pc, cur, data, net, backlog, reply, killed>>
  BY DEF ClientSends
<1>2. /\ sent \in [Conns -> Seq(Items)] /\ inbox \in [Conns -> Seq(Items)]
      /\ data \in Seq(Text) /\ data \in Seq(Items)
      /\ reply \in [Conns -> Seq(Text) \cup {NoReply}]
      /\ cur \in Conns \cup {NoConn} /\ (cur = NoConn <=> pc \in {"accept", "dead"})
  BY Typed DEF TypeOK, Items, Lines
<1>3. /\ sent' \in [Conns -> Seq(Items)] /\ inbox' \in [Conns -> Seq(Items)]
      /\ \A d \in Conns : sent'[d] = IF d = c THEN Append(sent[c], item) ELSE sent[d]
      /\ \A d \in Conns : inbox'[d] = IF d = c THEN Append(inbox[c], item) ELSE inbox[d]
  BY <1>1, <1>2
<1>4. TypeOK' /\ ConnsAgree'
  BY <1>1, <1>3 DEF EchoInv, TypeOK, ConnsAgree, Items
<1>5. StreamsAgree'
  <2>1. \A d \in Conns : net[d] \in {"new", "backlog"} => inbox'[d] = sent'[d]
    BY <1>3 DEF EchoInv, StreamsAgree
  <2>2. ASSUME pc = "read" PROVE sent'[cur] = data \o inbox'[cur]
    <3>1. cur \in Conns /\ sent[cur] = data \o inbox[cur]
      BY <1>2, <2>2 DEF EchoInv, StreamsAgree
    <3>2. Append(data \o inbox[c], item) = data \o Append(inbox[c], item)
      <4>1. data \in Seq(Items) /\ inbox[c] \in Seq(Items)
        BY <1>2
      <4> HIDE DEF Items
      <4> QED  BY <4>1
    <3> QED  BY <1>3, <3>1, <3>2
  <2>3. ASSUME pc = "write" PROVE FollowedBy(data, Enders, sent'[cur])
    <3>1. cur \in Conns /\ FollowedBy(data, Enders, sent[cur])
      BY <1>2, <2>3 DEF EchoInv, StreamsAgree
    <3> QED  BY <1>2, <1>3, <3>1, FollowedStill
  <2> QED  BY <1>1, <2>1, <2>2, <2>3 DEF StreamsAgree, FollowedBy
<1>6. RepliesAgree'
  <2> SUFFICES ASSUME NEW d \in Conns, reply[d] # NoReply
               PROVE  FollowedBy(reply[d], Enders, sent'[d])
    BY <1>1 DEF RepliesAgree, FollowedBy
  <2>1. reply[d] \in Seq(Text) /\ FollowedBy(reply[d], Enders, sent[d])
    BY <1>2 DEF EchoInv, RepliesAgree
  <2> QED  BY <1>2, <1>3, <2>1, FollowedStill
<1>7. DeathAgrees'
  <2>1. \A d \in Conns : net[d] = "closed" => sent'[d] = sent[d]
    BY <1>1, <1>3
  <2>2. DeathAgrees
    BY DEF EchoInv
  <2> QED  BY <1>1, <2>1, <2>2 DEF DeathAgrees, FollowedBy
<1> QED  BY <1>4, <1>5, <1>6, <1>7 DEF EchoInv

-----------------------------------------------------------------------------
(* The steps of the server.                                                *)

(* The handler starts with nothing, at the beginning of the stream.        *)
LEMMA StepAccept == ASSUME EchoInv, Accept PROVE EchoInv'
<1>1. /\ pc = "accept" /\ backlog # << >>
      /\ cur' = Head(backlog) /\ backlog' = Tail(backlog)
      /\ net' = [net EXCEPT ![Head(backlog)] = "accepted"]
      /\ data' = << >> /\ pc' = "read"
      /\ UNCHANGED <<inbox, sent, reply, killed>>
  BY DEF Accept
<1>2. /\ net[Head(backlog)] = "backlog" /\ Head(backlog) \in Conns
      /\ NoConn \notin Conns /\ Head(backlog) # NoConn
  BY <1>1, HeadLeaves, EchoAssumption
<1>3. cur = NoConn /\ \A c \in Conns : net[c] # "accepted"
  BY <1>1, <1>2 DEF EchoInv, TypeOK, ConnsAgree
<1>4. TypeOK'
  BY <1>1, <1>2, Typed, HeadLeaves DEF TypeOK
<1>5. ConnsAgree'
  <2>1. \A d \in Conns : net'[d] = IF d = Head(backlog) THEN "accepted" ELSE net[d]
    BY <1>1, Typed DEF TypeOK
  <2> QED  BY <1>1, <1>2, <1>3, <2>1, HeadLeaves DEF ConnsAgree
<1>6. StreamsAgree'
  <2>1. sent[Head(backlog)] = << >> \o inbox[Head(backlog)]
    <3>1. sent[Head(backlog)] = inbox[Head(backlog)]
      BY <1>2 DEF EchoInv, StreamsAgree
    <3>2. inbox[Head(backlog)] \in Seq(Lines \cup Ends)
      BY <1>2, Typed DEF TypeOK
    <3> QED  BY <3>1, <3>2, ConcatEmptySeq
  <2>2. \A c \in Conns : net'[c] \in {"new", "backlog"} => inbox[c] = sent[c]
    BY <1>1, <1>2 DEF EchoInv, TypeOK, StreamsAgree
  <2> QED  BY <1>1, <2>1, <2>2 DEF StreamsAgree
<1>7. RepliesAgree' /\ DeathAgrees'
  BY <1>1 DEF EchoInv, RepliesAgree, FollowedBy, DeathAgrees
<1> QED  BY <1>4, <1>5, <1>6, <1>7 DEF EchoInv

(* A line is taken from the stream: the next of the request, or its end.   *)
LEMMA StepReadLine == ASSUME EchoInv, ReadLine PROVE EchoInv'
<1> DEFINE line == Head(inbox[cur])
<1>1. /\ pc = "read" /\ inbox[cur] # << >> /\ line \in Text \cup {Empty, Fin}
      /\ data' = IF line \in Text THEN Append(data, line) ELSE data
      /\ pc' = IF line \in Text THEN "read" ELSE "write"
      /\ inbox' = [inbox EXCEPT ![cur] = Tail(inbox[cur])]
      /\ UNCHANGED <<cur, net, backlog, sent, reply, killed>>
  BY DEF ReadLine, TakeWhile
<1>2. /\ cur \in Conns /\ data \in Seq(Text) /\ inbox \in [Conns -> Seq(Items)]
      /\ net[cur] = "accepted" /\ sent[cur] = data \o inbox[cur]
  BY <1>1 DEF EchoInv, TypeOK, ConnsAgree, StreamsAgree, Items
<1>3. /\ Tail(inbox[cur]) \in Seq(Items)
      /\ line \in Text => sent[cur] = Append(data, line) \o Tail(inbox[cur])
      /\ line \notin Text => FollowedBy(data, Enders, sent[cur])
  BY <1>1, <1>2, ReadingOn DEF FollowedBy, Enders
<1>4. /\ inbox' \in [Conns -> Seq(Items)] /\ inbox'[cur] = Tail(inbox[cur])
      /\ \A c \in Conns : c # cur => inbox'[c] = inbox[c]
  BY <1>1, <1>2, <1>3
<1>5. TypeOK'
  <2>1. data' \in Seq(Text)
    BY <1>1, <1>2
  <2> QED  BY <1>1, <1>4, <2>1, Typed DEF TypeOK, Items
<1>6. StreamsAgree'
  <2>1. \A c \in Conns : net[c] \in {"new", "backlog"} => inbox'[c] = sent[c]
    BY <1>2, <1>4 DEF EchoInv, StreamsAgree
  <2>2. CASE line \in Text
    BY <1>1, <1>3, <1>4, <2>1, <2>2 DEF StreamsAgree
  <2>3. CASE line \notin Text
    BY <1>1, <1>3, <2>1, <2>3 DEF StreamsAgree, FollowedBy
  <2> QED  BY <2>2, <2>3
<1>7. ConnsAgree' /\ RepliesAgree' /\ DeathAgrees'
  <2>1. pc' # "dead"
    BY <1>1
  <2> QED
    BY <1>1, <2>1 DEF EchoInv, ConnsAgree, RepliesAgree, FollowedBy, DeathAgrees
<1> QED  BY <1>5, <1>6, <1>7 DEF EchoInv

(* The process ends: by itself only at a line that cannot be read.         *)
LEMMA StepDies == ASSUME EchoInv, ReadPanics \/ ServerDies PROVE EchoInv'
<1>1. /\ pc # "dead" /\ pc' = "dead" /\ cur' = NoConn
      /\ net' = IF cur = NoConn THEN net ELSE [net EXCEPT ![cur] = "closed"]
      /\ UNCHANGED <<data, backlog, inbox, sent, reply>>
      /\ killed' \in {TRUE, killed}
  BY DEF ReadPanics, ServerDies, Die
<1>2. NoConn \notin Conns
  BY EchoAssumption
<1>3. \A c \in Conns : net'[c] = IF c = cur THEN "closed" ELSE net[c]
  BY <1>1, <1>2, Typed DEF TypeOK
<1>4. TypeOK'
  BY <1>1, <1>2, Typed DEF TypeOK
<1>5. ConnsAgree' /\ StreamsAgree' /\ RepliesAgree'
  BY <1>1, <1>2, <1>3 DEF EchoInv, ConnsAgree, StreamsAgree, RepliesAgree, FollowedBy
<1>6. DeathAgrees'
  <2>1. CASE ReadPanics
    <3>1. pc = "read" /\ inbox[cur] # << >> /\ Head(inbox[cur]) \in {Garbage, Rst}
      BY <2>1 DEF ReadPanics
    <3>2. /\ cur \in Conns /\ data \in Seq(Text) /\ inbox[cur] \in Seq(Items)
          /\ sent[cur] = data \o inbox[cur]
      BY <3>1 DEF EchoInv, TypeOK, StreamsAgree, Items
    <3>3. FollowedBy(data, Unreadable, sent[cur])
      BY <3>1, <3>2, ReadingOn DEF FollowedBy, Unreadable
    <3> QED  BY <1>1, <1>3, <3>2, <3>3 DEF DeathAgrees, FollowedBy
  <2>2. CASE ServerDies
    BY <2>2 DEF ServerDies, DeathAgrees
  <2> QED  BY <2>1, <2>2
<1> QED  BY <1>4, <1>5, <1>6 DEF EchoInv

(* The request is sent back.                                               *)
LEMMA StepWrite == ASSUME EchoInv, Write PROVE EchoInv'
<1>1. /\ pc = "write" /\ pc' = "shutdown"
      /\ reply' = [reply EXCEPT ![cur] = data]
      /\ UNCHANGED <<cur, data, net, backlog, inbox, sent, killed>>
  BY DEF Write
<1>2. cur \in Conns /\ FollowedBy(data, Enders, sent[cur])
  BY <1>1 DEF EchoInv, TypeOK, StreamsAgree
<1>3. TypeOK'
  BY <1>1, <1>2, Typed DEF TypeOK
<1>4. RepliesAgree'
  <2>1. \A c \in Conns : reply'[c] = IF c = cur THEN data ELSE reply[c]
    BY <1>1, <1>2, Typed DEF TypeOK
  <2>2. \A c \in Conns : reply'[c] # NoReply => FollowedBy(reply'[c], Enders, sent[c])
    BY <1>2, <2>1 DEF EchoInv, RepliesAgree
  <2> QED  BY <1>1, <2>2 DEF RepliesAgree, FollowedBy
<1>5. ConnsAgree' /\ StreamsAgree' /\ DeathAgrees'
  BY <1>1 DEF EchoInv, ConnsAgree, StreamsAgree, DeathAgrees
<1> QED  BY <1>3, <1>4, <1>5 DEF EchoInv

(* The handler returns, its reply sent or not.                             *)
LEMMA StepClose == ASSUME EchoInv, WriteFails \/ Shutdown PROVE EchoInv'
<1>1. /\ pc \in {"write", "shutdown"} /\ pc' = "accept" /\ cur' = NoConn
      /\ net' = [net EXCEPT ![cur] = "closed"]
      /\ UNCHANGED <<data, backlog, inbox, sent, reply, killed>>
  BY DEF WriteFails, Shutdown, Close
<1>2. cur \in Conns /\ NoConn \notin Conns
  BY <1>1, Typed, EchoAssumption DEF TypeOK
<1>3. \A c \in Conns : net'[c] = IF c = cur THEN "closed" ELSE net[c]
  BY <1>1, Typed DEF TypeOK
<1>4. TypeOK'
  BY <1>1, <1>2, Typed DEF TypeOK
<1>5. ConnsAgree' /\ StreamsAgree' /\ RepliesAgree' /\ DeathAgrees'
  BY <1>1, <1>2, <1>3
     DEF EchoInv, ConnsAgree, StreamsAgree, RepliesAgree, FollowedBy, DeathAgrees
<1> QED  BY <1>4, <1>5 DEF EchoInv

-----------------------------------------------------------------------------
(* The invariant.                                                          *)

LEMMA InitEchoInv == Init => EchoInv
<1> SUFFICES ASSUME Init PROVE EchoInv
  OBVIOUS
<1>1. NoConn \notin Conns
  BY EchoAssumption
<1>2. TypeOK
  <2>1. << >> \in Seq(Text) /\ << >> \in Seq(Conns) /\ << >> \in Seq(Lines \cup Ends)
    OBVIOUS
  <2>2. \A S, e : e \in S => [c \in Conns |-> e] \in [Conns -> S]
    OBVIOUS
  <2>3. reply \in [Conns -> Seq(Text) \cup {NoReply}]
    BY <2>2 DEF Init
  <2>4. inbox \in [Conns -> Seq(Lines \cup Ends)] /\ sent \in [Conns -> Seq(Lines \cup Ends)]
    BY <2>1, <2>2 DEF Init
  <2> QED  BY <1>1, <2>1, <2>3, <2>4 DEF Init, TypeOK
<1>3. ConnsAgree
  <2>1. /\ cur = NoConn /\ DOMAIN backlog = {}
        /\ \A c \in Conns : net[c] = "new"
    BY DEF Init
  <2> QED  BY <1>1, <2>1 DEF ConnsAgree
<1>4. StreamsAgree
  BY DEF Init, StreamsAgree
<1>5. RepliesAgree
  <2>1. \A c \in Conns : reply[c] = NoReply
    BY DEF Init
  <2> QED  BY <2>1 DEF RepliesAgree
<1>6. DeathAgrees
  BY DEF Init, DeathAgrees
<1> QED  BY <1>2, <1>3, <1>4, <1>5, <1>6 DEF EchoInv

LEMMA StepEchoInv == EchoInv /\ [Next]_vars => EchoInv'
<1> SUFFICES ASSUME EchoInv, [Next]_vars PROVE EchoInv'
  OBVIOUS
<1>1. CASE UNCHANGED vars \/ Quiet
  <2>1. UNCHANGED <<pc, cur, data, net, backlog, inbox, sent, reply, killed>>
    BY <1>1 DEF vars, Quiet
  <2>2. TypeOK' /\ ConnsAgree'
    BY <2>1 DEF EchoInv, TypeOK, ConnsAgree
  <2>3. StreamsAgree' /\ RepliesAgree' /\ DeathAgrees'
    BY <2>1 DEF EchoInv, StreamsAgree, RepliesAgree, FollowedBy, DeathAgrees
  <2> QED  BY <2>2, <2>3 DEF EchoInv
<1>2. ASSUME NEW c \in Conns, ClientStep(c) PROVE EchoInv'
  BY <1>2, StepConnect, StepClientSends DEF ClientStep, Items
<1> QED
  BY <1>1, <1>2, StepResetBacklog, StepAccept, StepReadLine, StepDies, StepWrite, StepClose
     DEF Next, ServerStep

(* What relates the backlog, the connection that is served, what clients   *)
(* have sent and what the handler has collected holds in every state.      *)
THEOREM EchoInvariant == Spec => []EchoInv
  BY InitEchoInv, StepEchoInv, PTL DEF Spec

(* What ends a request, or cannot be read, is not text.                    *)
LEMMA NotText == Enders \cap Text = {} /\ Unreadable \cap Text = {}
  BY EchoAssumption DEF Enders, Unreadable

(* Every reply of the delayed echo service is the request of the client    *)
(* that gets it: its lines in order, up to the first that is empty or the  *)
(* end of the stream, and nothing of anybody else's.                       *)
THEOREM LinesAreEchoed == Spec => []EchoesTheRequest
<1>1. EchoInv => EchoesTheRequest
  <2> SUFFICES ASSUME EchoInv PROVE EchoesTheRequest
    OBVIOUS
  <2>1. ASSUME NEW c \in Conns, reply[c] # NoReply
        PROVE  reply[c] = Request(c) /\ FollowedBy(Request(c), Enders, sent[c])
    <3>1. /\ reply[c] \in Seq(Text) /\ sent[c] \in Seq(Items)
          /\ FollowedBy(reply[c], Enders, sent[c])
      BY <2>1 DEF EchoInv, TypeOK, RepliesAgree, Items
    <3>2. reply[c] = Request(c)
      BY <3>1, NotText, RequestIs
    <3> QED  BY <3>1, <3>2
  <2> QED  BY <2>1, Typed DEF EchoesTheRequest
<1> QED  BY <1>1, EchoInvariant, PTL

(* When the iterative server ends by itself, a client that it was serving  *)
(* had sent a line that cannot be read, and that line, not the end of the  *)
(* request, is what followed the last line of the request.                 *)
THEOREM OnlyBadLinesEndIt == Spec => []OnlyBadLinesKill
<1>1. EchoInv => OnlyBadLinesKill
  <2> SUFFICES ASSUME EchoInv, pc = "dead" /\ ~killed
               PROVE  \E c \in Conns : /\ net[c] = "closed"
                                       /\ FollowedBy(Request(c), Unreadable, sent[c])
    BY DEF OnlyBadLinesKill
  <2>1. PICK c \in Conns : net[c] = "closed" /\ FollowedBy(data, Unreadable, sent[c])
    BY DEF EchoInv, DeathAgrees
  <2>2. data \in Seq(Text) /\ sent[c] \in Seq(Items)
    BY Typed DEF TypeOK, Items
  <2>3. data = Request(c)
    BY <2>1, <2>2, NotText, RequestIs
  <2> QED  BY <2>1, <2>3
<1> QED  BY <1>1, EchoInvariant, PTL

=============================================================================
