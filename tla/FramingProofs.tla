--------------------------- MODULE FramingProofs ----------------------------
(***************************************************************************)
(* Machine-checked proofs about Framing, for every base and width of the   *)
(* length, every set of payloads that fit it, every size of the writer's   *)
(* buffer and of the kernel's: the bytes stay in order, and implement the  *)
(* channel of messages.                                                    *)
(***************************************************************************)
EXTENDS Framing, SequenceTheorems, WellFoundedInduction, TLAPS

(* Induction over the numbers up to a bound, for a property given as a set. *)
LEMMA Induction ==
  ASSUME NEW n \in Nat, NEW S, 0 \in S, \A k \in 0 .. n - 1 : k \in S => k + 1 \in S
  PROVE  0 .. n \subseteq S
<1> DEFINE T == (0 .. n) \ S
<1> SUFFICES ASSUME T # {} PROVE FALSE
  OBVIOUS
<1>1. T \subseteq Nat
  OBVIOUS
<1>2. PICK m \in T : \A y \in T : ~ (<<y, m>> \in OpToRel(<, Nat))
  <2> HIDE DEF T
  <2> QED  BY <1>1, NatLessThanWellFounded, WFMin
<1>3. \A y \in T : ~(y < m)
  <2> HIDE DEF T
  <2> QED  BY <1>1, <1>2 DEF OpToRel
<1>4. m # 0 /\ m - 1 \in 0 .. n - 1 /\ m - 1 < m /\ (m - 1) + 1 = m
  OBVIOUS
<1>5. m - 1 \in T
  BY <1>4
<1> QED  BY <1>3, <1>4, <1>5

-----------------------------------------------------------------------------
(* Digits.                                                                 *)

(* A recursive function is what its equation says when a function with     *)
(* that equation exists.                                                   *)
LEMMA PowerIs ==
  /\ Power[0] = 1
  /\ \A k \in 0 .. Width - 1 : Power[k + 1] = Base * Power[k]
  /\ \A k \in 0 .. Width : Power[k] \in Nat \ {0}
<1> USE FramingAssumption
<1> DEFINE Up(n, g) == g = [k \in 0 .. n |-> IF k = 0 THEN 1 ELSE Base * g[k - 1]]
<1>1. \E g : Up(Width, g)
  <2> DEFINE S == {n \in 0 .. Width : \E g : Up(n, g)}
  <2>1. 0 \in S
    <3> DEFINE h == [k \in 0 .. 0 |-> 1]
    <3>1. \A k \in 0 .. 0 : (IF k = 0 THEN 1 ELSE Base * h[k - 1]) = 1
      OBVIOUS
    <3>2. Up(0, h)
      BY <3>1
    <3> HIDE DEF h, Up
    <3> QED  BY <3>2
  <2>2. ASSUME NEW n \in 0 .. Width - 1, n \in S PROVE n + 1 \in S
    <3>1. PICK g : Up(n, g)
      BY <2>2
    <3> DEFINE h == [k \in 0 .. n + 1 |-> IF k = 0 THEN 1 ELSE Base * g[k - 1]]
    <3>2. \A k \in 0 .. n : h[k] = g[k]
      BY <3>1
    <3>3. \A k \in 0 .. n + 1 : k # 0 => h[k - 1] = g[k - 1]
      <4> HIDE DEF h
      <4>1. \A k \in 0 .. n + 1 : k # 0 => k - 1 \in 0 .. n
        OBVIOUS
      <4> QED  BY <3>2, <4>1
    <3> DEFINE e(k) == IF k = 0 THEN 1 ELSE Base * g[k - 1]
               d(k) == IF k = 0 THEN 1 ELSE Base * h[k - 1]
    <3>4. \A k \in 0 .. n + 1 : e(k) = d(k)
      BY <3>3
    <3>5. h = [k \in 0 .. n + 1 |-> d(k)]
      BY <3>4
    <3>6. n + 1 \in 0 .. Width /\ Up(n + 1, h)
      BY <3>5, SMTT(30)
    <3> HIDE DEF h, Up
    <3> QED  BY <3>6
  <2>3. 0 .. Width \subseteq S
    <3> HIDE DEF S
    <3> QED  BY <2>1, <2>2, Induction
  <2>4. Width \in S
    <3> HIDE DEF S
    <3> QED  BY <2>3
  <2> HIDE DEF Up
  <2> QED  BY <2>4
<1>2. Up(Width, Power)
  BY <1>1 DEF Power
<1>3. /\ Power[0] = 1
      /\ \A k \in 0 .. Width - 1 : Power[k + 1] = Base * Power[k]
  BY <1>2
<1>4. 0 .. Width \subseteq {k \in 0 .. Width : Power[k] \in Nat \ {0}}
  <2> DEFINE S == {k \in 0 .. Width : Power[k] \in Nat \ {0}}
  <2>1. 0 \in S /\ \A k \in 0 .. Width - 1 : k \in S => k + 1 \in S
    BY <1>3
  <2> HIDE DEF S
  <2> QED  BY <2>1, Induction DEF S
<1> QED  BY <1>3, <1>4

(* Dividing by a power is dividing as often.                               *)
LEMMA DivideTwice ==
  ASSUME NEW n \in Nat, NEW p \in Nat \ {0}, NEW b \in Nat \ {0}
  PROVE  n \div (b * p) = (n \div p) \div b
<1> DEFINE q == n \div p
           r == n % p
           t == q \div b
           u == q % b
<1>1. q \in Nat /\ r \in 0 .. p - 1 /\ n = q * p + r
  OBVIOUS
<1>2. t \in Nat /\ u \in 0 .. b - 1 /\ q = t * b + u
  BY <1>1
<1> HIDE DEF q, r, t, u
<1>3. n = t * (b * p) + (u * p + r)
  BY <1>1, <1>2
<1>4. u * p + r \in 0 .. (b * p) - 1
  <2>1. u * p + r \in Nat
    BY <1>1, <1>2
  <2>2. u * p <= (b - 1) * p
    BY <1>2
  <2>3. (b - 1) * p + p = b * p
    OBVIOUS
  <2> QED  BY <1>1, <1>2, <2>1, <2>2, <2>3
<1>5. n \div (b * p) = t
  BY <1>2, <1>3, <1>4
<1> QED  BY <1>5 DEF t, q

(* A length goes into a prefix and comes out of it.                        *)
LEMMA PrefixRoundTrip ==
  ASSUME NEW n \in Nat, n < Power[Width]
  PROVE  /\ LengthPrefix(n) \in Seq(Bytes) /\ Len(LengthPrefix(n)) = Width
         /\ LengthOf(LengthPrefix(n)) = n
<1> USE FramingAssumption
<1> DEFINE b == LengthPrefix(n)
<1>1. /\ b \in Seq(Bytes) /\ Len(b) = Width
      /\ \A i \in 1 .. Width : b[i] = (n \div Power[Width - i]) % Base
  <2>1. \A i \in 1 .. Width : (n \div Power[Width - i]) % Base \in Bytes
    <3>1. \A m \in Nat : m % Base \in Bytes
      BY DEF Bytes
    <3>2. \A i \in 1 .. Width : Power[Width - i] \in Nat \ {0}
      <4>1. \A i \in 1 .. Width : Width - i \in 0 .. Width
        OBVIOUS
      <4> QED  BY <4>1, PowerIs
    <3>3. \A p \in Nat \ {0} : n \div p \in Nat
      OBVIOUS
    <3> QED  BY <3>1, <3>2, <3>3
  <2> QED  BY <2>1 DEF LengthPrefix
<1> HIDE DEF b
<1> DEFINE Reads(g) == g = [i \in 0 .. Width |-> IF i = 0 THEN 0 ELSE g[i - 1] * Base + b[i]]
           f == [i \in 0 .. Width |-> n \div Power[Width - i]]
           number == CHOOSE g : Reads(g)
<1>2. \A i \in 1 .. Width : f[i] = f[i - 1] * Base + b[i]
  <2> TAKE i \in 1 .. Width
  <2>1. PICK k \in 0 .. Width - 1 : k = Width - i /\ k + 1 = Width - (i - 1)
    OBVIOUS
  <2>2. Power[k] \in Nat \ {0} /\ Power[k + 1] = Base * Power[k]
    BY PowerIs
  <2> DEFINE m == n \div Power[k]
  <2>3. m \in Nat /\ m = (m \div Base) * Base + (m % Base)
    <3>1. m \in Nat
      BY <2>2
    <3> HIDE DEF m
    <3> QED  BY <3>1
  <2>4. f[i] = m /\ b[i] = m % Base
    BY <1>1, <2>1
  <2>5. f[i - 1] = m \div Base
    BY <2>1, <2>2, DivideTwice
  <2> QED  BY <2>3, <2>4, <2>5
<1>3. f[0] = 0 /\ f[Width] = n
  <2>1. \A p \in Nat \ {0} : n < p => n \div p = 0
    OBVIOUS
  <2>2. n \div 1 = n
    OBVIOUS
  <2>3. Power[Width] \in Nat \ {0} /\ Power[0] = 1
    BY PowerIs
  <2>4. f[0] = n \div Power[Width] /\ f[Width] = n \div Power[0]
    OBVIOUS
  <2> QED  BY <2>1, <2>2, <2>3, <2>4
<1>4. Reads(f)
  <2> DEFINE e(i) == n \div Power[Width - i]
             d(i) == IF i = 0 THEN 0 ELSE f[i - 1] * Base + b[i]
  <2>1. \A i \in 0 .. Width : f[i] = d(i)
    <3> HIDE DEF f
    <3> QED  BY <1>2, <1>3
  <2>2. \A i \in 0 .. Width : e(i) = d(i)
    BY <2>1
  <2>3. f = [i \in 0 .. Width |-> d(i)]
    <3> HIDE DEF d
    <3> QED  BY <2>2
  <2> QED  BY <2>3
<1>5. Reads(number)
  BY <1>4
<1>6. number[Width] = f[Width]
  <2> DEFINE S == {i \in 0 .. Width : number[i] = f[i]}
  <2> HIDE DEF f, number
  <2>1. 0 \in S
    BY <1>3, <1>5
  <2>2. \A i \in 0 .. Width - 1 : i \in S => i + 1 \in S
    BY <1>2, <1>5
  <2> HIDE DEF S
  <2>3. 0 .. Width \subseteq S
    BY <2>1, <2>2, Induction
  <2>4. Width \in S
    BY <2>3
  <2> QED  BY <2>4 DEF S
<1>7. LengthOf(b) = number[Width]
  BY <1>1 DEF LengthOf
<1> QED  BY <1>1, <1>3, <1>6, <1>7 DEF b

-----------------------------------------------------------------------------
(* Frames in a row.                                                        *)

(* The sequences ss joined up to each of the first n.                      *)
JoinedUpTo(n, ss, g) ==
  g = [i \in 1 .. n |-> IF i = 1 THEN ss[i] ELSE g[i - 1] \o ss[i]]

LEMMA JoinedAt ==
  ASSUME NEW n \in Nat, NEW ss, NEW g, JoinedUpTo(n, ss, g), NEW i \in 1 .. n
  PROVE  g[i] = IF i = 1 THEN ss[i] ELSE g[i - 1] \o ss[i]
BY DEF JoinedUpTo

LEMMA JoinedNext ==
  ASSUME NEW n \in Nat, NEW ss, NEW g, JoinedUpTo(n, ss, g), NEW i \in Nat \ {0}, i < n
  PROVE  g[i + 1] = g[i] \o ss[i + 1]
<1>1. PICK j \in 1 .. n : j = i + 1
  OBVIOUS
<1>2. j # 1 /\ j - 1 = i
  BY <1>1
<1>3. g[j] = IF j = 1 THEN ss[j] ELSE g[j - 1] \o ss[j]
  BY JoinedAt
<1>4. g[j] = g[i] \o ss[j]
  BY ONLY <1>2, <1>3
<1> QED  BY ONLY <1>1, <1>4

LEMMA JoinedExists ==
  ASSUME NEW S, NEW ss \in Seq(Seq(S))
  PROVE  \E g : JoinedUpTo(Len(ss), ss, g)
<1> DEFINE T == {n \in 0 .. Len(ss) : \E g : JoinedUpTo(n, ss, g)}
<1>1. Len(ss) \in Nat
  OBVIOUS
<1>2. 0 \in T
  <2> DEFINE h == << >>
  <2>1. h = [i \in 1 .. 0 |-> IF i = 1 THEN ss[i] ELSE h[i - 1] \o ss[i]]
    OBVIOUS
  <2>2. JoinedUpTo(0, ss, h)
    BY <2>1 DEF JoinedUpTo
  <2> QED  BY <1>1, <2>2
<1>3. ASSUME NEW n \in 0 .. Len(ss) - 1, n \in T PROVE n + 1 \in T
  <2>1. PICK g : JoinedUpTo(n, ss, g)
    BY <1>3
  <2> DEFINE e(i) == IF i = 1 THEN ss[i] ELSE g[i - 1] \o ss[i]
             h == [i \in 1 .. n + 1 |-> e(i)]
             d(i) == IF i = 1 THEN ss[i] ELSE h[i - 1] \o ss[i]
  <2>2. \A i \in 1 .. n : h[i] = g[i]
    <3>1. \A i \in 1 .. n : g[i] = e(i)
      BY <1>1, <2>1, JoinedAt
    <3>2. \A i \in 1 .. n : h[i] = e(i)
      <4> HIDE DEF e
      <4> QED  OBVIOUS
    <3> HIDE DEF e, h
    <3> QED  BY <3>1, <3>2
  <2>3. \A i \in 1 .. n + 1 : i # 1 => h[i - 1] = g[i - 1]
    <3> HIDE DEF h
    <3>1. \A i \in 1 .. n + 1 : i # 1 => i - 1 \in 1 .. n
      OBVIOUS
    <3> QED  BY <2>2, <3>1
  <2>4. \A i \in 1 .. n + 1 : e(i) = d(i)
    BY <2>3
  <2>5. h = [i \in 1 .. n + 1 |-> d(i)]
    <3> HIDE DEF d, e
    <3> QED  BY <2>4
  <2>6. JoinedUpTo(n + 1, ss, h)
    <3> HIDE DEF h
    <3> QED  BY <2>5 DEF JoinedUpTo
  <2>7. n + 1 \in 0 .. Len(ss)
    BY <1>1
  <2> HIDE DEF h
  <2> QED  BY <2>6, <2>7
<1>4. 0 .. Len(ss) \subseteq T
  <2> HIDE DEF T
  <2> QED  BY <1>1, <1>2, <1>3, Induction
<1>5. Len(ss) \in T
  <2> HIDE DEF T
  <2> QED  BY <1>1, <1>4
<1> QED  BY <1>5

LEMMA FlattenIs ==
  ASSUME NEW S, NEW ss \in Seq(Seq(S)), ss # << >>
  PROVE  \E g : /\ JoinedUpTo(Len(ss), ss, g)
                /\ FlattenSeq(ss) = g[Len(ss)]
                /\ \A i \in 1 .. Len(ss) : g[i] \in Seq(S)
<1>1. Len(ss) \in Nat /\ Len(ss) # 0 /\ \A i \in 1 .. Len(ss) : ss[i] \in Seq(S)
  BY EmptySeq
<1> DEFINE g == CHOOSE g : JoinedUpTo(Len(ss), ss, g)
<1>2. JoinedUpTo(Len(ss), ss, g)
  BY JoinedExists
<1>3. FlattenSeq(ss) = g[Len(ss)]
  BY <1>1 DEF FlattenSeq, JoinedUpTo
<1> HIDE DEF g
<1> DEFINE T == {i \in 0 .. Len(ss) : i = 0 \/ g[i] \in Seq(S)}
<1>4. 0 \in T
  BY <1>1
<1>5. ASSUME NEW i \in 0 .. Len(ss) - 1, i \in T PROVE i + 1 \in T
  <2>1. i + 1 \in 1 .. Len(ss) /\ ss[i + 1] \in Seq(S)
    BY <1>1
  <2>2. CASE i = 0
    BY <1>1, <1>2, <2>1, <2>2, JoinedAt
  <2>3. CASE i # 0
    <3>1. g[i] \in Seq(S) /\ i \in 1 .. Len(ss)
      BY <1>1, <1>5, <2>3
    <3>2. g[i + 1] = g[i] \o ss[i + 1]
      <4>1. i \in Nat \ {0} /\ i < Len(ss)
        BY <1>1, <2>3
      <4> QED  BY <1>1, <1>2, <4>1, JoinedNext, ZenonT(30)
    <3>3. g[i] \o ss[i + 1] \in Seq(S)
      BY <2>1, <3>1
    <3>4. i + 1 \in 0 .. Len(ss)
      BY <1>1
    <3> QED  BY <3>2, <3>3, <3>4
  <2> QED  BY <2>2, <2>3
<1>6. 0 .. Len(ss) \subseteq T
  <2> HIDE DEF T
  <2> QED  BY <1>1, <1>4, <1>5, Induction
<1>7. \A i \in 1 .. Len(ss) : g[i] \in Seq(S)
  <2>1. \A i \in 1 .. Len(ss) : i \in 0 .. Len(ss) /\ i # 0
    BY <1>1
  <2> QED  BY <1>6, <2>1
<1> QED  BY <1>2, <1>3, <1>7

LEMMA FlattenAppend ==
  ASSUME NEW S, NEW ss \in Seq(Seq(S)), NEW s \in Seq(S)
  PROVE  /\ FlattenSeq(<< >>) = << >>
         /\ FlattenSeq(ss) \in Seq(S)
         /\ FlattenSeq(Append(ss, s)) = FlattenSeq(ss) \o s
<1> DEFINE n == Len(ss)
           t == Append(ss, s)
<1>1. /\ n \in Nat /\ t \in Seq(Seq(S)) /\ t # << >> /\ Len(t) = n + 1
      /\ t[n + 1] = s /\ \A i \in 1 .. n : t[i] = ss[i]
  <2> DEFINE SS == Seq(S)
  <2> HIDE DEF SS
  <2>1. ss \in Seq(SS) /\ s \in SS
    BY DEF SS
  <2>2. /\ n \in Nat /\ t \in Seq(SS) /\ t # << >> /\ Len(t) = n + 1
        /\ t[n + 1] = s /\ \A i \in 1 .. n : t[i] = ss[i]
    BY <2>1, AppendProperties
  <2> QED  BY <2>2 DEF SS
<1> HIDE DEF t
<1>2. PICK h : /\ JoinedUpTo(n + 1, t, h) /\ FlattenSeq(t) = h[n + 1]
               /\ \A i \in 1 .. n + 1 : h[i] \in Seq(S)
  BY <1>1, FlattenIs
<1>3. FlattenSeq(<< >>) = << >>
  BY DEF FlattenSeq
<1>4. CASE ss = << >>
  <2>1. n = 0 /\ t[1] = s
    BY <1>1, <1>4
  <2>2. FlattenSeq(t) = s
    BY <1>2, <2>1 DEF JoinedUpTo
  <2>3. << >> \o s = s /\ << >> \in Seq(S)
    OBVIOUS
  <2>4. FlattenSeq(ss) = << >>
    BY <1>3, <1>4
  <2>5. FlattenSeq(t) = FlattenSeq(ss) \o s /\ FlattenSeq(ss) \in Seq(S)
    BY ONLY <2>2, <2>3, <2>4
  <2> QED  BY <1>3, <2>5 DEF t
<1>5. CASE ss # << >>
  <2>1. PICK g : /\ JoinedUpTo(n, ss, g) /\ FlattenSeq(ss) = g[n]
                 /\ \A i \in 1 .. n : g[i] \in Seq(S)
    BY <1>5, FlattenIs
  <2>2. n # 0
    BY <1>5, EmptySeq
  <2> HIDE DEF n
  <2> DEFINE T == {i \in 0 .. n : i = 0 \/ h[i] = g[i]}
  <2>3. 0 \in T
    BY <1>1
  <2>4. ASSUME NEW i \in 0 .. n - 1, i \in T PROVE i + 1 \in T
    <3>1. i + 1 \in 1 .. n /\ i + 1 \in 1 .. n + 1 /\ i + 1 \in 0 .. n /\ (i + 1) - 1 = i
      BY <1>1
    <3>2. h[i + 1] = IF i + 1 = 1 THEN t[i + 1] ELSE h[(i + 1) - 1] \o t[i + 1]
      BY <1>2, <3>1 DEF JoinedUpTo
    <3>3. g[i + 1] = IF i + 1 = 1 THEN ss[i + 1] ELSE g[(i + 1) - 1] \o ss[i + 1]
      BY <2>1, <3>1 DEF JoinedUpTo
    <3>4. t[i + 1] = ss[i + 1] /\ (i = 0 \/ h[i] = g[i])
      BY <1>1, <2>4, <3>1
    <3> QED  BY <3>1, <3>2, <3>3, <3>4
  <2>5. 0 .. n \subseteq T
    <3> HIDE DEF T
    <3> QED  BY <1>1, <2>3, <2>4, Induction
  <2>6. h[n] = g[n] /\ n \in 1 .. n
    BY <1>1, <2>2, <2>5
  <2>7. h[n + 1] = h[n] \o s
    <3>1. n \in Nat \ {0} /\ n < n + 1 /\ n + 1 \in Nat
      BY <1>1, <2>2
    <3>2. h[n + 1] = h[n] \o t[n + 1]
      BY <1>2, <3>1, JoinedNext, ZenonT(30)
    <3> QED  BY <1>1, <3>2
  <2> QED  BY <1>2, <1>3, <2>1, <2>6, <2>7 DEF t
<1> QED  BY <1>4, <1>5, EmptySeq

-----------------------------------------------------------------------------
(* Frames of messages.                                                     *)

LEMMA PrefixTyped ==
  ASSUME NEW n \in Nat
  PROVE  LengthPrefix(n) \in Seq(Bytes) /\ Len(LengthPrefix(n)) = Width
<1> USE FramingAssumption
<1>1. \A i \in 1 .. Width : (n \div Power[Width - i]) % Base \in Bytes
  <2>1. \A m \in Nat : m % Base \in Bytes
    BY DEF Bytes
  <2>2. \A i \in 1 .. Width : Power[Width - i] \in Nat \ {0}
    <3>1. \A i \in 1 .. Width : Width - i \in 0 .. Width
      OBVIOUS
    <3> QED  BY <3>1, PowerIs
  <2>3. \A p \in Nat \ {0} : n \div p \in Nat
    OBVIOUS
  <2> QED  BY <2>1, <2>2, <2>3
<1> QED  BY <1>1 DEF LengthPrefix

LEMMA FrameIs ==
  ASSUME NEW p \in Payloads
  PROVE  /\ p \in Seq(Bytes) /\ Len(p) \in Nat
         /\ LengthPrefix(Len(p)) \in Seq(Bytes) /\ Len(LengthPrefix(Len(p))) = Width
         /\ LengthOf(LengthPrefix(Len(p))) = Len(p)
         /\ Frame(p) \in Seq(Bytes) /\ Len(Frame(p)) = Width + Len(p)
<1>1. p \in Seq(Bytes) /\ Len(p) \in Nat /\ Len(p) < Power[Width]
  BY FramingAssumption
<1> DEFINE l == LengthPrefix(Len(p))
<1>2. l \in Seq(Bytes) /\ Len(l) = Width /\ LengthOf(l) = Len(p)
  BY <1>1, PrefixTyped, PrefixRoundTrip
<1> HIDE DEF l
<1>3. l \o p \in Seq(Bytes) /\ Len(l \o p) = Width + Len(p)
  BY <1>1, <1>2
<1> QED  BY <1>1, <1>2, <1>3 DEF Frame, l

(* One message more is one frame more. *)
LEMMA FramesAppend ==
  ASSUME NEW ms \in Seq(Payloads), NEW p \in Payloads
  PROVE  Frames(Append(ms, p)) = Frames(ms) \o Frame(p)
<1> DEFINE framed(m) == [i \in DOMAIN m |-> Frame(m[i])]
           t == Append(ms, p)
<1>1. /\ DOMAIN ms = 1 .. Len(ms) /\ Len(ms) \in Nat
      /\ DOMAIN t = 1 .. Len(ms) + 1 /\ t[Len(ms) + 1] = p
      /\ \A i \in 1 .. Len(ms) : t[i] = ms[i] /\ ms[i] \in Payloads
  BY AppendProperties
<1> HIDE DEF t
<1> DEFINE a == framed(ms)
           b == framed(t)
<1>2. a \in Seq(Seq(Bytes)) /\ Len(a) = Len(ms)
  <2>1. \A i \in 1 .. Len(ms) : Frame(ms[i]) \in Seq(Bytes)
    BY <1>1, FrameIs
  <2> DEFINE SB == Seq(Bytes)
  <2> HIDE DEF SB
  <2>2. \A i \in 1 .. Len(ms) : Frame(ms[i]) \in SB
    BY <2>1 DEF SB
  <2>3. a = [i \in 1 .. Len(ms) |-> Frame(ms[i])]
    BY <1>1
  <2>4. a \in Seq(SB) /\ Len(a) = Len(ms)
    BY <1>1, <2>2, <2>3
  <2> QED  BY <2>4 DEF SB
<1>3. Frame(p) \in Seq(Bytes)
  BY FrameIs
<1>4. b = Append(a, Frame(p))
  <2> DEFINE SB == Seq(Bytes)
             c == Append(a, Frame(p))
  <2>1. /\ DOMAIN c = 1 .. Len(ms) + 1 /\ c[Len(ms) + 1] = Frame(p)
        /\ \A i \in 1 .. Len(ms) : c[i] = a[i]
        /\ c = [i \in 1 .. Len(ms) + 1 |-> c[i]]
    <3> HIDE DEF a, SB
    <3>1. a \in Seq(SB) /\ Frame(p) \in SB
      BY <1>2, <1>3 DEF SB
    <3>2. /\ c \in Seq(SB) /\ Len(c) = Len(ms) + 1 /\ c[Len(ms) + 1] = Frame(p)
          /\ \A i \in 1 .. Len(ms) : c[i] = a[i]
      BY <1>2, <3>1, AppendProperties
    <3> HIDE DEF c
    <3> QED  BY <1>1, <3>2
  <2>2. \A i \in 1 .. Len(ms) : a[i] = Frame(ms[i])
    BY <1>1
  <2>3. \A i \in 1 .. Len(ms) + 1 : Frame(t[i]) = c[i]
    <3> HIDE DEF c, a
    <3>1. \A i \in 1 .. Len(ms) + 1 : i \in 1 .. Len(ms) \/ i = Len(ms) + 1
      BY <1>1
    <3> QED  BY <1>1, <2>1, <2>2, <3>1
  <2>4. b = [i \in 1 .. Len(ms) + 1 |-> Frame(t[i])]
    BY <1>1
  <2> HIDE DEF b, c
  <2>5. b = c
    BY <2>1, <2>3, <2>4
  <2> QED  BY <2>5 DEF c
<1>5. FlattenSeq(b) = FlattenSeq(a) \o Frame(p)
  <2> HIDE DEF a, b
  <2> QED  BY <1>2, <1>3, <1>4, FlattenAppend
<1> QED  BY <1>5 DEF Frames, t

LEMMA JoinAssociates ==
  ASSUME NEW s \in Seq(Bytes), NEW t \in Seq(Bytes), NEW u \in Seq(Bytes)
  PROVE  (s \o t) \o u = s \o (t \o u)
<1>1. \A S : \A a, b, c \in Seq(S) : (a \o b) \o c = a \o (b \o c)
  BY ConcatAssociative
<1> QED  BY <1>1

LEMMA FramesTyped ==
  /\ Frames(<< >>) = << >>
  /\ \A ms \in Seq(Payloads) : Frames(ms) \in Seq(Bytes)
<1>1. << >> \in Seq(Bytes) /\ << >> \in Seq(Seq(Bytes))
  OBVIOUS
<1>2. Frames(<< >>) = << >>
  <2>1. [i \in DOMAIN << >> |-> Frame(<< >>[i])] = << >>
    OBVIOUS
  <2>2. FlattenSeq(<< >>) = << >>
    BY <1>1, FlattenAppend
  <2> QED  BY ONLY <2>1, <2>2 DEF Frames
<1>3. ASSUME NEW ms \in Seq(Payloads) PROVE Frames(ms) \in Seq(Bytes)
  <2> DEFINE a == [i \in DOMAIN ms |-> Frame(ms[i])]
  <2>1. a \in Seq(Seq(Bytes))
    <3> DEFINE SB == Seq(Bytes)
    <3>1. \A i \in DOMAIN ms : ms[i] \in Payloads
      OBVIOUS
    <3>2. \A i \in DOMAIN ms : Frame(ms[i]) \in SB
      BY <3>1, FrameIs
    <3>3. DOMAIN ms = 1 .. Len(ms) /\ Len(ms) \in Nat
      OBVIOUS
    <3> HIDE DEF SB
    <3>4. a \in Seq(SB)
      BY <3>2, <3>3
    <3> QED  BY <3>4 DEF SB
  <2> HIDE DEF a
  <2>2. FlattenSeq(a) \in Seq(Bytes)
    BY <1>1, <2>1, FlattenAppend
  <2> QED  BY <2>2 DEF Frames, a
<1> QED  BY <1>2, <1>3

LEMMA BeginningGrows ==
  ASSUME NEW S, NEW ms \in Seq(S), NEW n \in Nat, n < Len(ms)
  PROVE  /\ SubSeq(ms, 1, n) \in Seq(S) /\ ms[n + 1] \in S
         /\ SubSeq(ms, 1, n + 1) = Append(SubSeq(ms, 1, n), ms[n + 1])
<1>1. n + 1 \in 1 .. Len(ms) /\ (n + 1) - 1 = n /\ 1 \in 1 .. Len(ms) /\ Len(ms) \in Nat
  OBVIOUS
<1>2. SubSeq(ms, 1, n) \in Seq(S) /\ ms[n + 1] \in S
  BY <1>1
<1>3. PICK m \in 1 .. Len(ms) : m = n + 1 /\ m - 1 = n
  BY <1>1
<1>4. SubSeq(ms, 1, m) = SubSeq(ms, 1, m - 1) \o << ms[m] >>
  BY <1>1, <1>3, SubSeqRecursiveSecond
<1> QED  BY <1>2, <1>3, <1>4, AppendIsConcat

(* The frames of a row of messages begin with those of its beginning, and  *)
(* with the next one.                                                      *)
LEMMA NextFrame ==
  ASSUME NEW ms \in Seq(Payloads), NEW n \in Nat, n < Len(ms)
  PROVE  \E rest \in Seq(Bytes) :
           Frames(ms) = Frames(SubSeq(ms, 1, n)) \o (Frame(ms[n + 1]) \o rest)
<1> DEFINE first == Frames(SubSeq(ms, 1, n))
           frame == Frame(ms[n + 1])
           T == {k \in 0 .. Len(ms) - (n + 1) : \E rest \in Seq(Bytes) :
                   Frames(SubSeq(ms, 1, n + 1 + k)) = first \o (frame \o rest)}
<1>1. /\ SubSeq(ms, 1, n) \in Seq(Payloads) /\ ms[n + 1] \in Payloads
      /\ SubSeq(ms, 1, n + 1) = Append(SubSeq(ms, 1, n), ms[n + 1])
  BY BeginningGrows
<1>2. /\ first \in Seq(Bytes) /\ frame \in Seq(Bytes)
      /\ Frames(SubSeq(ms, 1, n + 1)) = first \o frame
  BY <1>1, FramesTyped, FramesAppend, FrameIs
<1>3. Len(ms) \in Nat /\ Len(ms) - (n + 1) \in Nat
  OBVIOUS
<1> HIDE DEF first, frame
<1>4. 0 \in T
  <2>1. frame = frame \o << >> /\ << >> \in Seq(Bytes)
    BY <1>2
  <2>2. n + 1 + 0 = n + 1 /\ 0 \in 0 .. Len(ms) - (n + 1)
    BY <1>3
  <2>3. Frames(SubSeq(ms, 1, n + 1 + 0)) = first \o (frame \o << >>)
    BY ONLY <1>2, <2>1, <2>2
  <2> QED  BY <2>1, <2>2, <2>3
<1>5. ASSUME NEW k \in 0 .. (Len(ms) - (n + 1)) - 1, k \in T PROVE k + 1 \in T
  <2>1. PICK m \in Nat : m = n + 1 + k /\ m < Len(ms) /\ m + 1 = n + 1 + (k + 1)
    BY <1>3
  <2>2. PICK rest \in Seq(Bytes) : Frames(SubSeq(ms, 1, m)) = first \o (frame \o rest)
    BY <1>5, <2>1
  <2>3. /\ SubSeq(ms, 1, m) \in Seq(Payloads) /\ ms[m + 1] \in Payloads
        /\ SubSeq(ms, 1, m + 1) = Append(SubSeq(ms, 1, m), ms[m + 1])
    BY <2>1, BeginningGrows
  <2>4. PICK more \in Seq(Bytes) : more = Frame(ms[m + 1])
    BY <2>3, FrameIs
  <2>5. Frames(SubSeq(ms, 1, m + 1)) = (first \o (frame \o rest)) \o more
    BY <2>2, <2>3, <2>4, FramesAppend
  <2>6. /\ rest \o more \in Seq(Bytes) /\ frame \o rest \in Seq(Bytes)
        /\ (first \o (frame \o rest)) \o more = first \o ((frame \o rest) \o more)
        /\ (frame \o rest) \o more = frame \o (rest \o more)
    <3>1. rest \o more \in Seq(Bytes) /\ frame \o rest \in Seq(Bytes)
      BY <1>2
    <3>2. (first \o (frame \o rest)) \o more = first \o ((frame \o rest) \o more)
      BY <1>2, <3>1, JoinAssociates, ZenonT(30)
    <3>3. (frame \o rest) \o more = frame \o (rest \o more)
      BY <1>2, JoinAssociates
    <3> QED  BY <3>1, <3>2, <3>3
  <2>7. Frames(SubSeq(ms, 1, n + 1 + (k + 1))) = first \o (frame \o (rest \o more))
    BY <2>1, <2>5, <2>6
  <2>8. k + 1 \in 0 .. Len(ms) - (n + 1)
    BY <1>3
  <2> QED  BY <2>6, <2>7, <2>8
<1>6. Len(ms) - (n + 1) \in T
  <2>1. 0 .. Len(ms) - (n + 1) \subseteq T
    <3> HIDE DEF T
    <3> QED  BY <1>3, <1>4, <1>5, Induction
  <2> HIDE DEF T
  <2> QED  BY <1>3, <2>1
<1>7. n + 1 + (Len(ms) - (n + 1)) = Len(ms) /\ SubSeq(ms, 1, Len(ms)) = ms
  BY <1>3, SubSeqFull
<1> QED  BY <1>6, <1>7 DEF first, frame

-----------------------------------------------------------------------------
(* The stream: what was read, is in hand, and is ahead of the reader.      *)

LEMMA PrefixIs ==
  ASSUME NEW S, NEW s \in Seq(S), NEW t \in Seq(S)
  PROVE  IsPrefix(s, t) <=> \E rest \in Seq(S) : t = s \o rest
<1>1. Len(s) \in Nat /\ Len(t) \in Nat
  OBVIOUS
<1>2. ASSUME IsPrefix(s, t) PROVE \E rest \in Seq(S) : t = s \o rest
  <2>1. Len(s) <= Len(t) /\ SubSeq(t, 1, Len(s)) = s
    BY <1>2, SubSeqFull DEF IsPrefix
  <2> DEFINE rest == SubSeq(t, Len(s) + 1, Len(t))
  <2>2. rest \in Seq(S)
    BY <1>1
  <2>3. SubSeq(t, 1, Len(s)) \o SubSeq(t, Len(s) + 1, Len(t)) = SubSeq(t, 1, Len(t))
    <3>1. 1 \in 1 .. Len(t) + 1 /\ Len(s) \in (1 - 1) .. Len(t) /\ Len(t) \in Len(s) .. Len(t)
      BY <1>1, <2>1
    <3> QED  BY <3>1, ConcatAdjacentSubSeq
  <2>4. t = s \o rest
    BY <2>1, <2>3, SubSeqFull
  <2> QED  BY <2>2, <2>4
<1>3. ASSUME NEW rest \in Seq(S), t = s \o rest PROVE IsPrefix(s, t)
  <2>1. Len(t) = Len(s) + Len(rest) /\ Len(rest) \in Nat
    BY <1>3
  <2>2. \A i \in 1 .. Len(s) : t[i] = s[i]
    BY <1>3
  <2>3. SubSeq(t, 1, Len(s)) = s
    BY <1>1, <2>1, <2>2
  <2> QED  BY <1>1, <2>1, <2>3, SubSeqFull DEF IsPrefix
<1> QED  BY <1>2, <1>3

(* Splitting a sequence and joining the halves.                            *)
LEMMA Split ==
  ASSUME NEW s \in Seq(Bytes), NEW k \in 0 .. Len(s)
  PROVE  /\ SubSeq(s, 1, k) \in Seq(Bytes) /\ Len(SubSeq(s, 1, k)) = k
         /\ SubSeq(s, k + 1, Len(s)) \in Seq(Bytes)
         /\ s = SubSeq(s, 1, k) \o SubSeq(s, k + 1, Len(s))
<1>1. Len(s) \in Nat /\ SubSeq(s, 1, Len(s)) = s
  BY SubSeqFull
<1>2. /\ SubSeq(s, 1, k) \in Seq(Bytes) /\ Len(SubSeq(s, 1, k)) = k
      /\ SubSeq(s, k + 1, Len(s)) \in Seq(Bytes)
  BY <1>1
<1>3. 1 \in 1 .. Len(s) + 1 /\ k \in (1 - 1) .. Len(s) /\ Len(s) \in k .. Len(s)
  BY <1>1
<1>4. SubSeq(s, 1, k) \o SubSeq(s, k + 1, Len(s)) = SubSeq(s, 1, Len(s))
  BY <1>3, ConcatAdjacentSubSeq
<1> QED  BY <1>1, <1>2, <1>4

(* Two sequences of bytes, one behind the other.  The provers see \o       *)
(* element by element; Join keeps the algebra apart from that.             *)
Join(s, t) == s \o t

LEMMA JoinFacts ==
  /\ \A s, t \in Seq(Bytes) : Join(s, t) \in Seq(Bytes) /\ Len(Join(s, t)) = Len(s) + Len(t)
  /\ \A s, t, u \in Seq(Bytes) : Join(Join(s, t), u) = Join(s, Join(t, u))
  /\ \A s \in Seq(Bytes) : Join(s, << >>) = s /\ Join(<< >>, s) = s
  /\ << >> \in Seq(Bytes)
<1>1. \A s, t \in Seq(Bytes) : Join(s, t) \in Seq(Bytes) /\ Len(Join(s, t)) = Len(s) + Len(t)
  BY DEF Join
<1>2. \A s, t, u \in Seq(Bytes) : Join(Join(s, t), u) = Join(s, Join(t, u))
  BY JoinAssociates DEF Join
<1>3. \A s \in Seq(Bytes) : Join(s, << >>) = s /\ Join(<< >>, s) = s
  BY DEF Join
<1> QED  BY <1>1, <1>2, <1>3

(* What begins the same and is equally long is the same, and so is what    *)
(* follows.                                                                *)
LEMMA SameBeginning ==
  ASSUME NEW a \in Seq(Bytes), NEW b \in Seq(Bytes), NEW s \in Seq(Bytes), NEW t \in Seq(Bytes),
         Join(a, s) = Join(b, t), Len(a) = Len(b)
  PROVE  a = b /\ s = t
<1>1. a \o s = b \o t
  BY DEF Join
<1>2. \A i \in 1 .. Len(a) : (a \o s)[i] = a[i] /\ (b \o t)[i] = b[i]
  OBVIOUS
<1>3. \A i \in 1 .. Len(a) : a[i] = b[i]
  BY <1>1, <1>2
<1>4. a = b
  BY <1>3, SeqEqual
<1> QED  BY <1>1, <1>4, ConcatSimplifications

Unwritten == Join(push, Join(buf, FlattenSeq(calls)))
Ahead == Join(wire, Unwritten)

(* BytesInOrder, joined from the right.                                    *)
StreamIs(rest) == Frames(sent) = Join(Frames(received), Join(InHand, Join(Ahead, rest)))

WholeStream ==
  \E rest \in Seq(Bytes) : StreamIs(rest) /\ (rest # << >> => writer \in {"killed", "reset"})

LEMMA StreamTyped ==
  ASSUME TypeOK
  PROVE  /\ Frames(sent) \in Seq(Bytes) /\ Frames(received) \in Seq(Bytes)
         /\ InHand \in Seq(Bytes) /\ FlattenSeq(calls) \in Seq(Bytes)
         /\ Unwritten \in Seq(Bytes) /\ Ahead \in Seq(Bytes)
<1>1. Frames(sent) \in Seq(Bytes) /\ Frames(received) \in Seq(Bytes)
  BY FramesTyped DEF TypeOK
<1>2. InHand \in Seq(Bytes)
  <2>1. CASE need = Prefix
    BY <2>1 DEF InHand, TypeOK
  <2>2. CASE need # Prefix
    <3>1. LengthPrefix(need) \in Seq(Bytes) /\ part \in Seq(Bytes)
      BY <2>2, PrefixTyped DEF TypeOK
    <3>2. LengthPrefix(need) \o part \in Seq(Bytes)
      BY <3>1
    <3> QED  BY <2>2, <3>2 DEF InHand
  <2> QED  BY <2>1, <2>2
<1>3. FlattenSeq(calls) \in Seq(Bytes)
  <2>1. << >> \in Seq(Bytes)
    OBVIOUS
  <2> QED  BY <2>1, FlattenAppend DEF TypeOK
<1>4. Unwritten \in Seq(Bytes)
  BY <1>3, JoinFacts DEF TypeOK, Unwritten
<1>5. Ahead \in Seq(Bytes)
  BY <1>4, JoinFacts DEF TypeOK, Ahead
<1> QED  BY <1>1, <1>2, <1>3, <1>4, <1>5

LEMMA InOrder ==
  ASSUME TypeOK
  PROVE  BytesInOrder <=> IsPrefix(received, sent) /\ WholeStream
<1> DEFINE f == Frames(received)
           c == FlattenSeq(calls)
           all == Join(Join(Join(Join(Join(f, InHand), wire), push), buf), c)
           whole == Join(f, Join(InHand, Ahead))
<1>1. /\ Frames(sent) \in Seq(Bytes) /\ f \in Seq(Bytes) /\ c \in Seq(Bytes)
      /\ InHand \in Seq(Bytes) /\ Ahead \in Seq(Bytes)
      /\ wire \in Seq(Bytes) /\ push \in Seq(Bytes) /\ buf \in Seq(Bytes)
  BY StreamTyped DEF TypeOK
<1>2. all = f \o InHand \o wire \o push \o buf \o c
  BY DEF Join
<1>3. BytesInOrder <=>
        /\ IsPrefix(received, sent)
        /\ IF writer \in {"killed", "reset"} THEN IsPrefix(all, Frames(sent))
                                             ELSE all = Frames(sent)
  <2> HIDE DEF all
  <2> QED  BY <1>2 DEF BytesInOrder
<1> HIDE DEF f, c
<1>4. all = whole
  <2> DEFINE fi == Join(f, InHand)
             fiw == Join(fi, wire)
             fiwp == Join(fiw, push)
             bc == Join(buf, c)
             pbc == Join(push, bc)
  <2>1. fi \in Seq(Bytes) /\ bc \in Seq(Bytes)
    BY <1>1, JoinFacts
  <2>2. fiw \in Seq(Bytes) /\ pbc \in Seq(Bytes)
    BY <1>1, <2>1, JoinFacts
  <2>3. fiwp \in Seq(Bytes)
    BY <1>1, <2>2, JoinFacts
  <2> HIDE DEF fi, fiw, fiwp, bc, pbc
  <2>4. Join(Join(fiwp, buf), c) = Join(fiwp, bc)
    BY <1>1, <2>3, JoinFacts DEF bc
  <2>5. Join(fiwp, bc) = Join(fiw, pbc)
    BY <1>1, <2>1, <2>2, JoinFacts, SMTT(30) DEF fiwp, pbc
  <2>6. Join(fiw, pbc) = Join(fi, Join(wire, pbc))
    BY <1>1, <2>1, <2>2, JoinFacts, SMTT(30) DEF fiw
  <2>7. Join(fi, Join(wire, pbc)) = Join(f, Join(InHand, Join(wire, pbc)))
    BY <1>1, <2>2, JoinFacts DEF fi
  <2>8. Ahead = Join(wire, pbc)
    BY DEF Ahead, Unwritten, pbc, bc, c
  <2> QED  BY <2>4, <2>5, <2>6, <2>7, <2>8 DEF fi, fiw, fiwp
<1>5. whole \in Seq(Bytes)
  BY <1>1, JoinFacts
<1>6. ASSUME NEW rest \in Seq(Bytes) PROVE StreamIs(rest) <=> Frames(sent) = Join(whole, rest)
  <2>1. Join(InHand, Ahead) \in Seq(Bytes)
    BY <1>1, JoinFacts
  <2>2. Join(whole, rest) = Join(f, Join(Join(InHand, Ahead), rest))
    BY <1>1, <2>1, JoinFacts
  <2>3. Join(Join(InHand, Ahead), rest) = Join(InHand, Join(Ahead, rest))
    BY <1>1, JoinFacts
  <2> QED  BY <2>2, <2>3 DEF StreamIs, f
<1> HIDE DEF all, whole
<1>7. IsPrefix(whole, Frames(sent)) <=> \E rest \in Seq(Bytes) : StreamIs(rest)
  <2>1. IsPrefix(whole, Frames(sent)) <=> \E rest \in Seq(Bytes) : Frames(sent) = Join(whole, rest)
    BY <1>1, <1>5, PrefixIs DEF Join
  <2> QED  BY <1>6, <2>1
<1>8. Frames(sent) = whole <=> StreamIs(<< >>)
  BY <1>5, <1>6, JoinFacts
<1> QED  BY <1>3, <1>4, <1>7, <1>8, JoinFacts DEF WholeStream

-----------------------------------------------------------------------------
(* What the reader has when it has enough.                                 *)

LEMMA ReceivedIs ==
  ASSUME TypeOK, IsPrefix(received, sent)
  PROVE  /\ Len(received) \in Nat /\ Len(sent) \in Nat /\ Len(received) <= Len(sent)
         /\ received = SubSeq(sent, 1, Len(received))
<1>1. /\ Len(received) \in Nat /\ Len(sent) \in Nat /\ Len(received) <= Len(sent)
      /\ SubSeq(received, 1, Len(received)) = SubSeq(sent, 1, Len(received))
  BY DEF TypeOK, IsPrefix
<1>2. SubSeq(received, 1, Len(received)) = received
  BY SubSeqFull DEF TypeOK
<1> QED  BY <1>1, <1>2

(* What the reader has not finished is the next frame and the rest.        *)
LEMMA FrameAhead ==
  ASSUME TypeOK, IsPrefix(received, sent), NEW rest \in Seq(Bytes), StreamIs(rest),
         Len(received) < Len(sent)
  PROVE  LET p == sent[Len(received) + 1]
         IN  /\ p \in Payloads
             /\ \E more \in Seq(Bytes) :
                  Join(InHand, Join(Ahead, rest)) = Join(LengthPrefix(Len(p)), Join(p, more))
<1> DEFINE p == sent[Len(received) + 1]
           f == Frames(received)
           l == LengthPrefix(Len(p))
           x == Join(InHand, Join(Ahead, rest))
<1>1. /\ Len(received) \in Nat /\ received = SubSeq(sent, 1, Len(received))
  BY ReceivedIs
<1>2. p \in Payloads /\ sent \in Seq(Payloads)
  BY <1>1, BeginningGrows DEF TypeOK
<1>3. PICK more \in Seq(Bytes) : Frames(sent) = f \o (Frame(p) \o more)
  BY <1>1, <1>2, NextFrame
<1>4. /\ f \in Seq(Bytes) /\ x \in Seq(Bytes)
  BY StreamTyped, JoinFacts
<1>5. l \in Seq(Bytes) /\ p \in Seq(Bytes) /\ Frame(p) = Join(l, p)
  BY <1>2, FrameIs DEF Frame, Join
<1>6. Frames(sent) = Join(f, x)
  BY DEF StreamIs
<1> HIDE DEF p, f, l, x
<1>7. Frames(sent) = Join(f, Join(Join(l, p), more))
  BY <1>3, <1>5 DEF Join
<1>8. Join(Join(l, p), more) \in Seq(Bytes) /\ Join(Join(l, p), more) = Join(l, Join(p, more))
  BY <1>5, JoinFacts, SMTT(30)
<1>9. x = Join(Join(l, p), more)
  BY <1>4, <1>6, <1>7, <1>8, SameBeginning
<1> QED  BY <1>2, <1>8, <1>9 DEF p, l, x

(* A complete prefix is that of the next message, ...                      *)
LEMMA PrefixComplete ==
  ASSUME FramingInv, need = Prefix, Missing = 0
  PROVE  /\ Len(received) < Len(sent) /\ sent[Len(received) + 1] \in Payloads
         /\ part = LengthPrefix(Len(sent[Len(received) + 1]))
<1> DEFINE p == sent[Len(received) + 1]
           l == LengthPrefix(Len(p))
<1>1. TypeOK /\ IsPrefix(received, sent)
  BY InOrder DEF FramingInv
<1>2. PICK rest \in Seq(Bytes) : StreamIs(rest)
  BY <1>1, InOrder DEF FramingInv, WholeStream
<1>3. /\ part \in Seq(Bytes) /\ Len(part) = Width /\ InHand = part
      /\ Ahead \in Seq(Bytes) /\ Join(Ahead, rest) \in Seq(Bytes)
      /\ Frames(received) \in Seq(Bytes)
  <2>1. part \in Seq(Bytes) /\ Len(part) = Width
    BY <1>1, FramingAssumption DEF Missing, TypeOK
  <2>2. InHand = part
    BY DEF InHand
  <2> QED  BY <1>1, <2>1, <2>2, StreamTyped, JoinFacts
<1>4. Len(received) < Len(sent)
  <2> SUFFICES ASSUME ~ (Len(received) < Len(sent)) PROVE FALSE
    OBVIOUS
  <2>1. received = sent
    <3>1. Len(received) = Len(sent) /\ received = SubSeq(sent, 1, Len(received))
      BY <1>1, ReceivedIs
    <3> QED  BY <1>1, <3>1, SubSeqFull DEF TypeOK
  <2>2. Frames(received) = Join(Frames(received), Join(part, Join(Ahead, rest)))
    BY <1>2, <1>3, <2>1 DEF StreamIs
  <2> DEFINE z == Join(Ahead, rest)
             y == Join(part, z)
             f == Frames(received)
  <2>3. z \in Seq(Bytes) /\ f \in Seq(Bytes) /\ f = Join(f, y)
    BY <1>3, <2>2
  <2> HIDE DEF z, f
  <2>4. y \in Seq(Bytes) /\ Len(y) = Width + Len(z)
    BY <1>3, <2>3, JoinFacts
  <2> HIDE DEF y
  <2>5. Len(f) = Len(f) + Len(y)
    <3>1. f \in Seq(Bytes) /\ y \in Seq(Bytes)
      BY <2>3, <2>4
    <3>2. Len(Join(f, y)) = Len(f) + Len(y)
      BY ONLY <3>1, JoinFacts
    <3> QED  BY ONLY <2>3, <3>2
  <2>6. Len(f) \in Nat /\ Len(y) \in Nat /\ Len(z) \in Nat
    BY <2>3, <2>4
  <2> QED  BY <2>4, <2>5, <2>6, FramingAssumption
<1>5. PICK more \in Seq(Bytes) :
        p \in Payloads /\ Join(part, Join(Ahead, rest)) = Join(l, Join(p, more))
  BY <1>1, <1>2, <1>3, <1>4, FrameAhead
<1>6. l \in Seq(Bytes) /\ Len(l) = Width /\ p \in Seq(Bytes) /\ Join(p, more) \in Seq(Bytes)
  BY <1>5, FrameIs, JoinFacts
<1> HIDE DEF p, l
<1>7. part = l
  BY <1>3, <1>5, <1>6, SameBeginning
<1> QED  BY <1>4, <1>5, <1>7 DEF p, l

(* ... and as many bytes as it says are that message.                      *)
LEMMA MessageComplete ==
  ASSUME FramingInv, need # Prefix, Missing = 0
  PROVE  /\ Len(received) < Len(sent) /\ sent[Len(received) + 1] \in Payloads
         /\ part = sent[Len(received) + 1]
<1> DEFINE p == sent[Len(received) + 1]
           l == LengthPrefix(Len(p))
<1>1. TypeOK /\ IsPrefix(received, sent)
  BY InOrder DEF FramingInv
<1>2. PICK rest \in Seq(Bytes) : StreamIs(rest)
  BY <1>1, InOrder DEF FramingInv, WholeStream
<1>3. Len(received) < Len(sent) /\ need = Len(p)
  BY DEF FramingInv, ReaderAgrees
<1>4. PICK more \in Seq(Bytes) :
        p \in Payloads /\ Join(InHand, Join(Ahead, rest)) = Join(l, Join(p, more))
  BY <1>1, <1>2, <1>3, FrameAhead
<1>5. /\ part \in Seq(Bytes) /\ Len(part) = Len(p) /\ InHand = Join(l, part)
      /\ Ahead \in Seq(Bytes) /\ Join(Ahead, rest) \in Seq(Bytes)
  <2>1. part \in Seq(Bytes) /\ Len(part) = need
    BY <1>1 DEF Missing, TypeOK
  <2>2. InHand = Join(l, part)
    BY <1>3 DEF InHand, Join
  <2> QED  BY <1>1, <1>3, <2>1, <2>2, StreamTyped, JoinFacts
<1>6. l \in Seq(Bytes) /\ p \in Seq(Bytes) /\ Join(p, more) \in Seq(Bytes)
  BY <1>4, FrameIs, JoinFacts
<1> HIDE DEF p, l
<1>7. Join(InHand, Join(Ahead, rest)) = Join(l, Join(part, Join(Ahead, rest)))
  BY <1>5, <1>6, JoinFacts
<1>8. Join(part, Join(Ahead, rest)) \in Seq(Bytes)
  BY <1>5, JoinFacts
<1>9. Join(part, Join(Ahead, rest)) = Join(p, more)
  <2> DEFINE s == Join(part, Join(Ahead, rest))
             t == Join(p, more)
  <2>1. Join(l, s) = Join(l, t) /\ s \in Seq(Bytes) /\ t \in Seq(Bytes)
    BY <1>4, <1>6, <1>7, <1>8
  <2> HIDE DEF s, t
  <2>2. s = t
    BY <1>6, <2>1, SameBeginning
  <2> QED  BY <2>2 DEF s, t
<1>10. part = p
  BY <1>5, <1>6, <1>9, SameBeginning
<1> QED  BY <1>3, <1>4, <1>10 DEF p

-----------------------------------------------------------------------------
(* Types, and what the writer holds back.                                  *)

LEMMA StepTypes == ASSUME FramingInv, [Next]_vars PROVE TypeOK'
<1> USE DEF FramingInv, TypeOK
<1>1. CASE UNCHANGED vars \/ Over
  BY <1>1 DEF vars, writing, reading, Over
<1>2. ASSUME NEW p \in Payloads, WriteMessage(p) PROVE TypeOK'
  <2>1. LengthPrefix(Len(p)) \in Seq(Bytes) /\ p \in Seq(Bytes)
    BY FrameIs
  <2>2. <<LengthPrefix(Len(p)), p>> \in Seq(Seq(Bytes)) /\ Len(<<LengthPrefix(Len(p)), p>>) <= 2
    <3> DEFINE SB == Seq(Bytes)
               l == LengthPrefix(Len(p))
    <3>1. l \in SB /\ p \in SB
      BY <2>1
    <3> HIDE DEF SB, l
    <3>2. <<l, p>> \in Seq(SB) /\ Len(<<l, p>>) <= 2
      BY <3>1
    <3> QED  BY <3>2 DEF SB, l
  <2>3. Append(sent, p) \in Seq(Payloads)
    OBVIOUS
  <2> QED  BY <1>2, <2>2, <2>3 DEF WriteMessage, reading
<1>3. CASE MakeRoom
  BY <1>3 DEF MakeRoom, CanWrite, reading
<1>4. CASE WritePiece
  <2>1. calls # << >> /\ calls' = Tail(calls)
    BY <1>4 DEF WritePiece
  <2>2. Head(calls) \in Seq(Bytes) /\ Tail(calls) \in Seq(Seq(Bytes)) /\ Len(Tail(calls)) <= 2
    <3> DEFINE SB == Seq(Bytes)
    <3>1. calls \in Seq(SB) /\ Len(calls) <= 2 /\ calls # << >>
      BY <2>1
    <3> HIDE DEF SB
    <3>2. Head(calls) \in SB /\ Tail(calls) \in Seq(SB) /\ Len(Tail(calls)) <= 2
      BY <3>1, HeadTailProperties
    <3> QED  BY <3>2 DEF SB
  <2>3. buf \o Head(calls) \in Seq(Bytes)
    BY <2>2
  <2>4. buf' \in Seq(Bytes) /\ push' \in Seq(Bytes)
    BY <1>4, <2>2, <2>3 DEF WritePiece
  <2> QED  BY <1>4, <2>2, <2>4 DEF WritePiece, reading
<1>5. ASSUME NEW k \in 1 .. WireCap, KernelTakes(k) PROVE TypeOK'
  <2>1. k \in 0 .. Len(push)
    BY <1>5, FramingAssumption DEF KernelTakes
  <2>2. SubSeq(push, 1, k) \in Seq(Bytes) /\ SubSeq(push, k + 1, Len(push)) \in Seq(Bytes)
    BY <2>1, Split
  <2>3. wire \o SubSeq(push, 1, k) \in Seq(Bytes)
    BY <2>2
  <2> QED  BY <1>5, <2>2, <2>3 DEF KernelTakes, writing, reading
<1>6. CASE Flush \/ Finish
  <2>1. << >> \in Seq(Bytes)
    OBVIOUS
  <2>2. CASE Flush
    BY <2>1, <2>2 DEF Flush, writing, reading
  <2>3. CASE Finish
    BY <2>3 DEF Finish, writing, reading
  <2> QED  BY <1>6, <2>2, <2>3
<1>7. CASE Cut
  <2>1. \A s \in Prefixes(wire) : s \in Seq(Bytes)
    <3> TAKE s \in Prefixes(wire)
    <3>1. PICK l \in 0 .. Len(wire) : s = SubSeq(wire, 1, l)
      BY DEF Prefixes
    <3> QED  BY <3>1, Split
  <2>2. wire' \in Seq(Bytes)
    BY <1>7, <2>1 DEF Cut
  <2>3. << >> \in Seq(Bytes) /\ << >> \in Seq(Seq(Bytes)) /\ Len(<< >>) = 0
    OBVIOUS
  <2> QED  BY <1>7, <2>2, <2>3 DEF Cut, reading
<1>8. ASSUME NEW k \in 1 .. WireCap, Read(k) PROVE TypeOK'
  <2>1. k \in 0 .. Len(wire)
    BY <1>8, FramingAssumption DEF Read
  <2>2. SubSeq(wire, 1, k) \in Seq(Bytes) /\ SubSeq(wire, k + 1, Len(wire)) \in Seq(Bytes)
    BY <2>1, Split
  <2>3. part \o SubSeq(wire, 1, k) \in Seq(Bytes)
    BY <2>2
  <2> QED  BY <1>8, <2>2, <2>3 DEF Read, writing
<1>9. CASE PrefixRead
  <2>1. PICK p \in Payloads : part = LengthPrefix(Len(p))
    BY <1>9, PrefixComplete DEF PrefixRead
  <2>2. need' \in Nat
    BY <1>9, <2>1, FrameIs DEF PrefixRead
  <2>3. << >> \in Seq(Bytes)
    OBVIOUS
  <2> QED  BY <1>9, <2>2, <2>3 DEF PrefixRead, writing
<1>10. CASE MessageRead
  <2>1. part \in Payloads
    BY <1>10, MessageComplete DEF MessageRead
  <2>2. Append(received, part) \in Seq(Payloads)
    BY <2>1
  <2> QED  BY <1>10, <2>2 DEF MessageRead, writing
<1>11. CASE ReadFails
  BY <1>11 DEF ReadFails, writing
<1> QED
  BY <1>1, <1>2, <1>3, <1>4, <1>5, <1>6, <1>7, <1>8, <1>9, <1>10, <1>11
     DEF Next, WriterStep, ReaderStep

LEMMA StepWriter == ASSUME FramingInv, [Next]_vars PROVE WriterAgrees'
<1> USE DEF FramingInv, WriterAgrees
<1>1. CASE UNCHANGED vars \/ Over \/ PrefixRead \/ MessageRead \/ ReadFails
  BY <1>1 DEF vars, writing, reading, Over, PrefixRead, MessageRead, ReadFails
<1>2. CASE \E k \in 1 .. WireCap : Read(k)
  BY <1>2 DEF Read, writing
<1>3. CASE \E p \in Payloads : WriteMessage(p)
  BY <1>3 DEF WriteMessage, CanWrite
<1>4. CASE MakeRoom \/ WritePiece \/ Flush \/ Finish \/ Cut
  BY <1>4 DEF MakeRoom, WritePiece, Flush, Finish, Cut, CanWrite, writing
<1>5. CASE \E k \in 1 .. WireCap : KernelTakes(k)
  BY <1>5 DEF KernelTakes, writing
<1> QED  BY <1>1, <1>2, <1>3, <1>4, <1>5 DEF Next, WriterStep, ReaderStep

-----------------------------------------------------------------------------
(* The reader.                                                             *)

LEMMA StepReader == ASSUME FramingInv, [Next]_vars PROVE ReaderAgrees'
<1>1. TypeOK /\ TypeOK' /\ ReaderAgrees /\ IsPrefix(received, sent)
  BY StepTypes, InOrder DEF FramingInv
<1>2. Len(received) \in Nat /\ Len(sent) \in Nat /\ Len(received) <= Len(sent)
  BY <1>1, ReceivedIs
<1>3. CASE UNCHANGED <<sent, reading>> /\ result = "reading"
  BY <1>1, <1>3 DEF ReaderAgrees, Missing, reading
<1>4. CASE UNCHANGED vars \/ Over
  BY <1>1, <1>4 DEF ReaderAgrees, Missing, vars, writing, reading, Over
<1>5. ASSUME NEW p \in Payloads, WriteMessage(p) PROVE ReaderAgrees'
  <2>1. /\ sent' = Append(sent, p) /\ UNCHANGED <<writer, wire, reading>>
    BY <1>5 DEF WriteMessage
  <2>2. /\ \A i \in 1 .. Len(sent) : sent'[i] = sent[i]
        /\ Len(sent') = Len(sent) + 1
    BY <1>1, <2>1 DEF TypeOK
  <2>3. need # Prefix => Len(received) + 1 \in 1 .. Len(sent)
    BY <1>1, <1>2 DEF ReaderAgrees
  <2> QED  BY <1>1, <1>2, <2>1, <2>2, <2>3 DEF ReaderAgrees, Missing, reading
<1>6. CASE MakeRoom \/ WritePiece \/ Flush \/ Finish
  BY <1>1, <1>6
     DEF MakeRoom, WritePiece, Flush, Finish, CanWrite, ReaderAgrees, Missing, writing, reading
<1>7. CASE \E k \in 1 .. WireCap : KernelTakes(k)
  BY <1>1, <1>7 DEF KernelTakes, ReaderAgrees, Missing, writing, reading
<1>8. CASE Cut
  BY <1>1, <1>8 DEF Cut, ReaderAgrees, Missing, reading
<1>9. ASSUME NEW k \in 1 .. WireCap, Read(k) PROVE ReaderAgrees'
  <2>1. /\ result = "reading" /\ k <= Missing /\ k \in 0 .. Len(wire)
        /\ part' = part \o SubSeq(wire, 1, k)
        /\ UNCHANGED <<sent, need, received, result>>
    BY <1>1, <1>9, FramingAssumption DEF Read, writing
  <2>2. Len(part') = Len(part) + k
    <3>1. SubSeq(wire, 1, k) \in Seq(Bytes) /\ Len(SubSeq(wire, 1, k)) = k
      BY <1>1, <2>1, Split DEF TypeOK
    <3>2. part \in Seq(Bytes)
      BY <1>1 DEF TypeOK
    <3> QED  BY <2>1, <3>1, <3>2, ConcatProperties
  <2>3. Len(part) \in Nat /\ k \in Nat /\ Width \in Nat
    BY <1>1, <2>1, FramingAssumption DEF TypeOK
  <2>4. Missing' >= 0
    BY <1>1, <2>1, <2>2, <2>3 DEF Missing, TypeOK
  <2> QED  BY <1>1, <2>1, <2>4 DEF ReaderAgrees
<1>10. CASE PrefixRead
  <2>1. /\ Len(received) < Len(sent) /\ sent[Len(received) + 1] \in Payloads
        /\ part = LengthPrefix(Len(sent[Len(received) + 1]))
    BY <1>10, PrefixComplete DEF PrefixRead
  <2>2. /\ need' = Len(sent[Len(received) + 1]) /\ need' \in Nat
        /\ part' = << >> /\ UNCHANGED <<sent, received, result>>
    BY <1>10, <2>1, FrameIs DEF PrefixRead, writing
  <2>3. Missing = 0
    BY <1>10 DEF PrefixRead
  <2>4. Missing' >= 0
    BY <2>2 DEF Missing, Prefix
  <2>5. result' = "reading"
    BY <1>1, <2>2, <2>3 DEF ReaderAgrees, TypeOK
  <2> QED  BY <2>1, <2>2, <2>4, <2>5 DEF ReaderAgrees
<1>11. CASE MessageRead
  <2>1. need' = Prefix /\ part' = << >> /\ result' = result /\ Missing = 0
    BY <1>11 DEF MessageRead
  <2>2. Missing' >= 0
    BY <2>1, FramingAssumption DEF Missing
  <2>3. result' = "reading"
    BY <1>1, <2>1 DEF ReaderAgrees
  <2> QED  BY <2>1, <2>2, <2>3 DEF ReaderAgrees
<1>12. CASE ReadFails
  BY <1>1, <1>12 DEF ReadFails, ReaderAgrees, Missing, writing
<1> QED
  BY <1>4, <1>5, <1>6, <1>7, <1>8, <1>9, <1>10, <1>11, <1>12 DEF Next, WriterStep, ReaderStep

-----------------------------------------------------------------------------
(* The stream moves on.                                                    *)

(* The calls of write_all for one message are at most two.                 *)
LEMMA ShortTail ==
  ASSUME NEW S, NEW ss \in Seq(S), ss # << >>
  PROVE  /\ Len(ss) \in Nat \ {0} /\ Head(ss) \in S /\ Tail(ss) \in Seq(S)
         /\ Len(ss) = 1 => ss = <<Head(ss)>> /\ Tail(ss) = << >>
         /\ Len(ss) = 2 => ss = <<Head(ss), ss[2]>> /\ Tail(ss) = <<ss[2]>> /\ ss[2] \in S
<1> DEFINE t == Tail(ss)
<1>1. Len(ss) \in Nat \ {0}
  BY EmptySeq
<1>2. /\ Head(ss) \in S /\ t \in Seq(S) /\ Len(t) = Len(ss) - 1
      /\ \A i \in 1 .. Len(t) : t[i] = ss[i + 1]
  BY HeadTailProperties
<1>3. /\ Len(ss) = 1 => ss = <<Head(ss)>>
      /\ Len(ss) = 2 => ss = <<Head(ss), ss[2]>> /\ ss[2] \in S
  OBVIOUS
<1> HIDE DEF t
<1>4. Len(ss) = 1 => t = << >>
  BY <1>1, <1>2, EmptySeq
<1>5. Len(ss) = 2 => t = <<ss[2]>>
  <2> SUFFICES ASSUME Len(ss) = 2 PROVE t = <<ss[2]>>
    OBVIOUS
  <2>1. t \in Seq(S) /\ Len(t) = 1 /\ t[1] = ss[2]
    BY <1>2
  <2> QED  BY <2>1
<1> QED  BY <1>1, <1>2, <1>3, <1>4, <1>5 DEF t

LEMMA ShortAppend ==
  ASSUME NEW S, NEW a \in S, NEW b \in S
  PROVE  /\ << >> \in Seq(S) /\ <<a>> \in Seq(S)
         /\ Append(<<a>>, b) = <<a, b>> /\ Append(<< >>, b) = <<b>>
<1> DEFINE t == Append(<<a>>, b)
<1>1. << >> \in Seq(S) /\ <<a>> \in Seq(S) /\ Len(<<a>>) = 1 /\ <<a>>[1] = a
  OBVIOUS
<1>2. t \in Seq(S) /\ Len(t) = 2 /\ t[1] = a /\ t[2] = b
  BY <1>1, AppendProperties
<1> HIDE DEF t
<1>3. t = <<a, b>>
  BY <1>2
<1>4. Append(<< >>, b) = <<b>>
  BY <1>1
<1> QED  BY <1>1, <1>3, <1>4 DEF t

LEMMA CallsInOrder ==
  ASSUME NEW ss \in Seq(Seq(Bytes)), Len(ss) <= 2, ss # << >>
  PROVE  /\ Head(ss) \in Seq(Bytes) /\ FlattenSeq(Tail(ss)) \in Seq(Bytes)
         /\ FlattenSeq(ss) = Join(Head(ss), FlattenSeq(Tail(ss)))
<1> DEFINE SB == Seq(Bytes)
           a == Head(ss)
           none == << >>
<1>1. ss \in Seq(SB) /\ none \in SB /\ none \in Seq(SB)
  OBVIOUS
<1>2. \A tt \in Seq(SB), s \in SB : FlattenSeq(Append(tt, s)) = Join(FlattenSeq(tt), s)
  BY FlattenAppend DEF Join
<1>3. FlattenSeq(none) = none
  BY <1>1, FlattenAppend
<1>4. \A s \in SB : Join(none, s) = s /\ Join(s, none) = s
  BY JoinFacts
<1> HIDE DEF SB, none
<1>5. \A s \in SB : FlattenSeq(<<s>>) = s
  <2> TAKE s \in SB
  <2>1. Append(none, s) = <<s>>
    BY ShortAppend DEF none
  <2>2. FlattenSeq(Append(none, s)) = Join(FlattenSeq(none), s)
    BY <1>1, <1>2
  <2> QED  BY <1>3, <1>4, <2>1, <2>2
<1>6. /\ Len(ss) \in {1, 2} /\ a \in SB
      /\ Len(ss) = 1 => ss = <<a>> /\ Tail(ss) = none
      /\ Len(ss) = 2 => ss = <<a, ss[2]>> /\ Tail(ss) = <<ss[2]>> /\ ss[2] \in SB
  <2>1. Len(ss) \in Nat \ {0}
    BY <1>1, ShortTail
  <2>2. Len(ss) \in {1, 2}
    <3>1. \A n \in Nat \ {0} : n <= 2 => n \in {1, 2}
      OBVIOUS
    <3>2. Len(ss) <= 2
      OBVIOUS
    <3> QED  BY ONLY <2>1, <3>1, <3>2
  <2>3. /\ Head(ss) \in SB
        /\ Len(ss) = 1 => ss = <<Head(ss)>> /\ Tail(ss) = << >>
        /\ Len(ss) = 2 => ss = <<Head(ss), ss[2]>> /\ Tail(ss) = <<ss[2]>> /\ ss[2] \in SB
    BY <1>1, ShortTail
  <2> QED  BY <2>2, <2>3 DEF none
<1> HIDE DEF a
<1>7. CASE Len(ss) = 1
  <2>1. FlattenSeq(ss) = Join(a, none) /\ FlattenSeq(Tail(ss)) = none
    BY <1>3, <1>4, <1>5, <1>6, <1>7
  <2> QED  BY <1>1, <1>6, <2>1 DEF SB, a
<1>8. CASE Len(ss) = 2
  <2> DEFINE b == ss[2]
  <2>1. ss = <<a, b>> /\ Tail(ss) = <<b>> /\ b \in SB
    BY <1>6, <1>8
  <2> HIDE DEF b
  <2>2. FlattenSeq(Append(<<a>>, b)) = Join(FlattenSeq(<<a>>), b) /\ Append(<<a>>, b) = <<a, b>>
    <3>1. <<a>> \in Seq(SB) /\ Append(<<a>>, b) = <<a, b>>
      BY <1>6, <2>1, ShortAppend
    <3> QED  BY <1>2, <2>1, <3>1
  <2>3. FlattenSeq(ss) = Join(a, b) /\ FlattenSeq(Tail(ss)) = b
    BY ONLY <1>5, <1>6, <2>1, <2>2
  <2> QED  BY <1>6, <2>1, <2>3 DEF SB, a
<1> QED  BY <1>6, <1>7, <1>8

(* What is on its way leaves one place for the next.                       *)
LEMMA StreamPartsTyped == TypeOK => InHand \in Seq(Bytes) /\ Ahead \in Seq(Bytes)
BY StreamTyped

LEMMA StreamMoves ==
  ASSUME TypeOK, TypeOK', WholeStream, UNCHANGED <<sent, received>>,
         Join(InHand, Ahead)' = Join(InHand, Ahead),
         writer \in {"killed", "reset"} => writer' \in {"killed", "reset"}
  PROVE  WholeStream'
<1>1. PICK rest \in Seq(Bytes) :
        StreamIs(rest) /\ (rest # << >> => writer \in {"killed", "reset"})
  BY DEF WholeStream
<1>2. /\ InHand \in Seq(Bytes) /\ Ahead \in Seq(Bytes)
      /\ InHand' \in Seq(Bytes) /\ Ahead' \in Seq(Bytes)
  <2>1. TypeOK => InHand \in Seq(Bytes) /\ Ahead \in Seq(Bytes)
    BY StreamTyped
  <2>2. (TypeOK => InHand \in Seq(Bytes) /\ Ahead \in Seq(Bytes))'
    BY StreamPartsTyped, PTL
  <2> QED  BY <2>1, <2>2
<1>3. Join(InHand, Join(Ahead, rest)) = Join(Join(InHand, Ahead), rest)
  BY <1>1, <1>2, JoinFacts
<1>4. Join(InHand', Join(Ahead', rest)) = Join(Join(InHand', Ahead'), rest)
  BY <1>1, <1>2, JoinFacts
<1>5. Join(InHand', Ahead') = Join(InHand, Ahead)
  OBVIOUS
<1>6. Frames(sent') = Frames(sent) /\ Frames(received') = Frames(received)
  OBVIOUS
<1>7. Frames(sent') = Join(Frames(received'), Join(InHand', Join(Ahead', rest)))
  BY <1>1, <1>3, <1>4, <1>5, <1>6 DEF StreamIs
<1> QED  BY <1>1, <1>7 DEF WholeStream, StreamIs

(* From the calls through the buffer and a blocked write to the kernel.    *)
LEMMA WriterMoves ==
  ASSUME FramingInv,
         MakeRoom \/ WritePiece \/ Flush \/ Finish \/ \E k \in 1 .. WireCap : KernelTakes(k)
  PROVE  Ahead' = Ahead
<1> DEFINE c == FlattenSeq(calls)
<1>1. /\ wire \in Seq(Bytes) /\ push \in Seq(Bytes) /\ buf \in Seq(Bytes) /\ c \in Seq(Bytes)
      /\ << >> \in Seq(Bytes)
  BY StreamTyped, JoinFacts DEF FramingInv, TypeOK
<1>2. CASE MakeRoom
  <2>1. push = << >> /\ push' = buf /\ buf' = << >> /\ wire' = wire /\ calls' = calls
    BY <1>2 DEF MakeRoom, CanWrite
  <2>2. Join(<< >>, Join(buf, c)) = Join(buf, Join(<< >>, c))
    BY <1>1, JoinFacts
  <2>3. FlattenSeq(calls') = c
    BY <2>1
  <2> HIDE DEF c
  <2>4. Ahead' = Join(wire, Join(buf, Join(<< >>, c)))
    BY <2>1, <2>3 DEF Ahead, Unwritten
  <2>5. Ahead = Join(wire, Join(<< >>, Join(buf, c)))
    BY <2>1 DEF Ahead, Unwritten, c
  <2> QED  BY <2>2, <2>4, <2>5
<1>3. CASE Flush
  <2>1. push = << >> /\ push' = buf /\ buf' = << >> /\ wire' = wire /\ calls' = calls
    BY <1>3 DEF Flush, CanWrite
  <2>2. Join(<< >>, Join(buf, c)) = Join(buf, Join(<< >>, c))
    BY <1>1, JoinFacts
  <2>3. FlattenSeq(calls') = c
    BY <2>1
  <2> HIDE DEF c
  <2>4. Ahead' = Join(wire, Join(buf, Join(<< >>, c)))
    BY <2>1, <2>3 DEF Ahead, Unwritten
  <2>5. Ahead = Join(wire, Join(<< >>, Join(buf, c)))
    BY <2>1 DEF Ahead, Unwritten, c
  <2> QED  BY <2>2, <2>4, <2>5
<1>4. CASE Finish
  BY <1>4 DEF Finish, writing, Ahead, Unwritten
<1>5. ASSUME NEW k \in 1 .. WireCap, KernelTakes(k) PROVE Ahead' = Ahead
  <2> DEFINE a == SubSeq(push, 1, k)
             b == SubSeq(push, k + 1, Len(push))
             u == Join(buf, c)
  <2>1. k \in 0 .. Len(push)
    BY <1>1, <1>5, FramingAssumption DEF KernelTakes
  <2>2. a \in Seq(Bytes) /\ b \in Seq(Bytes) /\ push = Join(a, b) /\ u \in Seq(Bytes)
    BY <1>1, <2>1, Split, JoinFacts DEF Join
  <2>3. wire' = Join(wire, a) /\ push' = b /\ buf' = buf /\ calls' = calls
    BY <1>5 DEF KernelTakes, writing, Join
  <2>4. Unwritten' = Join(b, u) /\ Unwritten = Join(push, u)
    BY <2>3 DEF Unwritten
  <2> HIDE DEF a, b, u
  <2>5. Ahead' = Join(Join(wire, a), Join(b, u)) /\ Ahead = Join(wire, Join(Join(a, b), u))
    BY <2>2, <2>3, <2>4 DEF Ahead
  <2>6. Join(Join(wire, a), Join(b, u)) = Join(wire, Join(a, Join(b, u)))
    BY <1>1, <2>2, JoinFacts
  <2>7. Join(Join(a, b), u) = Join(a, Join(b, u))
    BY <2>2, JoinFacts
  <2> QED  BY <2>5, <2>6, <2>7
<1>6. CASE WritePiece
  <2> DEFINE h == Head(calls)
             t == FlattenSeq(Tail(calls))
  <2>1. h \in Seq(Bytes) /\ t \in Seq(Bytes) /\ c = Join(h, t)
    BY <1>6, CallsInOrder DEF WritePiece, FramingInv, TypeOK
  <2>2. /\ push = << >> /\ wire' = wire /\ FlattenSeq(calls') = t
        /\ \/ buf' = Join(buf, h) /\ push' = << >>
           \/ buf' = buf /\ buf = << >> /\ push' = h
    <3>1. push = << >> /\ wire' = wire /\ calls' = Tail(calls)
      BY <1>6 DEF WritePiece, CanWrite
    <3>2. CASE Len(Head(calls)) < capacity
      BY <1>6, <3>1, <3>2 DEF WritePiece, Join
    <3>3. CASE ~ (Len(Head(calls)) < capacity)
      <4>1. buf' = buf /\ push' = h
        BY <1>6, <3>3 DEF WritePiece
      <4>2. Len(buf) \in Nat /\ capacity \in Nat /\ Len(h) \in Nat
        BY <1>1, <2>1 DEF FramingInv, TypeOK
      <4>3. Len(h) <= capacity - Len(buf) \/ buf = << >>
        BY <1>6 DEF WritePiece, Spare
      <4>4. Len(buf) = 0 \/ buf = << >>
        BY <3>3, <4>2, <4>3
      <4>5. buf = << >>
        BY <1>1, <4>4, EmptySeq
      <4> QED  BY <3>1, <4>1, <4>5
    <3> QED  BY <3>2, <3>3
  <2> HIDE DEF h, t
  <2>3. Ahead = Join(wire, Join(<< >>, Join(buf, Join(h, t))))
    BY <2>1, <2>2 DEF Ahead, Unwritten
  <2>4. Ahead' = Join(wire, Join(push', Join(buf', t)))
    BY <2>2 DEF Ahead, Unwritten
  <2> HIDE DEF c
  <2>5. CASE buf' = Join(buf, h) /\ push' = << >>
    <3>1. Join(buf, Join(h, t)) = Join(Join(buf, h), t)
      BY <1>1, <2>1, JoinFacts
    <3> QED  BY <2>3, <2>4, <2>5, <3>1
  <2>6. CASE buf' = buf /\ buf = << >> /\ push' = h
    <3>1. Join(<< >>, Join(<< >>, Join(h, t))) = Join(h, Join(<< >>, t))
      BY <1>1, <2>1, JoinFacts
    <3> QED  BY <2>3, <2>4, <2>6, <3>1
  <2> QED  BY <2>2, <2>5, <2>6
<1> QED  BY <1>2, <1>3, <1>4, <1>5, <1>6

(* From the kernel into the reader's hand.                                 *)
LEMMA ReaderTakes ==
  ASSUME FramingInv, NEW k \in 1 .. WireCap, Read(k)
  PROVE  Join(InHand, Ahead)' = Join(InHand, Ahead)
<1> DEFINE a == SubSeq(wire, 1, k)
           b == SubSeq(wire, k + 1, Len(wire))
           u == Unwritten
           l == LengthPrefix(need)
<1>1. /\ wire \in Seq(Bytes) /\ part \in Seq(Bytes) /\ u \in Seq(Bytes)
      /\ InHand \in Seq(Bytes) /\ (need # Prefix => l \in Seq(Bytes))
  BY StreamTyped, PrefixTyped DEF FramingInv, TypeOK
<1>2. k \in 0 .. Len(wire)
  BY <1>1, FramingAssumption DEF Read
<1>3. a \in Seq(Bytes) /\ b \in Seq(Bytes) /\ wire = Join(a, b)
  BY <1>1, <1>2, Split DEF Join
<1>4. part' = Join(part, a) /\ wire' = b /\ need' = need /\ Unwritten' = u
  BY DEF Read, writing, Unwritten, Join
<1> HIDE DEF a, b, u
<1>5. InHand' = Join(InHand, a)
  <2>1. CASE need = Prefix
    BY <1>4, <2>1 DEF InHand
  <2>2. CASE need # Prefix
    <3>1. InHand = Join(l, part) /\ InHand' = Join(l, Join(part, a))
      BY <1>4, <2>2 DEF InHand, Join
    <3> HIDE DEF l
    <3> QED  BY <1>1, <1>3, <2>2, <3>1, JoinFacts
  <2> QED  BY <2>1, <2>2
<1>6. Ahead = Join(Join(a, b), u) /\ Ahead' = Join(b, u)
  BY <1>3, <1>4 DEF Ahead, u
<1>7. Join(Join(InHand, a), Join(b, u)) = Join(InHand, Join(a, Join(b, u)))
  BY <1>1, <1>3, JoinFacts
<1>8. Join(Join(a, b), u) = Join(a, Join(b, u))
  BY <1>1, <1>3, JoinFacts
<1> QED  BY <1>5, <1>6, <1>7, <1>8

LEMMA StepWhole ==
  ASSUME FramingInv, [Next]_vars
  PROVE  WholeStream'
<1>1. TypeOK /\ TypeOK' /\ IsPrefix(received, sent) /\ WholeStream
  BY StepTypes, InOrder DEF FramingInv
<1>2. CASE UNCHANGED vars \/ Over
  <2>1. UNCHANGED vars
    BY <1>2 DEF Over
  <2>2. Join(InHand, Ahead)' = Join(InHand, Ahead)
    BY <2>1 DEF vars, writing, reading, InHand, Ahead, Unwritten
  <2>3. UNCHANGED <<sent, received, writer>>
    BY <2>1 DEF vars, writing, reading
  <2> QED  BY <1>1, <2>2, <2>3, StreamMoves
<1>3. CASE MakeRoom \/ WritePiece \/ Flush \/ Finish \/ \E k \in 1 .. WireCap : KernelTakes(k)
  <2>1. Ahead' = Ahead
    BY <1>3, WriterMoves
  <2>2. /\ UNCHANGED <<sent, received, need, part>>
        /\ writer \notin {"killed", "reset"}
    BY <1>3 DEF MakeRoom, WritePiece, Flush, Finish, KernelTakes, CanWrite, writing, reading
  <2>3. Join(InHand, Ahead)' = Join(InHand, Ahead)
    BY <2>1, <2>2 DEF InHand
  <2> QED  BY <1>1, <2>2, <2>3, StreamMoves
<1>4. ASSUME NEW k \in 1 .. WireCap, Read(k) PROVE WholeStream'
  <2>1. UNCHANGED <<sent, received, writer>>
    BY <1>4 DEF Read, writing
  <2>2. Join(InHand, Ahead)' = Join(InHand, Ahead)
    BY <1>4, ReaderTakes
  <2> QED  BY <1>1, <2>1, <2>2, StreamMoves
<1>5. CASE ReadFails
  <2>1. UNCHANGED <<sent, received, writer>>
    BY <1>5 DEF ReadFails, writing
  <2>2. Join(InHand, Ahead)' = Join(InHand, Ahead)
    BY <1>5 DEF ReadFails, writing, InHand, Ahead, Unwritten
  <2> QED  BY <1>1, <2>1, <2>2, StreamMoves
<1>6. CASE PrefixRead
  <2>1. UNCHANGED <<sent, received, writer>> /\ Ahead' = Ahead
    BY <1>6 DEF PrefixRead, writing, Ahead, Unwritten
  <2> DEFINE p == sent[Len(received) + 1]
             l == LengthPrefix(Len(p))
  <2>2. part = l /\ p \in Payloads /\ need = Prefix
    BY <1>6, PrefixComplete DEF PrefixRead
  <2>3. l \in Seq(Bytes) /\ LengthOf(l) = Len(p) /\ Len(p) \in Nat
    BY <2>2, FrameIs
  <2>4. need' = Len(p) /\ part' = << >>
    BY <1>6, <2>2, <2>3 DEF PrefixRead
  <2>5. InHand' = Join(l, << >>) /\ InHand = l
    BY <2>2, <2>3, <2>4 DEF InHand, Prefix, Join
  <2> HIDE DEF p, l
  <2>6. InHand' = InHand
    BY <2>3, <2>5, JoinFacts
  <2> QED  BY <1>1, <2>1, <2>6, StreamMoves
<1>7. CASE MessageRead
  <2> DEFINE p == sent[Len(received) + 1]
             l == LengthPrefix(Len(p))
             f == Frames(received)
  <2>1. part = p /\ p \in Payloads /\ need = Len(p)
    BY <1>7, MessageComplete DEF MessageRead, FramingInv, ReaderAgrees
  <2>2. /\ received' = Append(received, p) /\ sent' = sent /\ writer' = writer
        /\ Ahead' = Ahead /\ need' = Prefix /\ part' = << >> /\ need # Prefix
    BY <1>7, <2>1 DEF MessageRead, writing, Ahead, Unwritten
  <2>3. /\ l \in Seq(Bytes) /\ p \in Seq(Bytes) /\ f \in Seq(Bytes) /\ Ahead \in Seq(Bytes)
        /\ Frame(p) \in Seq(Bytes) /\ Frame(p) = Join(l, p)
    BY <1>1, <2>1, FrameIs, StreamTyped DEF Frame, Join
  <2>4. Frames(received') = Join(f, Frame(p))
    BY <1>1, <2>1, <2>2, FramesAppend DEF TypeOK, Join
  <2>5. InHand = Frame(p) /\ InHand' = << >>
    BY <2>1, <2>2 DEF InHand, Frame
  <2>6. PICK rest \in Seq(Bytes) :
          StreamIs(rest) /\ (rest # << >> => writer \in {"killed", "reset"})
    BY <1>1 DEF WholeStream
  <2> DEFINE x == Join(Ahead, rest)
             g == Frame(p)
  <2>7. x \in Seq(Bytes) /\ g \in Seq(Bytes)
    BY <2>3, JoinFacts
  <2>8. /\ Frames(sent) = Join(f, Join(g, x))
    BY <2>5, <2>6 DEF StreamIs
  <2>9. Join(InHand', Join(Ahead', rest)) = Join(<< >>, x)
    BY <2>2, <2>5
  <2> HIDE DEF x, g, f
  <2>10. Join(f, Join(g, x)) = Join(Join(f, g), Join(<< >>, x))
    BY <2>3, <2>7, JoinFacts
  <2>11. Frames(sent') = Join(Frames(received'), Join(InHand', Join(Ahead', rest)))
    BY <2>2, <2>4, <2>8, <2>9, <2>10 DEF g
  <2> QED  BY <2>2, <2>6, <2>11 DEF WholeStream, StreamIs
<1>8. ASSUME NEW p \in Payloads, WriteMessage(p) PROVE WholeStream'
  <2> DEFINE f == Frames(received)
             g == Frame(p)
  <2>1. /\ sent' = Append(sent, p) /\ calls = << >> /\ calls' = <<LengthPrefix(Len(p)), p>>
        /\ writer = "writing"
        /\ UNCHANGED <<writer, received, need, part, wire, push, buf>>
    BY <1>8 DEF WriteMessage, CanWrite, reading
  <2>2. g \in Seq(Bytes) /\ Frames(sent') = Join(Frames(sent), g)
    BY <1>1, <2>1, FrameIs, FramesAppend DEF TypeOK, Join
  <2>3. FlattenSeq(calls) = << >> /\ FlattenSeq(calls') = g
    <3> DEFINE l == LengthPrefix(Len(p))
               none == << >>
    <3>1. l \in Seq(Bytes) /\ p \in Seq(Bytes)
      BY FrameIs
    <3>2. FlattenSeq(none) = << >>
      <4>1. none \in Seq(Seq(Bytes)) /\ << >> \in Seq(Bytes)
        OBVIOUS
      <4> HIDE DEF none
      <4> QED  BY <4>1, FlattenAppend DEF none
    <3>3. calls' # << >> /\ Head(calls') = l /\ Tail(calls') = <<p>>
      BY <2>1
    <3>4. FlattenSeq(calls') = Join(l, FlattenSeq(<<p>>))
      <4>1. FlattenSeq(calls') = Join(Head(calls'), FlattenSeq(Tail(calls')))
        BY <1>1, <3>3, CallsInOrder DEF TypeOK
      <4> HIDE DEF l
      <4> QED  BY <1>1, <3>3, <4>1
    <3>5. FlattenSeq(<<p>>) = p
      <4> DEFINE SB == Seq(Bytes)
      <4>1. none \in Seq(SB) /\ p \in SB
        BY <3>1
      <4>2. FlattenSeq(Append(none, p)) = Join(FlattenSeq(none), p)
        BY <3>1, <4>1, FlattenAppend DEF Join
      <4>3. Append(none, p) = <<p>>
        OBVIOUS
      <4> HIDE DEF none
      <4>4. Join(<< >>, p) = p
        BY <3>1, JoinFacts
      <4> QED  BY <3>2, <4>2, <4>3, <4>4
    <3> QED  BY <2>1, <3>2, <3>4, <3>5 DEF Frame, Join, none
  <2>4. PICK rest \in Seq(Bytes) :
          StreamIs(rest) /\ (rest # << >> => writer \in {"killed", "reset"})
    BY <1>1 DEF WholeStream
  <2>5. rest = << >>
    BY <2>1, <2>4
  <2>6. /\ f \in Seq(Bytes) /\ InHand \in Seq(Bytes) /\ Ahead \in Seq(Bytes)
        /\ wire \in Seq(Bytes) /\ push \in Seq(Bytes) /\ buf \in Seq(Bytes) /\ << >> \in Seq(Bytes)
    BY <1>1, StreamTyped, JoinFacts DEF TypeOK
  <2>7. InHand' = InHand
    BY <2>1 DEF InHand
  <2>8. Ahead = Join(wire, Join(push, Join(buf, << >>))) /\ Ahead' = Join(wire, Join(push, Join(buf, g)))
    BY <2>1, <2>3 DEF Ahead, Unwritten
  <2> HIDE DEF g, f
  <2>9. Ahead' = Join(Ahead, g)
    <3>1. Join(buf, << >>) = buf
      BY <2>6, JoinFacts
    <3>2. Ahead = Join(wire, Join(push, buf)) /\ Join(push, buf) \in Seq(Bytes)
      BY <2>6, <2>8, <3>1, JoinFacts
    <3>3. Join(Join(push, buf), g) = Join(push, Join(buf, g))
      BY <2>2, <2>6, JoinFacts
    <3>4. Join(Join(wire, Join(push, buf)), g) = Join(wire, Join(Join(push, buf), g))
      BY <2>2, <2>6, <3>2, JoinFacts
    <3> QED  BY <2>8, <3>2, <3>3, <3>4
  <2>10. Frames(sent) = Join(f, Join(InHand, Ahead))
    <3>1. Join(Ahead, << >>) = Ahead
      BY <2>6, JoinFacts
    <3> QED  BY <2>4, <2>5, <3>1 DEF StreamIs, f
  <2> DEFINE y == Join(InHand, Ahead)
  <2>11. y \in Seq(Bytes) /\ Join(y, g) = Join(InHand, Join(Ahead, g)) /\ Join(Ahead, g) \in Seq(Bytes)
    BY <2>2, <2>6, JoinFacts
  <2>12. Join(Join(f, y), g) = Join(f, Join(InHand, Join(Ahead, g)))
    <3> HIDE DEF y
    <3>1. Join(Join(f, y), g) = Join(f, Join(y, g))
      BY <2>2, <2>6, <2>11, JoinFacts
    <3> QED  BY <2>11, <3>1
  <2>13. Join(Join(Ahead, g), << >>) = Join(Ahead, g)
    BY <2>11, JoinFacts
  <2>14. Frames(sent') = Join(Frames(received'), Join(InHand', Join(Ahead', << >>)))
    BY <2>1, <2>2, <2>7, <2>9, <2>10, <2>12, <2>13 DEF f
  <2> QED  BY <2>6, <2>14 DEF WholeStream, StreamIs
<1>9. CASE Cut
  <2> DEFINE f == Frames(received)
             u == Unwritten
             y == InHand
  <2>1. /\ writer' \in {"killed", "reset"} /\ calls' = << >> /\ buf' = << >> /\ push' = << >>
        /\ wire' = wire \/ wire' \in Prefixes(wire)
        /\ UNCHANGED <<sent, received, need, part>>
    BY <1>9 DEF Cut, reading
  <2>2. /\ f \in Seq(Bytes) /\ y \in Seq(Bytes) /\ u \in Seq(Bytes)
        /\ wire \in Seq(Bytes) /\ << >> \in Seq(Bytes)
    BY <1>1, StreamTyped, JoinFacts DEF TypeOK
  <2>3. PICK lost \in Seq(Bytes) : wire = Join(wire', lost) /\ wire' \in Seq(Bytes)
    <3>1. CASE wire' = wire
      BY <2>2, <3>1, JoinFacts
    <3>2. CASE wire' \in Prefixes(wire)
      <4>1. PICK m \in 0 .. Len(wire) : wire' = SubSeq(wire, 1, m)
        BY <3>2 DEF Prefixes
      <4>2. wire' \in Seq(Bytes) /\ SubSeq(wire, m + 1, Len(wire)) \in Seq(Bytes)
        BY <2>2, <4>1, Split
      <4>3. wire = Join(wire', SubSeq(wire, m + 1, Len(wire)))
        BY <2>2, <4>1, Split DEF Join
      <4> QED  BY <4>2, <4>3
    <3> QED  BY <2>1, <3>1, <3>2
  <2>4. PICK rest \in Seq(Bytes) : StreamIs(rest)
    BY <1>1 DEF WholeStream
  <2>5. FlattenSeq(calls') = << >>
    <3>1. << >> \in Seq(Seq(Bytes)) /\ << >> \in Seq(Bytes)
      OBVIOUS
    <3>2. FlattenSeq(<< >>) = << >>
      BY <3>1, FlattenAppend
    <3> QED  BY <2>1, <3>2
  <2>6. Ahead' = wire'
    <3>1. Ahead' = Join(wire', Join(<< >>, Join(<< >>, << >>)))
      BY <2>1, <2>5 DEF Ahead, Unwritten
    <3>2. Join(<< >>, << >>) = << >> /\ Join(wire', << >>) = wire'
      BY <2>2, <2>3, JoinFacts
    <3> QED  BY <3>1, <3>2
  <2>7. Ahead = Join(Join(wire', lost), u)
    BY <2>3 DEF Ahead
  <2> DEFINE w == wire'
             more == Join(lost, Join(u, rest))
  <2>8. Frames(sent) = Join(f, Join(y, Join(Join(Join(w, lost), u), rest)))
    BY <2>4, <2>7 DEF StreamIs
  <2>9. InHand' = y
    BY <2>1 DEF InHand
  <2> HIDE DEF f, u, y, w
  <2>10. w \in Seq(Bytes)
    BY <2>3 DEF w
  <2>11. more \in Seq(Bytes) /\ Join(Join(Join(w, lost), u), rest) = Join(w, more)
    <3>1. Join(u, rest) \in Seq(Bytes) /\ Join(w, lost) \in Seq(Bytes)
      BY <2>2, <2>10, JoinFacts
    <3>2. Join(Join(Join(w, lost), u), rest) = Join(Join(w, lost), Join(u, rest))
      BY <2>2, <3>1, JoinFacts
    <3>3. Join(Join(w, lost), Join(u, rest)) = Join(w, Join(lost, Join(u, rest)))
      BY <2>10, <3>1, JoinFacts
    <3> QED  BY <3>1, <3>2, <3>3, JoinFacts
  <2> HIDE DEF more
  <2>12. Frames(sent') = Join(Frames(received'), Join(InHand', Join(Ahead', more)))
    BY <2>1, <2>6, <2>8, <2>9, <2>11 DEF f, w
  <2> QED  BY <2>1, <2>11, <2>12 DEF WholeStream, StreamIs
<1> QED
  BY <1>2, <1>3, <1>4, <1>5, <1>6, <1>7, <1>8, <1>9 DEF Next, WriterStep, ReaderStep

-----------------------------------------------------------------------------
(* The theorems.                                                           *)

LEMMA InOrderAlways == TypeOK => (BytesInOrder <=> IsPrefix(received, sent) /\ WholeStream)
BY InOrder

LEMMA StepOrder == ASSUME FramingInv, [Next]_vars PROVE BytesInOrder'
<1>1. TypeOK /\ TypeOK' /\ IsPrefix(received, sent) /\ WholeStream'
  BY StepTypes, StepWhole, InOrder DEF FramingInv
<1>2. Len(received) \in Nat /\ Len(sent) \in Nat /\ received = SubSeq(sent, 1, Len(received))
      /\ Len(received) <= Len(sent)
  BY <1>1, ReceivedIs
<1>3. IsPrefix(received, sent)'
  <2>1. CASE UNCHANGED <<sent, received>>
    BY <1>1, <2>1 DEF IsPrefix
  <2>2. ASSUME NEW p \in Payloads, WriteMessage(p) PROVE IsPrefix(received, sent)'
    <3>1. sent' = Append(sent, p) /\ received' = received
      BY <2>2 DEF WriteMessage, reading
    <3>2. PICK rest \in Seq(Payloads) : sent = received \o rest
      BY <1>1, PrefixIs DEF TypeOK
    <3>3. Append(sent, p) = received \o Append(rest, p) /\ Append(rest, p) \in Seq(Payloads)
      <4>1. /\ sent \in Seq(Payloads) /\ received \in Seq(Payloads)
            /\ <<p>> \in Seq(Payloads) /\ rest \o <<p>> \in Seq(Payloads)
        BY <1>1, <3>2 DEF TypeOK
      <4>2. Append(sent, p) = sent \o <<p>> /\ Append(rest, p) = rest \o <<p>>
        BY <4>1, AppendIsConcat
      <4>3. (received \o rest) \o <<p>> = received \o (rest \o <<p>>)
        BY <4>1, ConcatAssociative
      <4> QED  BY <3>2, <4>1, <4>2, <4>3
    <3> QED  BY <1>1, <3>1, <3>3, PrefixIs DEF TypeOK
  <2>3. CASE MessageRead
    <3> DEFINE n == Len(received)
    <3>1. /\ n < Len(sent) /\ sent' = sent
          /\ received' = Append(SubSeq(sent, 1, n), sent[n + 1])
      BY <1>2, <2>3, MessageComplete DEF MessageRead, writing
    <3>2. received' = SubSeq(sent, 1, n + 1) /\ Len(received') = n + 1
      BY <1>1, <1>2, <3>1, BeginningGrows, SMTT(30) DEF TypeOK
    <3>3. SubSeq(received', 1, n + 1) = received'
      BY <1>1, <3>2, SubSeqFull DEF TypeOK
    <3> QED  BY <1>2, <3>1, <3>2, <3>3 DEF IsPrefix
  <2> QED
    <3>1. CASE UNCHANGED vars \/ Over
      BY <2>1, <3>1 DEF vars, writing, reading, Over
    <3>2. CASE WriterStep
      BY <2>1, <3>2 DEF WriterStep, MakeRoom, WritePiece, Flush, Finish, KernelTakes, writing, reading
    <3>3. CASE Cut \/ PrefixRead \/ ReadFails \/ \E k \in 1 .. WireCap : Read(k)
      BY <2>1, <3>3 DEF Cut, PrefixRead, ReadFails, Read, writing, reading
    <3> QED  BY <2>2, <2>3, <3>1, <3>2, <3>3 DEF Next, ReaderStep
<1>4. (TypeOK => (BytesInOrder <=> IsPrefix(received, sent) /\ WholeStream))'
  BY InOrderAlways, PTL
<1> QED  BY <1>1, <1>3, <1>4

(* What FramingInv says initially: nothing is sent and nothing is held.    *)
LEMMA InitInv == Init => FramingInv
<1> SUFFICES ASSUME Init PROVE FramingInv
  OBVIOUS
<1>1. TypeOK
  BY FramingAssumption DEF Init, TypeOK
<1>2. WriterAgrees
  BY DEF Init, WriterAgrees
<1>3. ReaderAgrees
  BY FramingAssumption DEF Init, ReaderAgrees, Missing
<1>4. IsPrefix(received, sent)
  BY DEF Init, IsPrefix
<1>5. WholeStream
  <2> DEFINE e == << >>
  <2>1. Frames(sent) = e /\ Frames(received) = e
    BY FramesTyped DEF Init
  <2>2. FlattenSeq(calls) = e
    <3>1. << >> \in Seq(Seq(Bytes)) /\ << >> \in Seq(Bytes)
      OBVIOUS
    <3> QED  BY <3>1, FlattenAppend DEF Init
  <2>3. InHand = e /\ Ahead = Join(e, Join(e, Join(e, e)))
    BY <2>2 DEF Init, InHand, Ahead, Unwritten
  <2>4. e \in Seq(Bytes) /\ Join(e, e) = e
    BY JoinFacts
  <2> HIDE DEF e
  <2>5. StreamIs(e)
    BY <2>1, <2>3, <2>4 DEF StreamIs
  <2> QED  BY <2>4, <2>5 DEF WholeStream, e
<1>6. BytesInOrder
  BY <1>1, <1>4, <1>5, InOrder
<1> QED  BY <1>1, <1>2, <1>3, <1>6 DEF FramingInv

(* The framing's invariant holds: besides BytesInOrder, a writer that has  *)
(* ended holds nothing back, the length in the reader's hand is that of    *)
(* the next message, and a reader stops only where bytes are missing that  *)
(* will never come.                                                        *)
THEOREM FramingInvariant == Spec => []FramingInv
<1>1. FramingInv /\ [Next]_vars => FramingInv'
  BY StepTypes, StepWriter, StepReader, StepOrder DEF FramingInv
<1> QED  BY InitInv, <1>1, PTL DEF Spec

(* Whatever the sizes of the writer's buffer, the kernel's and the reads,  *)
(* whatever the payloads and wherever the writer is cut off, no byte that  *)
(* write_message takes is lost, repeated or overtaken before read_message  *)
(* returns it, and the reader cuts the stream where the writer joined it.  *)
THEOREM BytesStayInOrder == Spec => []BytesInOrder
<1>1. FramingInv => BytesInOrder
  BY DEF FramingInv
<1> QED  BY <1>1, FramingInvariant, PTL

(* A reader that misses bytes after everything was written has all of it.  *)
LEMMA NothingLeft ==
  ASSUME FramingInv, writer = "finished", wire = << >>, Missing > 0
  PROVE  received = sent
<1>1. TypeOK /\ IsPrefix(received, sent)
  BY InOrder DEF FramingInv
<1>2. /\ Len(received) \in Nat /\ Len(sent) \in Nat /\ Len(received) <= Len(sent)
      /\ received = SubSeq(sent, 1, Len(received))
  BY <1>1, ReceivedIs
<1>3. PICK rest \in Seq(Bytes) : StreamIs(rest) /\ rest = << >>
  BY <1>1, InOrder DEF FramingInv, WholeStream
<1>4. Ahead = << >>
  <2>1. push = << >> /\ buf = << >> /\ calls = << >>
    BY DEF FramingInv, WriterAgrees
  <2>2. FlattenSeq(calls) = << >>
    <3>1. << >> \in Seq(Seq(Bytes)) /\ << >> \in Seq(Bytes)
      OBVIOUS
    <3> QED  BY <2>1, <3>1, FlattenAppend
  <2>3. Ahead = Join(<< >>, Join(<< >>, Join(<< >>, << >>)))
    BY <2>1, <2>2 DEF Ahead, Unwritten
  <2>4. Join(<< >>, << >>) = << >>
    BY JoinFacts
  <2> QED  BY <2>3, <2>4
<1>5. ~ (Len(received) < Len(sent))
  <2> SUFFICES ASSUME Len(received) < Len(sent) PROVE FALSE
    OBVIOUS
  <2> DEFINE p == sent[Len(received) + 1]
             l == LengthPrefix(Len(p))
             h == InHand
  <2>1. PICK more \in Seq(Bytes) :
          p \in Payloads /\ Join(h, Join(Ahead, rest)) = Join(l, Join(p, more))
    BY <1>1, <1>3, FrameAhead
  <2>2. /\ l \in Seq(Bytes) /\ Len(l) = Width /\ p \in Seq(Bytes)
        /\ h \in Seq(Bytes) /\ part \in Seq(Bytes) /\ Width \in Nat
    BY <1>1, <2>1, FrameIs, StreamTyped, FramingAssumption DEF TypeOK
  <2>3. Len(h) < Width + Len(p)
    <3>1. CASE need = Prefix
      BY <2>2, <3>1 DEF InHand, Missing
    <3>2. CASE need # Prefix
      <4>1. need = Len(p) /\ Len(part) < need
        BY <2>2, <3>2 DEF FramingInv, ReaderAgrees, Missing
      <4>2. h = Join(l, part)
        BY <3>2, <4>1 DEF InHand, Join
      <4> HIDE DEF l, h, p
      <4>3. Len(h) = Width + Len(part)
        BY <2>2, <4>2, JoinFacts
      <4>4. Len(part) \in Nat /\ Len(p) \in Nat
        BY <2>2
      <4> QED  BY <2>2, <4>1, <4>3, <4>4
    <3> QED  BY <3>1, <3>2
  <2> HIDE DEF l, h, p
  <2>4. h = Join(l, Join(p, more))
    <3>1. Join(<< >>, << >>) = << >> /\ Join(h, << >>) = h
      BY <2>2, JoinFacts
    <3> QED  BY <1>3, <1>4, <2>1, <3>1
  <2>5. Len(h) = Width + (Len(p) + Len(more))
    <3>1. Join(p, more) \in Seq(Bytes) /\ Len(Join(p, more)) = Len(p) + Len(more)
      BY <2>2, JoinFacts
    <3>2. Len(Join(l, Join(p, more))) = Len(l) + Len(Join(p, more))
      BY <2>2, <3>1, JoinFacts
    <3> QED  BY <2>2, <2>4, <3>1, <3>2
  <2>6. Len(p) \in Nat /\ Len(more) \in Nat /\ Len(h) \in Nat
    BY <2>2
  <2> QED  BY <2>2, <2>3, <2>5, <2>6
<1>6. Len(received) = Len(sent)
  BY <1>2, <1>5
<1> QED  BY <1>1, <1>2, <1>6, SubSeqFull DEF TypeOK

LEMMA ChannelStep == ASSUME FramingInv, [Next]_vars PROVE [Channel!Next]_(Channel!channel)
<1> USE DEF Channel!Next, Channel!channel
<1> DEFINE end == CASE writer \in {"writing", "flushing"} -> "open"
                    [] writer = "finished" -> "finished"
                    [] OTHER -> "cut"
<1>1. CASE UNCHANGED vars \/ Over
  BY <1>1 DEF vars, writing, reading, Over
<1>2. ASSUME NEW p \in Payloads, WriteMessage(p) PROVE Channel!Send(p)
  BY <1>2 DEF WriteMessage, CanWrite, reading, Channel!Send
<1>3. CASE MakeRoom \/ WritePiece \/ \E k \in 1 .. WireCap : KernelTakes(k)
  BY <1>3 DEF MakeRoom, WritePiece, KernelTakes, CanWrite, writing, reading
<1>4. CASE Flush
  BY <1>4 DEF Flush, CanWrite, writing, reading
<1>5. CASE Finish
  <2>1. end = "open" /\ end' = "finished" /\ UNCHANGED <<sent, received, result>>
    BY <1>5 DEF Finish, writing, reading
  <2> QED  BY <2>1 DEF Channel!End
<1>6. CASE Cut
  <2>1. end = "open" /\ end' = "cut" /\ UNCHANGED <<sent, received, result>>
    BY <1>6 DEF Cut, writing, reading
  <2> QED  BY <2>1 DEF Channel!End
<1>7. CASE PrefixRead \/ \E k \in 1 .. WireCap : Read(k)
  BY <1>7 DEF PrefixRead, Read, writing
<1>8. CASE MessageRead
  <2>1. /\ Len(received) < Len(sent) /\ part = sent[Len(received) + 1]
        /\ received' = Append(received, part) /\ UNCHANGED <<sent, writer, result>>
    BY <1>8, MessageComplete DEF MessageRead, writing
  <2>2. result = "reading"
    BY <1>8 DEF FramingInv, TypeOK, ReaderAgrees, MessageRead
  <2> QED  BY <2>1, <2>2 DEF Channel!Receive
<1>9. CASE ReadFails
  <2>1. /\ result = "reading" /\ writer \in {"finished", "killed", "reset"}
        /\ result' = IF writer = "reset" THEN "error" ELSE "eof"
        /\ UNCHANGED <<sent, received, writer>>
    BY <1>9 DEF ReadFails, writing
  <2>2. writer = "finished" => received = sent
    BY <1>9, NothingLeft DEF ReadFails
  <2> QED  BY <2>1, <2>2 DEF Channel!Stop
<1> QED
  BY <1>1, <1>2, <1>3, <1>4, <1>5, <1>6, <1>7, <1>8, <1>9 DEF Next, WriterStep, ReaderStep

(* The safety of ImplementsChannel: seen from the two programs, the bytes  *)
(* are a channel that hands out whole messages, each once and in order,    *)
(* and a reader that learns of the end of a finished writer has read all   *)
(* of it.                                                                  *)
THEOREM FramingIsAChannel == Spec => Channel!Init /\ [][Channel!Next]_(Channel!channel)
<1>1. Init => Channel!Init
  BY DEF Init, Channel!Init
<1>2. FramingInv /\ [Next]_vars => [Channel!Next]_(Channel!channel)
  BY ChannelStep
<1> QED  BY <1>1, <1>2, FramingInvariant, PTL DEF Spec
=============================================================================
