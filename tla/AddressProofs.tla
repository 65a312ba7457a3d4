---------------------------- MODULE AddressProofs ----------------------------
(***************************************************************************)
(* Machine-checked proofs about AddrInfoList, and about NetAddresses,      *)
(* which is one of its callers, for every set of elements and every bound  *)
(* on the length of the list.                                              *)
(***************************************************************************)
EXTENDS NetAddresses, SequenceTheorems, TLAPS

(* The part of the state the memory depends on: the list is never empty    *)
(* while there is an iterator, and its first pointer stays at the head.    *)
Shape ==
  /\ caller \in Callers
  /\ list \in Seq(Elements)
  /\ cur \in {Null} \cup DOMAIN list
  /\ caller = "calling" => list = << >> /\ cur = Null
  /\ HasIterator => orig = 1 /\ Len(list) > 0

MemoryInv == Shape /\ MemorySafe

(* What the resolver answers is a list that is not empty. *)
LEMMA AnswersAreLists ==
  ASSUME NEW hint, NEW answer \in Answers(hint)
  PROVE  answer \in Seq(Elements) /\ Len(answer) > 0 /\ Len(answer) <= MaxLen
<1>1. PICK n \in 1 .. MaxLen :
        answer \in [1 .. n -> {e \in Elements : \A f \in DOMAIN hint : hint[f] \in {0, e[f]}}]
  BY DEF Answers
<1>2. answer \in [1 .. n -> Elements] /\ n \in Nat /\ n > 0 /\ n <= MaxLen
  BY <1>1, ListAssumption
<1>3. QED
  BY <1>2

(* The pointer to the next element is one into the list, or null. *)
LEMMA NextPointer ==
  ASSUME list \in Seq(Elements), cur \in DOMAIN list
  PROVE  AiNext(cur) \in {Null} \cup DOMAIN list
BY DEF AiNext, Null

(* Freeing from the head frees everything. *)
LEMMA FreeingFromTheHead ==
  ASSUME list \in Seq(Elements), Len(list) > 0, live = DOMAIN list, ~misused,
         Freeaddrinfo(1)
  PROVE  live' = {} /\ ~misused'
<1>1. DOMAIN list = 1 .. Len(list) /\ Len(list) \in Nat
  OBVIOUS
<1>2. 1 \in live
  BY <1>1
<1>3. ~misused'
  BY <1>2, Zenon DEF Freeaddrinfo
<1>4. \A q \in live : ~(q < 1)
  BY <1>1
<1>5. live' = {}
  BY <1>4 DEF Freeaddrinfo
<1>6. QED
  BY <1>3, <1>5

(* Every step keeps the shape of the iterator and the memory. *)
LEMMA MemoryStep ==
  ASSUME MemoryInv, [Next]_vars
  PROVE  MemoryInv'
<1> USE DEF MemoryInv, Shape, MemorySafe, HasIterator, CanCall, Callers
<1>1. ASSUME NEW host \in Arguments, NEW service \in Arguments,
             Refuse(host, service) \/ ResolverFails(host, service)
      PROVE  MemoryInv'
  BY <1>1 DEF Refuse, ResolverFails
<1>2. ASSUME NEW host \in Arguments, NEW service \in Arguments, Resolves(host, service)
      PROVE  MemoryInv'
  <2>1. list' \in Seq(Elements) /\ Len(list') > 0
    BY <1>2, AnswersAreLists DEF Resolves
  <2>2. cur' \in DOMAIN list' /\ orig' = 1 /\ caller' = "iterating"
    BY <1>2, <2>1 DEF Resolves
  <2>3. live' = DOMAIN list' /\ ~misused'
    BY <1>2 DEF Resolves
  <2>4. QED
    BY <2>1, <2>2, <2>3
<1>3. CASE NextItem
  <2>1. caller' = "iterating" /\ cur' = AiNext(cur) /\ UNCHANGED <<list, live, orig>>
    BY <1>3 DEF NextItem
  <2>2. cur' \in {Null} \cup DOMAIN list'
    BY <1>3, <2>1, NextPointer DEF NextItem, Null
  <2>3. ~misused'
    BY <1>3 DEF NextItem, Reads, Null
  <2>4. caller \in {"iterating", "exhausted"}
    BY <1>3 DEF NextItem
  <2>5. QED
    BY <2>1, <2>2, <2>3, <2>4
<1>4. CASE NextNone
  BY <1>4 DEF NextNone
<1>5. CASE NextPanics
  BY <1>5 DEF NextPanics, Reads, Null
<1>6. CASE Catch
  BY <1>6 DEF Catch
<1>7. CASE Drop
  <2>1. caller' = "dropped" /\ UNCHANGED <<list, orig, cur>>
    BY <1>7 DEF Drop
  <2>2. live' = {} /\ ~misused'
    BY <1>7, FreeingFromTheHead DEF Drop
  <2>3. QED
    BY <2>1, <2>2
<1>8. CASE Over \/ UNCHANGED vars
  BY <1>8 DEF Over, vars
<1>9. QED
  BY <1>1, <1>2, <1>3, <1>4, <1>5, <1>6, <1>7, <1>8 DEF Next

(* The list is freed exactly once and from its head, and never read after  *)
(* that, however long it is and wherever its owner stops, fails or panics. *)
THEOREM ListFreedOnce == Spec => []MemorySafe
<1>1. Init => MemoryInv
  BY DEF Init, MemoryInv, Shape, MemorySafe, HasIterator, Callers, Null
<1>2. MemoryInv /\ [Next]_vars => MemoryInv'
  BY MemoryStep
<1>3. MemoryInv => MemorySafe
  BY DEF MemoryInv
<1>4. QED
  BY <1>1, <1>2, <1>3, PTL DEF Spec

-----------------------------------------------------------------------------
Delivered(elements, n) == [k \in 1 .. n |-> FromPtr(elements[k])]

Seen == IF cur = Null THEN Len(list) ELSE cur - 1

OrderInv == Shape /\ DeliversInOrder

(* DeliversInOrder, in the words of this module. *)
LEMMA DeliversInOrderAs ==
  DeliversInOrder <=>
    /\ results = Delivered(list, Seen)
    /\ caller = "exhausted" => Seen = Len(list)
BY DEF DeliversInOrder, Delivered, Seen

(* One more element is delivered. *)
LEMMA OneMore ==
  ASSUME NEW elements, NEW n \in Nat
  PROVE  Append(Delivered(elements, n), FromPtr(elements[n + 1]))
           = Delivered(elements, n + 1)
BY DEF Delivered

(* Every step delivers the next element or none. *)
LEMMA OrderStep ==
  ASSUME OrderInv, [Next]_vars, Shape'
  PROVE  DeliversInOrder'
<1> DEFINE Good == results' = Delivered(list', Seen') /\ (caller' = "exhausted" => Seen' = Len(list'))
<1> SUFFICES Good
  BY DEF DeliversInOrder, Delivered, Seen
<1>0. results = Delivered(list, Seen) /\ (caller = "exhausted" => Seen = Len(list))
  BY DeliversInOrderAs DEF OrderInv
<1>1. ASSUME UNCHANGED <<list, cur, results>>, caller' = "exhausted" => Seen = Len(list)
      PROVE  Good
  BY <1>0, <1>1 DEF Seen
<1>2. ASSUME NEW host \in Arguments, NEW service \in Arguments,
             Refuse(host, service) \/ ResolverFails(host, service)
      PROVE  Good
  BY <1>1, <1>2 DEF Refuse, ResolverFails
<1>3. ASSUME NEW host \in Arguments, NEW service \in Arguments, Resolves(host, service)
      PROVE  Good
  <2>1. Seen = 0 /\ Seen' = 0 /\ caller' = "iterating" /\ results' = results
    BY <1>3 DEF Resolves, Seen, OrderInv, Shape, Null
  <2>2. Delivered(list, 0) = Delivered(list', 0)
    BY DEF Delivered
  <2>3. QED
    BY <1>0, <2>1, <2>2
<1>4. CASE NextItem
  <2>1. cur \in DOMAIN list /\ cur # Null /\ list \in Seq(Elements)
    BY <1>4 DEF NextItem, OrderInv, Shape
  <2>2. /\ results' = Append(results, FromPtr(list[cur]))
        /\ list' = list /\ cur' = AiNext(cur) /\ caller' = "iterating"
    BY <1>4 DEF NextItem
  <2>3. Seen = cur - 1 /\ Seen \in Nat /\ Seen + 1 = cur
    BY <2>1 DEF Seen, Null
  <2>4. Seen' = cur
    BY <2>1, <2>2 DEF Seen, AiNext, Null
  <2>5. results' = Delivered(list, cur)
    BY <1>0, <2>2, <2>3, OneMore
  <2>6. QED
    BY <2>2, <2>4, <2>5
<1>5. CASE NextNone
  BY <1>1, <1>5 DEF NextNone, Seen
<1>6. CASE NextPanics \/ Catch \/ Drop
  BY <1>1, <1>6 DEF NextPanics, Catch, Drop
<1>7. CASE Over \/ UNCHANGED vars
  BY <1>0, <1>1, <1>7 DEF Over, vars
<1>8. QED
  BY <1>2, <1>3, <1>4, <1>5, <1>6, <1>7 DEF Next

(* The caller gets the elements of the list in their order, none twice and *)
(* none left out, an error in the place of one that failed to convert; and *)
(* it gets None only after the last.                                       *)
THEOREM ListDeliveredInOrder == Spec => []DeliversInOrder
<1> DEFINE Inv == MemoryInv /\ DeliversInOrder
<1>1. Init => Inv
  <2> SUFFICES ASSUME Init PROVE Inv
    OBVIOUS
  <2>1. MemoryInv
    BY DEF Init, MemoryInv, Shape, MemorySafe, HasIterator, Callers, Null
  <2>2. DeliversInOrder
    BY DEF Init, DeliversInOrder, Null
  <2>3. QED
    BY <2>1, <2>2
<1>2. Inv /\ [Next]_vars => Inv'
  BY MemoryStep, OrderStep DEF OrderInv, MemoryInv
<1>3. Inv => DeliversInOrder
  OBVIOUS
<1>4. QED
  BY <1>1, <1>2, <1>3, PTL DEF Spec

(* The pointers of the iterator and the lengths stay in their ranges.      *)
THEOREM ListTyped == Spec => []TypeOK
<1> DEFINE Bounded == /\ hints \in Hints
                      /\ Len(list) <= MaxLen
                      /\ orig = 0 \/ (orig = 1 /\ Len(list) > 0)
                      /\ misused \in BOOLEAN
           Inv == MemoryInv /\ DeliversInOrder /\ Bounded
<1>1. Init => Inv
  <2> SUFFICES ASSUME Init PROVE Inv
    OBVIOUS
  <2>1. MemoryInv
    BY DEF Init, MemoryInv, Shape, MemorySafe, HasIterator, Callers, Null
  <2>2. DeliversInOrder
    BY DEF Init, DeliversInOrder, Null
  <2>3. Bounded
    <3>1. Len(list) <= MaxLen
      <4>1. Len(list) = 0 /\ MaxLen \in Nat
        BY ListAssumption DEF Init
      <4> QED  BY <4>1
    <3>2. misused \in BOOLEAN /\ hints \in Hints /\ orig = 0
      BY Zenon DEF Init, Null
    <3> QED  BY <3>1, <3>2
  <2> QED  BY <2>1, <2>2, <2>3
<1>2. Inv /\ [Next]_vars => Inv'
  <2> SUFFICES ASSUME Inv, [Next]_vars PROVE Inv'
    OBVIOUS
  <2>1. MemoryInv'
    BY MemoryStep
  <2>2. DeliversInOrder'
    BY <2>1, OrderStep DEF OrderInv, MemoryInv
  <2>3. Bounded'
    <3>1. ASSUME NEW host \in Arguments, NEW service \in Arguments, Resolves(host, service)
          PROVE  Bounded'
      BY <3>1, AnswersAreLists DEF Resolves
    <3>2. CASE UNCHANGED <<hints, list, orig>> /\ misused' \in BOOLEAN
      BY <3>2
    <3> QED
      BY <3>1, <3>2
         DEF Next, vars, Refuse, ResolverFails, NextItem, NextNone, NextPanics, Catch, Drop, Over,
             Reads, Freeaddrinfo
  <2> QED  BY <2>1, <2>2, <2>3
<1>3. Inv => TypeOK
  <2> SUFFICES ASSUME Inv PROVE TypeOK
    OBVIOUS
  <2>1. /\ list \in Seq(Elements) /\ Len(list) \in Nat /\ DOMAIN list = 1 .. Len(list)
        /\ cur \in {Null} \cup DOMAIN list /\ caller \in Callers
    BY DEF MemoryInv, Shape
  <2>2. Seen \in 0 .. Len(list)
    BY <2>1 DEF Seen, Null
  <2>3. Len(results) = Seen
    <3>1. results = Delivered(list, Seen)
      BY DeliversInOrderAs
    <3> HIDE DEF Seen
    <3>2. Len(Delivered(list, Seen)) = Seen
      BY <2>2 DEF Delivered
    <3> QED  BY <3>1, <3>2
  <2>4. Len(results) <= Len(list)
    BY <2>1, <2>2, <2>3
  <2>5. live \subseteq DOMAIN list /\ orig \in {Null} \cup DOMAIN list
    BY <2>1 DEF MemoryInv, MemorySafe, Null
  <2> QED  BY <2>1, <2>4, <2>5 DEF TypeOK
<1> QED  BY <1>1, <1>2, <1>3, PTL DEF Spec

-----------------------------------------------------------------------------
(* The elements agree with the hints that are not zero. *)
HintsHonoured ==
  LET hint == AsAddrinfo(hints) IN
  \A k \in DOMAIN list : \A f \in {"family", "socktype", "protocol"} :
    hint[f] \in {0, list[k][f]}

PanicInv ==
  /\ Shape
  /\ hints \in Hints
  /\ HintsHonoured
  /\ caller = "panicking" => cur # Null /\ FromPtr(list[cur]).kind = Panic

(* A socket type that was asked for is one the way back knows. *)
LEMMA SockTypesReturn ==
  ASSUME NEW t \in DOMAIN SockType, t # "Unspecified"
  PROVE  SockType[t] # 0 /\ SockTypeFrom(SockType[t]) # Panic
BY DEF SockType, SockTypeFrom, Panic

(* And so is a protocol. *)
LEMMA ProtocolsReturn ==
  ASSUME NEW p \in DOMAIN Protocol, p # "Unspecified"
  PROVE  Protocol[p] # 0 /\ ProtocolFrom(Protocol[p]) # Panic
BY DEF Protocol, ProtocolFrom, Panic

(* What can be wrong with an element whose conversion panics. *)
LEMMA WhatPanics ==
  ASSUME NEW e, FromPtr(e).kind = Panic
  PROVE  IsSocket(e) /\ (SockTypeFrom(e.socktype) = Panic \/ ProtocolFrom(e.protocol) = Panic)
<1>1. IsSocket(e)
  BY DEF FromPtr, Panic
<1>2. Fails(e)
  BY DEF FromPtr, Panic
<1>3. FamilyFrom(e.family) # Panic
  BY <1>1 DEF IsSocket, FamilyFrom, Panic
<1>4. QED
  BY <1>1, <1>2, <1>3 DEF Fails, Converted

(* The invariant explains the panics. *)
LEMMA PanicInvExplains == PanicInv => PanicsAreExplained
<1> SUFFICES ASSUME PanicInv, caller = "panicking"
             PROVE  IsSocket(list[cur]) /\ "Unspecified" \in {hints.socktype, hints.protocol}
  BY DEF PanicsAreExplained
<1>1. cur \in DOMAIN list /\ FromPtr(list[cur]).kind = Panic
  BY DEF PanicInv, Shape
<1>2. IsSocket(list[cur])
  BY <1>1, WhatPanics
<1>3. ASSUME hints.socktype # "Unspecified", hints.protocol # "Unspecified"
      PROVE  FALSE
  <2>1. hints.socktype \in DOMAIN SockType /\ hints.protocol \in DOMAIN Protocol
    BY DEF PanicInv, Hints
  <2>2. /\ SockType[hints.socktype] \in {0, list[cur].socktype}
        /\ Protocol[hints.protocol] \in {0, list[cur].protocol}
    BY <1>1 DEF PanicInv, HintsHonoured, AsAddrinfo
  <2>3. list[cur].socktype = SockType[hints.socktype]
    BY <1>3, <2>1, <2>2, SockTypesReturn
  <2>4. list[cur].protocol = Protocol[hints.protocol]
    BY <1>3, <2>1, <2>2, ProtocolsReturn
  <2>5. QED
    BY <1>1, <1>3, <2>1, <2>3, <2>4, SockTypesReturn, ProtocolsReturn, WhatPanics
<1>4. QED
  BY <1>2, <1>3

(* Every step keeps it. *)
LEMMA PanicStep ==
  ASSUME PanicInv, [Next]_vars, Shape'
  PROVE  PanicInv'
<1>1. ASSUME UNCHANGED <<hints, list>>,
             caller' = "panicking" => cur' # Null /\ FromPtr(list[cur']).kind = Panic
      PROVE  PanicInv'
  BY <1>1 DEF PanicInv, HintsHonoured
<1>2. ASSUME NEW host \in Arguments, NEW service \in Arguments,
             Refuse(host, service) \/ ResolverFails(host, service)
      PROVE  PanicInv'
  BY <1>1, <1>2 DEF Refuse, ResolverFails
<1>3. ASSUME NEW host \in Arguments, NEW service \in Arguments, Resolves(host, service)
      PROVE  PanicInv'
  <2>1. list' \in Answers(AsAddrinfo(hints)) /\ hints' = hints /\ caller' = "iterating"
    BY <1>3 DEF Resolves
  <2>2. DOMAIN AsAddrinfo(hints) = {"family", "socktype", "protocol"}
    BY DEF AsAddrinfo
  <2>3. HintsHonoured'
    BY <2>1, <2>2 DEF Answers, HintsHonoured
  <2>4. QED
    BY <2>1, <2>3 DEF PanicInv
<1>4. CASE NextItem \/ NextNone \/ Catch \/ Drop
  BY <1>1, <1>4 DEF NextItem, NextNone, Catch, Drop
<1>5. CASE NextPanics
  BY <1>1, <1>5 DEF NextPanics
<1>6. CASE Over \/ UNCHANGED vars
  BY <1>1, <1>6 DEF Over, vars, PanicInv
<1>7. QED
  BY <1>2, <1>3, <1>4, <1>5, <1>6 DEF Next

(* An unknown address family never makes next panic, and nothing does when *)
(* the hints name a socket type and a protocol.                            *)
THEOREM PanicsExplained == Spec => []PanicsAreExplained
<1> DEFINE Inv == MemoryInv /\ PanicInv
<1>1. Init => Inv
  <2> SUFFICES ASSUME Init PROVE Inv
    OBVIOUS
  <2>1. MemoryInv
    BY DEF Init, MemoryInv, Shape, MemorySafe, HasIterator, Callers, Null
  <2>2. HintsHonoured
    BY DEF Init, HintsHonoured
  <2>3. QED
    BY <2>1, <2>2 DEF PanicInv, MemoryInv, Init
<1>2. Inv /\ [Next]_vars => Inv'
  BY MemoryStep, PanicStep DEF MemoryInv
<1>3. Inv => PanicsAreExplained
  BY PanicInvExplains
<1>4. QED
  BY <1>1, <1>2, <1>3, PTL DEF Spec

-----------------------------------------------------------------------------
(* The tool: what was proved of the iterator is used here.                 *)

(* What the iterator is proved to keep, whoever calls it. *)
IteratorInv == MemoryInv /\ DeliversInOrder /\ PanicInv

(* The whole inductive invariant of the tool. *)
ToolInv == IteratorInv /\ NetInv

-----------------------------------------------------------------------------
(* The tool and the iterator.                                              *)

(* Every step of the tool is one of the iterator's caller, or leaves the   *)
(* iterator alone.                                                         *)
LEMMA StepIsListStep == ASSUME NetTypeOK, [NetNext]_allVars PROVE [Next]_vars
<1>1. args.host \in Arguments /\ args.service \in Arguments
  BY DEF NetTypeOK, CliArgs, Arguments
<1>2. CASE UNCHANGED allVars \/ Ended
  BY <1>2 DEF allVars, Ended
<1>3. CASE Usage \/ DebugArgs \/ DebugPanics \/ Report \/ ReportPanics \/ ReaderLeaves
  BY <1>3 DEF Usage, DebugArgs, DebugPanics, Report, ReportPanics, ReaderLeaves
<1>4. CASE \E names \in GetNameInfo : Show(names) \/ PrintPanics(names)
  BY <1>4 DEF Show, PrintPanics
<1>5. CASE CallFails \/ CallReturns
  BY <1>1, <1>5 DEF CallFails, CallReturns, Next
<1>6. CASE AskNext \/ NextUnwinds \/ Return \/ Unwinds
  BY <1>6 DEF AskNext, NextUnwinds, Return, Unwinds, Next
<1> QED  BY <1>2, <1>3, <1>4, <1>5, <1>6 DEF NetNext

(* So it keeps what every caller keeps.                                    *)
LEMMA StepIterator ==
  ASSUME IteratorInv, NetTypeOK, [NetNext]_allVars
  PROVE  IteratorInv'
<1>1. [Next]_vars
  BY StepIsListStep
<1>2. MemoryInv'
  BY <1>1, MemoryStep DEF IteratorInv
<1>3. DeliversInOrder'
  BY <1>1, <1>2, OrderStep DEF IteratorInv, OrderInv, MemoryInv
<1>4. PanicInv'
  BY <1>1, <1>2, PanicStep DEF IteratorInv, MemoryInv
<1> QED  BY <1>2, <1>3, <1>4 DEF IteratorInv

(* What next has returned, item by item.                                   *)
LEMMA ResultsAre ==
  ASSUME IteratorInv
  PROVE  /\ list \in Seq(Elements)
         /\ results \in Seq({FromPtr(e) : e \in Elements})
         /\ Len(results) <= Len(list)
         /\ \A k \in 1 .. Len(results) : results[k] = FromPtr(list[k])
         /\ caller = "exhausted" => Len(results) = Len(list)
         /\ caller = "calling" => results = << >>
<1>1. /\ list \in Seq(Elements) /\ Len(list) \in Nat /\ DOMAIN list = 1 .. Len(list)
      /\ cur \in {Null} \cup DOMAIN list
      /\ caller = "calling" => list = << >> /\ cur = Null
  BY DEF IteratorInv, MemoryInv, Shape
<1>2. /\ results = Delivered(list, Seen)
      /\ caller = "exhausted" => Seen = Len(list)
  BY DeliversInOrderAs DEF IteratorInv
<1>3. Seen \in 0 .. Len(list)
  BY <1>1 DEF Seen, Null
<1> HIDE DEF Seen
<1>4. \A k \in 1 .. Seen : FromPtr(list[k]) \in {FromPtr(e) : e \in Elements}
  BY <1>1, <1>3
<1>5. Delivered(list, Seen) \in [1 .. Seen -> {FromPtr(e) : e \in Elements}]
  BY <1>4 DEF Delivered
<1>6. results \in Seq({FromPtr(e) : e \in Elements}) /\ Len(results) = Seen
  BY <1>2, <1>3, <1>5
<1>7. \A k \in 1 .. Len(results) : results[k] = FromPtr(list[k])
  BY <1>2, <1>6 DEF Delivered
<1>8. caller = "calling" => results = << >>
  BY <1>1, <1>3, <1>6, EmptySeq
<1>9. Len(results) <= Len(list)
  <2>1. Seen <= Len(list)
    BY <1>1, <1>3
  <2> QED  BY <1>6, <2>1
<1>10. caller = "exhausted" => Len(results) = Len(list)
  BY <1>2, <1>6
<1> QED  BY <1>1, <1>6, <1>7, <1>8, <1>9, <1>10

(* The item that waits to be shown is the conversion of the next element.  *)
LEMMA ItemIs ==
  ASSUME ToolInv, Pending
  PROVE  /\ Len(results) = Len(shown) + 1 /\ Len(shown) \in Nat
         /\ Len(shown) + 1 \in 1 .. Len(list)
         /\ Item = FromPtr(list[Len(shown) + 1])
         /\ list[Len(shown) + 1] \in Elements
<1>1. Len(results) = Len(shown) + 1 /\ Len(shown) \in Nat
  BY DEF ToolInv, NetInv, NetTypeOK, OneAtATime, Pending
<1>2. /\ list \in Seq(Elements) /\ Len(results) <= Len(list) /\ Len(list) \in Nat
      /\ \A k \in 1 .. Len(results) : results[k] = FromPtr(list[k])
  BY ResultsAre DEF ToolInv
<1>3. Len(results) \in 1 .. Len(list) /\ Len(results) \in 1 .. Len(results)
  BY <1>1, <1>2
<1> QED  BY <1>1, <1>2, <1>3 DEF Item

-----------------------------------------------------------------------------
(* The steps of the tool.                                                  *)

(* A line more is written, for the element whose turn it is.               *)
LEMMA OneMoreLine ==
  ASSUME ToolInv, Pending, status = "running", UNCHANGED <<vars, args, status, readers>>,
         NEW on \in {"stdout", "stderr"},
         on = IF IsSocket(list[Len(shown) + 1]) THEN "stdout" ELSE "stderr",
         shown' = Append(shown, [on |-> on, item |-> Item])
  PROVE  NetInv'
<1> DEFINE line == [on |-> on, item |-> Item]
<1>1. shown \in Seq(Lines) /\ line \in Lines
  BY ItemIs DEF ToolInv, NetInv, NetTypeOK, Lines, Outputs
<1>2. /\ shown' \in Seq(Lines) /\ Len(shown') = Len(shown) + 1 /\ Len(shown) \in Nat
      /\ DOMAIN shown = 1 .. Len(shown) /\ DOMAIN shown' = 1 .. Len(shown) + 1
      /\ \A k \in 1 .. Len(shown) : shown'[k] = shown[k]
      /\ shown'[Len(shown) + 1] = line
  BY <1>1, AppendProperties
<1>3. NetTypeOK'
  BY <1>2 DEF ToolInv, NetInv, NetTypeOK, vars
<1>4. OneAtATime'
  BY <1>2, ItemIs DEF ToolInv, NetInv, OneAtATime, Pending, vars
<1>5. StatusAgrees' /\ CarefulCallsDontPanic'
  BY DEF ToolInv, NetInv, StatusAgrees, ReasonToPanic, CarefulCallsDontPanic, HasIterator, vars
<1>6. AnswerIsShown'
  <2>1. list' = list /\ live' = live /\ status' = "running" /\ Len(list) \in Nat
    BY ResultsAre DEF vars, ToolInv
  <2>2. Len(shown') <= Len(list)
    BY <1>2, <2>1, ItemIs
  <2>3. \A k \in DOMAIN shown' :
          shown'[k] = [on |-> IF IsSocket(list[k]) THEN "stdout" ELSE "stderr",
                       item |-> FromPtr(list[k])]
    <3> SUFFICES ASSUME NEW k \in 1 .. Len(shown) + 1
                 PROVE  shown'[k] = [on |-> IF IsSocket(list[k]) THEN "stdout" ELSE "stderr",
                                     item |-> FromPtr(list[k])]
      BY <1>2
    <3>1. CASE k \in 1 .. Len(shown)
      BY <1>2, <3>1 DEF ToolInv, NetInv, AnswerIsShown
    <3>2. CASE k = Len(shown) + 1
      BY <1>2, <3>2, ItemIs
    <3> QED  BY <1>2, <3>1, <3>2
  <2> QED  BY <2>1, <2>2, <2>3 DEF AnswerIsShown, Alive
<1> QED  BY <1>3, <1>4, <1>5, <1>6 DEF NetInv

(* An address is written to the standard output, an element that is an     *)
(* error to the error output.                                              *)
LEMMA StepShow ==
  ASSUME ToolInv, (\E names \in GetNameInfo : Show(names)) \/ Report
  PROVE  NetInv'
<1>1. Pending /\ status = "running" /\ UNCHANGED <<vars, args, status, readers>>
  BY DEF Show, Report
<1> DEFINE e == list[Len(shown) + 1]
<1>2. CASE Report
  <2>1. Item.kind = "unsupported" /\ shown' = Append(shown, [on |-> "stderr", item |-> Item])
    BY <1>2 DEF Report
  <2>2. ~IsSocket(e)
    BY <1>1, <2>1, ItemIs DEF FromPtr, Panic
  <2> QED  BY <1>1, <2>1, <2>2, OneMoreLine
<1>3. CASE \E names \in GetNameInfo : Show(names)
  <2>1. Item.kind = "ok" /\ shown' = Append(shown, [on |-> "stdout", item |-> Item])
    BY <1>3 DEF Show
  <2>2. IsSocket(e)
    BY <1>1, <2>1, ItemIs DEF FromPtr, Panic
  <2> QED  BY <1>1, <2>1, <2>2, OneMoreLine
<1> QED  BY <1>2, <1>3

(* A process that has ended has freed what it had.                         *)
NothingLeft == ~Alive => live = {}

LEMMA NothingLives == IteratorInv /\ StatusAgrees => NothingLeft
  BY DEF IteratorInv, MemoryInv, MemorySafe, StatusAgrees, NothingLeft, Alive

(* Before the call: the arguments are refused, or written to the error     *)
(* output, which nobody may read.                                          *)
LEMMA StepStart == ASSUME ToolInv, Usage \/ DebugArgs \/ DebugPanics PROVE NetInv'
<1>1. /\ status = "starting" /\ caller = "calling"
      /\ UNCHANGED <<args, readers, shown, results, list, live, hints, caller>>
      /\ \/ status' \in {"usage", "running"}
         \/ status' = "panic" /\ "stderr" \notin readers
  BY DEF ToolInv, NetInv, StatusAgrees, Usage, DebugArgs, DebugPanics, vars
<1>2. live = {}
  BY <1>1 DEF ToolInv, IteratorInv, MemoryInv, MemorySafe, HasIterator
<1>3. NetTypeOK' /\ OneAtATime'
  BY <1>1 DEF ToolInv, NetInv, NetTypeOK, OneAtATime, Pending
<1>4. StatusAgrees' /\ CarefulCallsDontPanic'
  BY <1>1 DEF StatusAgrees, HasIterator, CarefulCallsDontPanic, ReasonToPanic
<1>5. AnswerIsShown'
  BY <1>1, <1>2 DEF ToolInv, NetInv, AnswerIsShown
<1> QED  BY <1>3, <1>4, <1>5 DEF NetInv

(* The call of getaddrinfo fails, or it returns a list.                    *)
LEMMA StepCall ==
  ASSUME ToolInv, CallFails \/ CallReturns, IteratorInv'
  PROVE  NetInv'
<1>1. /\ status = "running" /\ caller = "calling"
      /\ UNCHANGED <<args, readers, shown, results, hints>>
      /\ \/ status' = "error" /\ caller' = "failed"
         \/ status' = "running" /\ caller' = "iterating"
  BY DEF CallFails, CallReturns, ResolverFails, Resolves, netVars
<1>2. results = << >> /\ shown = << >>
  <2>1. results = << >>
    BY <1>1, ResultsAre DEF ToolInv
  <2> QED  BY <2>1, EmptySeq DEF ToolInv, NetInv, NetTypeOK, OneAtATime
<1>3. NetTypeOK' /\ CarefulCallsDontPanic'
  BY <1>1 DEF ToolInv, NetInv, NetTypeOK, CarefulCallsDontPanic
<1>4. OneAtATime'
  BY <1>1, <1>2 DEF OneAtATime, Pending
<1>5. StatusAgrees'
  BY <1>1 DEF ToolInv, NetInv, StatusAgrees, HasIterator
<1>6. AnswerIsShown'
  <2>1. Len(shown') = 0 /\ DOMAIN shown' = {} /\ Len(list') \in Nat
    <3>1. list' \in Seq(Elements)
      BY DEF IteratorInv, MemoryInv, Shape
    <3> QED  BY <1>1, <1>2, <3>1
  <2>2. NothingLeft'
    BY <1>5, NothingLives, PTL
  <2> QED  BY <1>1, <2>1, <2>2 DEF AnswerIsShown, NothingLeft
<1> QED  BY <1>3, <1>4, <1>5, <1>6 DEF NetInv

(* The next item is asked for when the last has been dealt with.           *)
LEMMA StepAskNext == ASSUME ToolInv, AskNext, IteratorInv' PROVE NetInv'
<1>1. /\ status = "running" /\ ~Pending /\ caller \in {"iterating", "exhausted"}
      /\ UNCHANGED <<args, status, readers, shown, hints, list, live>>
      /\ \/ caller' = "iterating" /\ \E item : results' = Append(results, item)
         \/ caller' = "exhausted" /\ results' = results
  BY DEF AskNext, NextItem, NextNone, netVars, CanCall
<1>2. Len(results) = Len(shown) /\ Len(shown) \in Nat
  BY <1>1 DEF ToolInv, NetInv, NetTypeOK, OneAtATime, Pending
<1>3. NetTypeOK' /\ CarefulCallsDontPanic' /\ AnswerIsShown'
  BY <1>1 DEF ToolInv, NetInv, NetTypeOK, CarefulCallsDontPanic, AnswerIsShown, Alive
<1>4. OneAtATime'
  <2>1. CASE caller' = "iterating" /\ \E item : results' = Append(results, item)
    <3>1. PICK item : results' = Append(results, item)
      BY <2>1
    <3>2. results \in Seq({FromPtr(e) : e \in Elements})
      BY ResultsAre DEF ToolInv
    <3>3. Len(results') = Len(results) + 1
      BY <3>1, <3>2
    <3> QED  BY <1>1, <1>2, <2>1, <3>3 DEF OneAtATime
  <2>2. CASE caller' = "exhausted" /\ results' = results
    BY <1>1, <1>2, <2>2 DEF OneAtATime, Pending
  <2> QED  BY <1>1, <2>1, <2>2
<1>5. StatusAgrees'
  BY <1>1 DEF ToolInv, NetInv, StatusAgrees, HasIterator
<1> QED  BY <1>3, <1>4, <1>5 DEF NetInv

(* A panic begins, in next, in the printer or in the report: the iterator  *)
(* explains the first, an output that is not read or a failed lookup the   *)
(* others.                                                                 *)
LEMMA StepPanics ==
  ASSUME ToolInv, IteratorInv',
         NextUnwinds \/ (\E names \in GetNameInfo : PrintPanics(names)) \/ ReportPanics
  PROVE  NetInv'
<1>1. /\ status = "running" /\ status' = "panicking"
      /\ UNCHANGED <<args, readers, shown, hints, list, live, results>>
  BY DEF NextUnwinds, NextPanics, PrintPanics, ReportPanics, vars
<1>2. caller' \in {"iterating", "panicking"} /\ ReasonToPanic'
      /\ caller # "calling" /\ (Pending => caller' = caller)
  <2>1. CASE NextUnwinds
    <3>1. caller' = "panicking" /\ caller \in {"iterating", "exhausted"} /\ ~Pending
      BY <2>1 DEF NextUnwinds, NextPanics, CanCall
    <3>2. PanicsAreExplained'
      <4>1. PanicInv'
        BY DEF IteratorInv
      <4> QED  BY <4>1, PanicInvExplains, PTL
    <3>3. cur' = cur /\ cur \in DOMAIN list
      BY <2>1 DEF NextUnwinds, NextPanics, ToolInv, IteratorInv, MemoryInv, Shape
    <3> QED  BY <1>1, <3>1, <3>2, <3>3 DEF PanicsAreExplained, ReasonToPanic
  <2>2. CASE \E names \in GetNameInfo : PrintPanics(names)
    <3>1. /\ Pending /\ caller' = caller /\ Item.kind = "ok"
          /\ "stdout" \notin readers \/ NeedsName(args.verbose)
      BY <2>2 DEF PrintPanics, vars
    <3>2. caller' = "iterating"
      BY <1>1, <3>1 DEF ToolInv, NetInv, OneAtATime, StatusAgrees
    <3>3. \E k \in DOMAIN list : IsSocket(list[k])
      <4>1. Len(shown) + 1 \in DOMAIN list
        BY <3>1, ItemIs, ResultsAre DEF ToolInv
      <4>2. IsSocket(list[Len(shown) + 1])
        BY <3>1, ItemIs DEF FromPtr, Panic
      <4> QED  BY <4>1, <4>2
    <3> QED  BY <1>1, <3>1, <3>2, <3>3 DEF ReasonToPanic, NeedsName
  <2>3. CASE ReportPanics
    <3>1. Pending /\ caller' = caller /\ "stderr" \notin readers
      BY <2>3 DEF ReportPanics, vars
    <3>2. caller' = "iterating"
      BY <1>1, <3>1 DEF ToolInv, NetInv, OneAtATime, StatusAgrees
    <3> QED  BY <1>1, <3>1, <3>2 DEF ReasonToPanic
  <2> QED  BY <2>1, <2>2, <2>3
<1>3. NetTypeOK' /\ CarefulCallsDontPanic' /\ AnswerIsShown'
  BY <1>1 DEF ToolInv, NetInv, NetTypeOK, CarefulCallsDontPanic, AnswerIsShown, Alive
<1>4. OneAtATime'
  BY <1>1, <1>2 DEF ToolInv, NetInv, OneAtATime, Pending, StatusAgrees
<1>5. StatusAgrees'
  BY <1>1, <1>2 DEF ToolInv, NetInv, StatusAgrees, HasIterator
<1> QED  BY <1>3, <1>4, <1>5 DEF NetInv

(* Nobody reads an output any more: a reason to panic remains one.         *)
LEMMA StepReaderLeaves == ASSUME ToolInv, ReaderLeaves PROVE NetInv'
<1>1. /\ readers' \subseteq readers /\ UNCHANGED <<args, status, shown>>
      /\ UNCHANGED <<caller, hints, list, live, results>>
  BY DEF ReaderLeaves, vars
<1>2. ReasonToPanic => ReasonToPanic'
  BY <1>1 DEF ReasonToPanic
<1> QED
  BY <1>1, <1>2
     DEF ToolInv, NetInv, NetTypeOK, OneAtATime, Pending, StatusAgrees, HasIterator,
         CarefulCallsDontPanic, AnswerIsShown, Alive

(* The iterator goes, at the end of the loop or with the panic.            *)
LEMMA StepEnds == ASSUME ToolInv, Return \/ Unwinds, IteratorInv' PROVE NetInv'
<1>1. /\ caller' = "dropped" /\ UNCHANGED <<args, readers, shown, hints, list, results>>
      /\ \/ status' = "ok" /\ caller = "exhausted"
         \/ status' = "panic" /\ status = "panicking"
      /\ HasIterator
  BY DEF Return, Unwinds, Drop
<1>2. NetTypeOK' /\ OneAtATime' /\ CarefulCallsDontPanic'
  BY <1>1
     DEF ToolInv, NetInv, NetTypeOK, OneAtATime, Pending, StatusAgrees, ReasonToPanic,
         CarefulCallsDontPanic
<1>3. StatusAgrees'
  BY <1>1 DEF ToolInv, NetInv, StatusAgrees, HasIterator
<1>4. AnswerIsShown'
  <2>1. NothingLeft'
    BY <1>3, NothingLives, PTL
  <2>2. status' = "ok" => Len(shown) = Len(list)
    <3> SUFFICES ASSUME status' = "ok" PROVE Len(shown) = Len(list)
      OBVIOUS
    <3>1. caller = "exhausted" /\ ~Pending
      BY <1>1 DEF ToolInv, NetInv, OneAtATime
    <3>2. Len(results) = Len(shown)
      BY <3>1 DEF ToolInv, NetInv, NetTypeOK, OneAtATime, Pending
    <3> QED  BY <3>1, <3>2, ResultsAre DEF ToolInv
  <2> QED  BY <1>1, <2>1, <2>2 DEF ToolInv, NetInv, AnswerIsShown, NothingLeft
<1> QED  BY <1>2, <1>3, <1>4 DEF NetInv

-----------------------------------------------------------------------------
(* The invariant.                                                          *)

LEMMA InitToolInv == NetInit => ToolInv
<1> SUFFICES ASSUME NetInit PROVE ToolInv
  OBVIOUS
<1>1. MemoryInv
  BY DEF NetInit, Init, MemoryInv, Shape, MemorySafe, HasIterator, Callers, Null
<1>2. DeliversInOrder
  BY DEF NetInit, Init, DeliversInOrder, Null
<1>3. PanicInv
  BY <1>1 DEF NetInit, Init, PanicInv, HintsHonoured, MemoryInv
<1>4. NetInv
  BY DEF NetInit, Init, NetInv, NetTypeOK, OneAtATime, Pending, StatusAgrees, HasIterator,
         CarefulCallsDontPanic, AnswerIsShown
<1> QED  BY <1>1, <1>2, <1>3, <1>4 DEF ToolInv, IteratorInv

LEMMA StepToolInv == ToolInv /\ [NetNext]_allVars => ToolInv'
<1> SUFFICES ASSUME ToolInv, [NetNext]_allVars PROVE ToolInv'
  OBVIOUS
<1>1. IteratorInv'
  BY StepIterator DEF ToolInv, NetInv
<1>2. CASE UNCHANGED allVars \/ Ended
  <2>1. UNCHANGED <<caller, hints, list, live, results, args, status, readers, shown>>
    BY <1>2 DEF Ended, allVars, vars, netVars
  <2>2. NetInv'
    BY <2>1
       DEF ToolInv, NetInv, NetTypeOK, OneAtATime, Pending, StatusAgrees,
           ReasonToPanic, HasIterator, CarefulCallsDontPanic, AnswerIsShown, Alive
  <2> QED  BY <1>1, <2>2 DEF ToolInv
<1>3. CASE NetNext
  <2>1. NetInv'
    BY <1>1, <1>2, <1>3, StepStart, StepCall, StepAskNext, StepPanics, StepShow,
       StepReaderLeaves, StepEnds
       DEF NetNext, ToolInv
  <2> QED  BY <1>1, <2>1 DEF ToolInv
<1> QED  BY <1>2, <1>3

(* What relates the process, its iterator, the answer and the lines it has *)
(* written holds in every state of the tool.                               *)
THEOREM ToolInvariant == NetSpec => []NetInv
<1>1. ToolInv => NetInv
  BY DEF ToolInv
<1> QED  BY <1>1, InitToolInv, StepToolInv, PTL DEF NetSpec

(* However long the answer, the tool writes a beginning of it, in order    *)
(* and each element to its own output; it writes all of it when it exits   *)
(* with success, and every exit, a panic included, frees the list.         *)
THEOREM AnswerShown == NetSpec => []AnswerIsShown
<1>1. NetInv => AnswerIsShown
  BY DEF NetInv
<1> QED  BY <1>1, ToolInvariant, PTL

(* Whatever the resolver answers and whoever leaves, a tool whose error    *)
(* output is read panics only over an address, and only when nobody reads  *)
(* the standard output, names were asked for, or the hints left something  *)
(* open.                                                                   *)
THEOREM CarefulCalls == NetSpec => []CarefulCallsDontPanic
<1>1. NetInv => CarefulCallsDontPanic
  BY DEF NetInv
<1> QED  BY <1>1, ToolInvariant, PTL

(* The tool is one of the callers the iterator was specified for: all that *)
(* is proved of the iterator holds inside the tool.                        *)
THEOREM ToolIsACaller == NetSpec => Spec
<1>1. NetInit => Init
  BY DEF NetInit
<1>2. NetInv /\ [NetNext]_allVars => [Next]_vars
  BY StepIsListStep DEF NetInv
<1> QED  BY <1>1, <1>2, ToolInvariant, PTL DEF NetSpec, Spec

=============================================================================
