---------------------------- MODULE AddrInfoList ----------------------------
(***************************************************************************)
(* net-addresses/src/getaddrinfo.rs: one call of getaddrinfo, the list it  *)
(* is given by the C library, and the AddrInfoIter that walks over the     *)
(* list, converts its elements and frees it.                               *)
(*                                                                         *)
(* A pointer into the list is the position of the element it points to,    *)
(* or Null.  The numbers of families, types and protocols are Linux's.     *)
(***************************************************************************)
EXTENDS Integers, Sequences

CONSTANTS
  Elements,  \* the family, socktype and protocol of what a resolver may find
  MaxLen     \* bound: the longest list

ASSUME ListAssumption ==
  /\ Elements \subseteq [family : Nat, socktype : Nat, protocol : Nat]
  /\ MaxLen \in Nat \ {0}

Null == 0

-----------------------------------------------------------------------------
(* The enums, their values (as c_int) and the way back (From<c_int>).      *)

AddrFamily == [Unspecified |-> 0, Inet |-> 2, Inet6 |-> 10]
SockType == [Unspecified |-> 0, Stream |-> 1, Datagram |-> 2, Raw |-> 3, SeqPacket |-> 5]
Protocol == [Unspecified |-> 0, Tcp |-> 6, Udp |-> 17, Sctp |-> 132]

Panic == "panic"

FamilyFrom(n) ==
  CASE n = 0 -> "Unspecified" [] n = 2 -> "Inet" [] n = 10 -> "Inet6" [] OTHER -> Panic

(* Mutant: an arm of the match is missing. *)
SockTypeFrom_NoSeqPacket(n) ==
  CASE n = 0 -> "Unspecified" [] n = 1 -> "Stream" [] n = 2 -> "Datagram" [] n = 3 -> "Raw"
    [] OTHER -> Panic

SockTypeFrom(n) ==
  CASE n = 0 -> "Unspecified" [] n = 1 -> "Stream" [] n = 2 -> "Datagram" [] n = 3 -> "Raw"
    [] n = 5 -> "SeqPacket" [] OTHER -> Panic

ProtocolFrom(n) ==
  CASE n = 0 -> "Unspecified" [] n = 6 -> "Tcp" [] n = 17 -> "Udp" [] n = 132 -> "Sctp"
    [] OTHER -> Panic

Hints == [family : DOMAIN AddrFamily, socktype : DOMAIN SockType, protocol : DOMAIN Protocol]

AsAddrinfo(h) ==
  [family |-> AddrFamily[h.family], socktype |-> SockType[h.socktype],
   protocol |-> Protocol[h.protocol]]

(* What the resolver answers agrees with the hints that are not zero. *)
Answers(hint) ==
  LET Agrees(e) == \A f \in DOMAIN hint : hint[f] \in {0, e[f]}
  IN  UNION {[1 .. n -> {e \in Elements : Agrees(e)}] : n \in 1 .. MaxLen}

(* SockAddr::as_socket knows only the two internet families. *)
IsSocket(e) == e.family \in {2, 10}

Converted(e) ==
  [family |-> FamilyFrom(e.family), socktype |-> SockTypeFrom(e.socktype),
   protocol |-> ProtocolFrom(e.protocol)]

Fails(e) == Panic \in {Converted(e)[f] : f \in DOMAIN Converted(e)}

(* Mutant: the fields are converted before the address is. *)
FromPtr_FieldsFirst(e) ==
  CASE Fails(e) -> [kind |-> Panic]
    [] ~Fails(e) /\ ~IsSocket(e) -> [kind |-> "unsupported"]
    [] OTHER -> [kind |-> "ok", info |-> Converted(e)]

(* AddrInfo::from_ptr: an address that is no socket address is an error,   *)
(* an enum without the value a panic.                                      *)
FromPtr(e) ==
  CASE ~IsSocket(e) -> [kind |-> "unsupported"]
    [] IsSocket(e) /\ Fails(e) -> [kind |-> Panic]
    [] OTHER -> [kind |-> "ok", info |-> Converted(e)]

-----------------------------------------------------------------------------
VARIABLES
  caller,   \* where the caller is: see Callers
  hints,    \* the hints of the call
  list,     \* the elements of the list the C library made
  live,     \* the positions whose memory has not been freed
  orig,     \* AddrInfoIter.orig
  cur,      \* AddrInfoIter.cur
  results,  \* history: what next has returned
  misused   \* history: freed memory was read, or freed again

vars == <<caller, hints, list, live, orig, cur, results, misused>>

Callers == {"calling", "failed", "iterating", "exhausted", "panicking", "dropped"}
HasIterator == caller \in {"iterating", "exhausted", "panicking"}
CanCall == caller \in {"iterating", "exhausted"}

Init ==
  /\ caller = "calling"
  /\ hints \in Hints
  /\ list = << >>
  /\ live = {}
  /\ orig = Null /\ cur = Null
  /\ results = << >>
  /\ misused = FALSE

-----------------------------------------------------------------------------
(* getaddrinfo.                                                            *)

(* Without a host and a service, or with a NUL byte in one of them, the    *)
(* resolver is not called.                                                 *)
InvalidInput(host, service) ==
  (host = "none" /\ service = "none") \/ "nul" \in {host, service}

Refuse(host, service) ==
  /\ caller = "calling"
  /\ InvalidInput(host, service)
  /\ caller' = "failed"
  /\ UNCHANGED <<hints, list, live, orig, cur, results, misused>>

(* A code other than 0 becomes an error; the list is the caller's only     *)
(* when the code is 0.                                                     *)
ResolverFails(host, service) ==
  /\ caller = "calling"
  /\ ~InvalidInput(host, service)
  /\ caller' = "failed"
  /\ UNCHANGED <<hints, list, live, orig, cur, results, misused>>

Resolves(host, service) ==
  /\ caller = "calling"
  /\ ~InvalidInput(host, service)
  /\ list' \in Answers(AsAddrinfo(hints))
  /\ live' = DOMAIN list'
  /\ orig' = 1 /\ cur' = 1
  /\ caller' = "iterating"
  /\ UNCHANGED <<hints, results, misused>>

-----------------------------------------------------------------------------
(* The iterator.                                                           *)

AiNext(p) == IF p = Len(list) THEN Null ELSE p + 1

(* The C function follows the list from the pointer it is given. *)
Freeaddrinfo(p) ==
  /\ live' = {q \in live : q < p}
  /\ misused' = (misused \/ p \notin live)

Reads(p) == misused' = (misused \/ p \notin live)

(* Mutant: an error is swallowed and the next element is not asked for. *)
NextItem_ErrorEnds ==
  LET item == FromPtr(list[cur]) IN
  /\ CanCall /\ cur # Null /\ item.kind # Panic
  /\ Reads(cur)
  /\ results' = IF item.kind = "unsupported" THEN results ELSE Append(results, item)
  /\ caller' = IF item.kind = "unsupported" THEN "exhausted" ELSE "iterating"
  /\ cur' = AiNext(cur)
  /\ UNCHANGED <<hints, list, live, orig>>

(* Mutant: the cursor is not moved. *)
NextItem_Stays ==
  LET item == FromPtr(list[cur]) IN
  /\ CanCall /\ cur # Null /\ item.kind # Panic
  /\ Reads(cur)
  /\ caller' = "iterating"
  /\ UNCHANGED <<hints, list, live, orig, cur, results>>

NextItem ==
  LET item == FromPtr(list[cur]) IN
  /\ CanCall /\ cur # Null /\ item.kind # Panic
  /\ Reads(cur)
  /\ results' = Append(results, item)
  /\ caller' = "iterating"
  /\ cur' = AiNext(cur)
  /\ UNCHANGED <<hints, list, live, orig>>

(* Mutant: the iterator frees the list as soon as it has been read. *)
NextNone_Frees ==
  /\ CanCall /\ cur = Null
  /\ caller' = "exhausted"
  /\ Freeaddrinfo(orig)
  /\ UNCHANGED <<hints, list, orig, cur, results>>

NextNone ==
  /\ CanCall /\ cur = Null
  /\ caller' = "exhausted"
  /\ UNCHANGED <<hints, list, live, orig, cur, results, misused>>

(* Mutant: the cursor is moved before the element is converted. *)
NextPanics_Moved ==
  /\ CanCall /\ cur # Null /\ FromPtr(list[cur]).kind = Panic
  /\ Reads(cur)
  /\ caller' = "panicking"
  /\ cur' = AiNext(cur)
  /\ UNCHANGED <<hints, list, live, orig, results>>

(* The panic leaves next before self.cur is assigned. *)
NextPanics ==
  /\ CanCall /\ cur # Null /\ FromPtr(list[cur]).kind = Panic
  /\ Reads(cur)
  /\ caller' = "panicking"
  /\ UNCHANGED <<hints, list, live, orig, cur, results>>

(* A caller may catch the panic and go on: it will meet the same element.  *)
Catch ==
  /\ caller = "panicking"
  /\ caller' = "iterating"
  /\ UNCHANGED <<hints, list, live, orig, cur, results, misused>>

(* Mutant: the rest of the list is freed, not the whole. *)
Drop_FromCursor ==
  /\ HasIterator
  /\ Freeaddrinfo(cur)
  /\ caller' = "dropped"
  /\ UNCHANGED <<hints, list, orig, cur, results>>

(* The iterator goes when for_each returns, when a panic unwinds through   *)
(* its owner, or when the caller has seen enough.                          *)
Drop ==
  /\ HasIterator
  /\ Freeaddrinfo(orig)
  /\ caller' = "dropped"
  /\ UNCHANGED <<hints, list, orig, cur, results>>

Over == caller \in {"failed", "dropped"} /\ UNCHANGED vars

Arguments == {"none", "nul", "text"}

Next ==
  \/ \E host, service \in Arguments :
       Refuse(host, service) \/ ResolverFails(host, service) \/ Resolves(host, service)
  \/ NextItem \/ NextNone \/ NextPanics \/ Catch \/ Drop
  \/ Over

Spec == Init /\ [][Next]_vars

(* for_each, as in main: the iterator is asked until it has nothing more,  *)
(* and dropped then or by a panic.  A caller that catches panics does not  *)
(* do so for ever: hence the strong fairness.                              *)
ForEach == caller = "iterating" /\ (NextItem \/ NextNone \/ NextPanics)
Unwind == caller \in {"exhausted", "panicking"} /\ Drop

FairSpec == Spec /\ WF_vars(ForEach) /\ SF_vars(Unwind)

-----------------------------------------------------------------------------
TypeOK ==
  /\ caller \in Callers
  /\ hints \in Hints
  /\ list \in Seq(Elements) /\ Len(list) <= MaxLen
  /\ live \subseteq DOMAIN list
  /\ orig \in {Null} \cup DOMAIN list
  /\ cur \in {Null} \cup DOMAIN list
  /\ Len(results) <= Len(list)
  /\ misused \in BOOLEAN

(* The iterator never reads memory it has given back and never gives it    *)
(* back twice; and when it is gone, after any number of items, an error, a *)
(* None or a panic, the whole list has been freed, from its head.          *)
MemorySafe ==
  /\ ~misused
  /\ live = IF HasIterator THEN DOMAIN list ELSE {}

(* What next has returned is the list, converted, from its head to the     *)
(* cursor: nothing is skipped, repeated or reordered, an element that is   *)
(* an error included.  After a None it is the whole list, and stays it:    *)
(* the iterator is fused.                                                  *)
DeliversInOrder ==
  LET seen == IF cur = Null THEN Len(list) ELSE cur - 1 IN
  /\ results = [k \in 1 .. seen |-> FromPtr(list[k])]
  /\ caller = "exhausted" => seen = Len(list)

(* An address family the program does not know is an error the caller can  *)
(* skip.  Only a socket type or a protocol that the hints left open can    *)
(* make next panic.                                                        *)
PanicsAreExplained ==
  caller = "panicking" =>
    /\ IsSocket(list[cur])
    /\ "Unspecified" \in {hints.socktype, hints.protocol}

(* A loop over the iterator comes to an end and the list is freed.         *)
IterationEnds == caller = "iterating" ~> caller = "dropped"

=============================================================================
