---------------------------- MODULE NetAddresses ----------------------------
(***************************************************************************)
(* net-addresses/src/main.rs: the command line tool, from its arguments    *)
(* over the iterator of AddrInfoList, whose caller it is, to its exit.     *)
(*                                                                         *)
(* Every item that next delivers is printed before the next one is asked   *)
(* for.  Printing can panic: println!, eprintln! and dbg! do when nobody   *)
(* reads the output they write to, and println! does when the Debug form   *)
(* of an address cannot resolve its name.                                  *)
(***************************************************************************)
EXTENDS AddrInfoList

VARIABLES
  args,    \* the arguments, apart from the hints
  status,  \* "starting", "running" or "panicking", then how the process ended
  readers, \* the outputs that somebody reads
  shown    \* history: the items written, in order, and where to

netVars == <<args, status, readers, shown>>
allVars == <<vars, netVars>>

Outputs == {"stdout", "stderr"}
Alive == status \in {"starting", "running", "panicking"}

CliArgs ==
  [host : {"none", "text"}, service : {"none", "text"}, canonname : BOOLEAN, verbose : 0 .. 3]

(* clap: one of host and service is required, a canonical name needs a     *)
(* host, and the verbosity has a range.                                    *)
Rejected(a) ==
  \/ a.host = "none" /\ a.service = "none"
  \/ a.canonname /\ a.host = "none"
  \/ a.verbose \notin 0 .. 2

NetInit ==
  /\ Init
  /\ args \in CliArgs
  /\ status = "starting"
  /\ readers = Outputs
  /\ shown = << >>

-----------------------------------------------------------------------------
(* A usage error ends the process, whether it could be written or not.     *)
Usage ==
  /\ status = "starting" /\ Rejected(args)
  /\ status' = "usage"
  /\ UNCHANGED <<vars, args, readers, shown>>

(* dbg! writes the arguments to the error output. *)
DebugArgs ==
  /\ status = "starting" /\ ~Rejected(args)
  /\ "stderr" \in readers
  /\ status' = "running"
  /\ UNCHANGED <<vars, args, readers, shown>>

DebugPanics ==
  /\ status = "starting" /\ ~Rejected(args)
  /\ "stderr" \notin readers
  /\ status' = "panic"
  /\ UNCHANGED <<vars, args, readers, shown>>

(* The error of getaddrinfo is the result of main, which is written to the *)
(* error output if it can be, and never panics.                            *)
CallFails ==
  /\ status = "running"
  /\ ResolverFails(args.host, args.service)
  /\ status' = "error"
  /\ UNCHANGED <<args, readers, shown>>

CallReturns ==
  /\ status = "running"
  /\ Resolves(args.host, args.service)
  /\ UNCHANGED netVars

Pending == Len(results) > Len(shown)
Item == results[Len(results)]

(* for_each asks for the next item when it has dealt with the last. *)
AskNext ==
  /\ status = "running" /\ ~Pending
  /\ NextItem \/ (caller = "iterating" /\ NextNone)
  /\ UNCHANGED netVars

NextUnwinds ==
  /\ status = "running" /\ ~Pending
  /\ NextPanics
  /\ status' = "panicking"
  /\ UNCHANGED <<args, readers, shown>>

-----------------------------------------------------------------------------
(* The closure given to for_each.                                          *)

(* What a reverse lookup may give. *)
GetNameInfo == {"names", "error"}

(* Mutant: the name is looked up for the plain form as well. *)
NeedsName_Always(verbosity) == TRUE

(* get_printer: Display at verbosity 0, Debug, which looks the name up, at *)
(* 1 and 2.                                                                *)
NeedsName(verbosity) == verbosity > 0

Show(names) ==
  /\ status = "running" /\ Pending /\ Item.kind = "ok"
  /\ "stdout" \in readers /\ (NeedsName(args.verbose) => names = "names")
  /\ shown' = Append(shown, [on |-> "stdout", item |-> Item])
  /\ UNCHANGED <<vars, args, status, readers>>

PrintPanics(names) ==
  /\ status = "running" /\ Pending /\ Item.kind = "ok"
  /\ "stdout" \notin readers \/ (NeedsName(args.verbose) /\ names = "error")
  /\ status' = "panicking"
  /\ UNCHANGED <<vars, args, readers, shown>>

(* Mutant: an element that is an error ends the loop, as with try_for_each. *)
Report_Stops ==
  /\ status = "running" /\ Pending /\ Item.kind = "unsupported"
  /\ "stderr" \in readers
  /\ shown' = Append(shown, [on |-> "stderr", item |-> Item])
  /\ Drop
  /\ status' = "ok"
  /\ UNCHANGED <<args, readers>>

(* An element that is an error is reported and the loop goes on. *)
Report ==
  /\ status = "running" /\ Pending /\ Item.kind = "unsupported"
  /\ "stderr" \in readers
  /\ shown' = Append(shown, [on |-> "stderr", item |-> Item])
  /\ UNCHANGED <<vars, args, status, readers>>

ReportPanics ==
  /\ status = "running" /\ Pending /\ Item.kind = "unsupported"
  /\ "stderr" \notin readers
  /\ status' = "panicking"
  /\ UNCHANGED <<vars, args, readers, shown>>

(* Whoever reads an output may stop doing so, at any time. *)
ReaderLeaves ==
  /\ Alive
  /\ \E output \in readers : readers' = readers \ {output}
  /\ UNCHANGED <<vars, args, status, shown>>

-----------------------------------------------------------------------------
(* The iterator belongs to for_each: it goes when for_each returns, and    *)
(* when a panic unwinds through it.                                        *)
Return ==
  /\ status = "running" /\ caller = "exhausted"
  /\ Drop
  /\ status' = "ok"
  /\ UNCHANGED <<args, readers, shown>>

Unwinds ==
  /\ status = "panicking"
  /\ Drop
  /\ status' = "panic"
  /\ UNCHANGED <<args, readers, shown>>

Ended == ~Alive /\ UNCHANGED allVars

NetNext ==
  \/ Usage \/ DebugArgs \/ DebugPanics \/ CallFails \/ CallReturns
  \/ AskNext \/ NextUnwinds
  \/ \E names \in GetNameInfo : Show(names) \/ PrintPanics(names)
  \/ Report \/ ReportPanics \/ ReaderLeaves
  \/ Return \/ Unwinds
  \/ Ended

NetSpec == NetInit /\ [][NetNext]_allVars

-----------------------------------------------------------------------------
(* What the tool shows is the resolver's answer in its order, addresses on *)
(* the standard output and unsupported elements on the error output.  An   *)
(* exit with success means that nothing of the answer is missing; any      *)
(* other exit leaves no list behind either.                                *)
AnswerIsShown ==
  /\ Len(shown) <= Len(list)
  /\ \A k \in DOMAIN shown :
       shown[k] = [on |-> IF IsSocket(list[k]) THEN "stdout" ELSE "stderr",
                   item |-> FromPtr(list[k])]
  /\ status = "ok" => Len(shown) = Len(list)
  /\ ~Alive => live = {}

(* Who or what a panic is due to. *)
ReasonToPanic ==
  \/ "stderr" \notin readers
  \/ /\ \E k \in DOMAIN list : IsSocket(list[k])
     /\ \/ "stdout" \notin readers
        \/ args.verbose > 0
        \/ "Unspecified" \in {hints.socktype, hints.protocol}

(* As long as its error output is read, the tool panics only over an       *)
(* address it has found, and for one of three reasons: nobody reads the    *)
(* standard output, a name was to be looked up for a verbose output, or    *)
(* the user left the socket type or the protocol open and the answer has   *)
(* one the enums do not know.                                              *)
CarefulCallsDontPanic == status = "panic" => ReasonToPanic

-----------------------------------------------------------------------------
(* What makes these inductive, together with AddrInfoList's own invariants.*)

Lines == [on : Outputs, item : {FromPtr(e) : e \in Elements}]

NetTypeOK ==
  /\ args \in CliArgs
  /\ status \in {"starting", "running", "panicking", "ok", "panic", "usage", "error"}
  /\ readers \subseteq Outputs
  /\ shown \in Seq(Lines)

(* No item is asked for before the last one is shown. *)
OneAtATime ==
  /\ Len(results) \in {Len(shown), Len(shown) + 1}
  /\ Pending => caller \in {"iterating", "dropped"}

(* Where the process is in its life, and where its iterator. *)
StatusAgrees ==
  /\ status \in {"starting", "usage"} => caller = "calling"
  /\ status = "running" => caller \in {"calling", "iterating", "exhausted"}
  /\ status = "panicking" => caller \in {"iterating", "panicking"} /\ ReasonToPanic
  /\ HasIterator => status \in {"running", "panicking"}

(* The inductive invariant. *)
NetInv ==
  NetTypeOK /\ OneAtATime /\ StatusAgrees /\ AnswerIsShown /\ CarefulCallsDontPanic

=============================================================================
