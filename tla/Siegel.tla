--------------------------------- MODULE Siegel ---------------------------------
(***************************************************************************)
(* Siegel<Empty> and Siegel<Loaded> (siegel/src/lib.rs) over the steps of  *)
(* their ProtectedRegion.  A call that takes `self` and does not hand it   *)
(* back drops it before it returns, on errors and on unwinding alike: from *)
(* then on the siegel is "Dropping" and only the region's Drop is left.    *)
(***************************************************************************)
EXTENDS ProtectedRegion, Sequences

CONSTANT NoSecret    (* not a content: there is none to read                 *)

ASSUME SiegelAssumption == NoSecret \notin Contents

VARIABLES
  siegel,   (* its type state, or "none", "Dropping", "Dropped"              *)
  call,     (* the method in progress, or "none"                             *)
  closure,  (* what the writing closure made of it: "none", "ok", "err"      *)
  outcome,  (* what the call returns: "ok", an error, "panic" or "closure"   *)
  seen      (* history: what each run of a reading closure was given          *)

siegelVars == <<siegel, call, closure, outcome, seen>>
allVars    == <<vars, siegelVars>>

(* enum SiegelError.                                                        *)
SiegelErrors ==
  {"InvalidLength", "LengthMismatch", "AllocationFailed", "ProtectionFailed",
   "CanaryCorrupted"}

(* From<ProtectionError>; a panic unwinds as it is.                         *)
ErrorOf ==
  [InvalidSize |-> "InvalidLength",      Mmap |-> "AllocationFailed",
   Mprotect    |-> "ProtectionFailed",   CanaryCorrupted |-> "CanaryCorrupted",
   panic       |-> "panic"]

Idle(state) == siegel = state /\ call = "none" /\ pc = "idle"

Drops(why) == siegel' = "Dropping" /\ outcome' = why

-------------------------------------------------------------------------------
(* Siegel::new.                                                             *)

New ==
  /\ siegel = "none"
  /\ \/ \E n \in Sizes : NewMmap(n) /\ outcome' = "pending"
     \/ \E n \in Sizes : NewRejected(n) /\ outcome' = ErrorOf[result']
     \/ (NewOpen \/ NewLock) /\ UNCHANGED outcome
     \/ NewAbandoned /\ outcome' = ErrorOf[result']
  /\ UNCHANGED <<siegel, call, closure, seen>>

NewReturn ==
  /\ siegel = "none"
  /\ NewSeal
  /\ siegel' = "Empty" /\ outcome' = "ok"
  /\ UNCHANGED <<call, closure, seen>>

-------------------------------------------------------------------------------
(* write and write_with.                                                    *)

Write(n, ok) ==
  /\ Idle("Empty")
  /\ call' = "write" /\ closure' = "none" /\ UNCHANGED seen
  /\ \/ n # size /\ ok /\ Drops("LengthMismatch") /\ UNCHANGED vars
     \/ /\ n = size
        /\ OpenWrite(ok)
        /\ IF ok THEN outcome' = "pending" /\ UNCHANGED siegel
                 ELSE Drops(ErrorOf[result'])

WriteWith(ok) ==
  /\ Idle("Empty")
  /\ OpenWrite(ok)
  /\ call' = "write_with" /\ closure' = "none" /\ UNCHANGED seen
  /\ IF ok THEN outcome' = "pending" /\ UNCHANGED siegel
           ELSE Drops(ErrorOf[result'])

(* The closure of `write` copies the caller's bytes; that of write_with may *)
(* write, then fail or panic.                                               *)
WriteBody(v, how) ==
  /\ call \in {"write", "write_with"}
  /\ call = "write" => how = "ok"
  /\ WriteClosure(v, how = "panic")
  /\ closure' = how
  /\ UNCHANGED <<siegel, call, outcome, seen>>

(* Mutant of WriteReturn: a failed closure hands the Siegel<Empty> back.    *)
WriteReturnKeepsEmpty(ok) ==
  /\ call \in {"write", "write_with"}
  /\ GuardDrop(ok)
  /\ \/ /\ result = "ok" /\ closure = "ok"
        /\ siegel' = "Loaded" /\ call' = "none" /\ outcome' = "ok"
     \/ /\ result = "ok" /\ closure = "err"
        /\ outcome' = "closure" /\ call' = "none" /\ UNCHANGED siegel
     \/ result # "ok" /\ Drops(ErrorOf[result]) /\ UNCHANGED call
  /\ UNCHANGED <<closure, seen>>

(* Mutant of WriteReturn: the error of the reseal does not end the call.    *)
WriteReturnIgnoresReseal(ok) ==
  /\ call \in {"write", "write_with"}
  /\ GuardDrop(ok)
  /\ \/ /\ closure = "ok"
        /\ siegel' = "Loaded" /\ call' = "none" /\ outcome' = "ok"
     \/ closure # "ok" /\ Drops("closure") /\ UNCHANGED call
  /\ UNCHANGED <<closure, seen>>

WriteReturn(ok) ==
  /\ call \in {"write", "write_with"}
  /\ GuardDrop(ok)
  /\ \/ /\ result = "ok" /\ closure = "ok"
        /\ siegel' = "Loaded" /\ call' = "none" /\ outcome' = "ok"
     \/ result = "ok" /\ closure = "err" /\ Drops("closure") /\ UNCHANGED call
     \/ result # "ok" /\ Drops(ErrorOf[result]) /\ UNCHANGED call
  /\ UNCHANGED <<closure, seen>>

-------------------------------------------------------------------------------
(* read_once: whatever happens, `self` is dropped at the end.               *)

ReadOnce(ok) ==
  /\ Idle("Loaded")
  /\ VerifyCanary(ok)
  /\ call' = "read_once" /\ UNCHANGED <<closure, seen>>
  /\ IF ok THEN outcome' = "pending" /\ UNCHANGED siegel
           ELSE Drops(ErrorOf[result'])

ReadRefused(ok) ==
  /\ SealBadCanary(ok)
  /\ Drops(ErrorOf[result'])
  /\ UNCHANGED <<call, closure, seen>>

ReadBody(panics) ==
  /\ ReadClosure(panics)
  /\ seen' = Append(seen, data)
  /\ UNCHANGED <<siegel, call, closure, outcome>>

(* Mutant of ReadReturn: a successful read leaves the siegel Loaded.        *)
ReadReturnKeepsLoaded(ok) ==
  /\ call = "read_once"
  /\ GuardDrop(ok)
  /\ IF result = "ok"
     THEN outcome' = "ok" /\ call' = "none" /\ UNCHANGED siegel
     ELSE Drops(ErrorOf[result]) /\ UNCHANGED call
  /\ UNCHANGED <<closure, seen>>

(* Mutant of ReadReturn: a failed reseal is reported as a corrupted canary. *)
ReadReturnBlamesCanary(ok) ==
  /\ call = "read_once"
  /\ GuardDrop(ok)
  /\ Drops(IF result = "ok" THEN "ok" ELSE "CanaryCorrupted")
  /\ UNCHANGED <<call, closure, seen>>

ReadReturn(ok) ==
  /\ call = "read_once"
  /\ GuardDrop(ok)
  /\ Drops(IF result = "ok" THEN "ok" ELSE ErrorOf[result])
  /\ UNCHANGED <<call, closure, seen>>

-------------------------------------------------------------------------------
(* Steps inside the region's accessors, and the region's Drop.              *)

Overrun(off) == StrayWrite(off) /\ UNCHANGED siegelVars

Reseal(ok) == Finish(ok) /\ UNCHANGED siegelVars

Obliviate ==
  /\ Idle("Empty") \/ Idle("Loaded")
  /\ Drop
  /\ call' = "obliviate" /\ Drops("ok")
  /\ UNCHANGED <<closure, seen>>

SiegelZeroize ==
  /\ Idle("Empty") \/ Idle("Loaded")
  /\ Zeroize
  /\ UNCHANGED siegelVars

DropRegion == siegel = "Dropping" /\ Drop /\ UNCHANGED siegelVars

(* Mutant of Unmap: the region is forgotten after its wipe.                 *)
UnmapForgotten ==
  /\ siegel = "Dropping" /\ pc = "unmap"
  /\ siegel' = "Dropped" /\ call' = "none" /\ pc' = "absent"
  /\ UNCHANGED <<pages, protection, memory, result, faults, closure, outcome, seen>>

Unmap ==
  /\ siegel = "Dropping"
  /\ Munmap
  /\ siegel' = "Dropped" /\ call' = "none"
  /\ UNCHANGED <<closure, outcome, seen>>

-------------------------------------------------------------------------------

SiegelInit ==
  /\ Init
  /\ siegel = "none" /\ call = "none" /\ closure = "none" /\ outcome = "none"
  /\ seen = <<>>

(* The steps a started call still has to take.                              *)
InCall ==
  \/ siegel = "none" /\ pc # "absent" /\ (New \/ NewReturn)
  \/ \E v \in Contents, how \in {"ok", "err", "panic"} : WriteBody(v, how)
  \/ \E panics \in BOOLEAN : ReadBody(panics)
  \/ \E ok \in BOOLEAN :
       Reseal(ok) \/ WriteReturn(ok) \/ ReadRefused(ok) \/ ReadReturn(ok)
  \/ DropRegion \/ Unmap

SiegelNext ==
  \/ InCall
  \/ pc = "absent" /\ New
  \/ \E n \in Sizes, ok \in BOOLEAN : Write(n, ok)
  \/ \E ok \in BOOLEAN : WriteWith(ok) \/ ReadOnce(ok)
  \/ \E off \in size..DataPagesLen(size) : Overrun(off)
  \/ Obliviate \/ SiegelZeroize

SiegelSafety == SiegelInit /\ [][SiegelNext]_allVars

(* A started call runs on: its thread is scheduled and closures terminate.  *)
SiegelSpec == SiegelSafety /\ WF_allVars(InCall)

-------------------------------------------------------------------------------
(* Properties.                                                              *)

Dead == pc \in {"crashed", "trapped"}

(* Every variable has its type.                                             *)
SiegelTypeOK ==
  /\ TypeOK
  /\ siegel \in {"none", "Empty", "Loaded", "Dropping", "Dropped"}
  /\ call \in {"none", "write", "write_with", "read_once", "obliviate"}
  /\ closure \in {"none", "ok", "err", "panic"}
  /\ outcome \in {"none", "pending", "ok", "closure", "panic"} \cup SiegelErrors
  /\ seen \in Seq(Contents)

(* "buffer starts zeroed": no writing closure ever finds an earlier         *)
(* closure's bytes, although closures may fail or panic half-way.           *)
StartsZeroed == pc = "writing" => data = Zero

(* A siegel its owner can still use never rests readable: whatever left the *)
(* pages open (a reseal refused twice, a panic) has also consumed it.       *)
NeverRestsExposed == Idle("Empty") \/ Idle("Loaded") => ~Exposed

(* What read_once reports tells whether the closure ran: it did on "ok" and *)
(* on a panic, it did not on a corrupted canary; ProtectionFailed leaves it *)
(* open, which is why siegel_take has to wipe its destination then.         *)
OutcomeTellsUse ==
  call = "read_once" /\ siegel = "Dropping" =>
    /\ outcome \in {"ok", "panic"} => seen # <<>>
    /\ outcome = "CanaryCorrupted" => seen = <<>>

(* A siegel that is going away has its pages wiped and unmapped, or its     *)
(* process dies.                                                            *)
DroppingEnds ==
  siegel = "Dropping" ~> (siegel = "Dropped" /\ pages = "Unmapped") \/ Dead

(* The promise: to a user a siegel is a one-time secret.                    *)
phaseBar ==
  IF siegel = "none" THEN "absent"
  ELSE IF siegel \in {"Dropping", "Dropped"} \/ seen # <<>> THEN "consumed"
  ELSE IF ~canary THEN "spoiled"
  ELSE IF siegel = "Empty" THEN "empty" ELSE "loaded"

secretBar == IF phaseBar = "loaded" THEN data ELSE NoSecret

Promise == INSTANCE OneTimeSecret
             WITH Values <- Contents, phase <- phaseBar, secret <- secretBar

(* Siegel implements OneTimeSecret under that mapping.                      *)
OneTime == Promise!Spec

================================================================================
