------------------------------ MODULE SiegelProofs ------------------------------
(***************************************************************************)
(* Proofs about Siegel.  Every step of a Siegel is a step of its region or *)
(* leaves it alone, so the region's IInv holds throughout; SInv adds where *)
(* the region may stand in each type state.  From both follow two safety   *)
(* properties and that Siegel implements OneTimeSecret.                    *)
(***************************************************************************)
EXTENDS Siegel, ProtectedRegionProofs, SequenceTheorems

Writing == call \in {"write", "write_with"}

(* Before new returns.                                                      *)
NoneInv ==
  siegel = "none" =>
    pc \in {"absent", "open", "lock", "seal"} /\ call = "none" /\ seen = <<>>

(* A Siegel<Empty> is blank until the closure has run, and is not read.     *)
EmptyInv ==
  siegel = "Empty" =>
    /\ pc \in {"idle", "writing", "finish", "guard", "crashed", "trapped"}
    /\ seen = <<>>
    /\ pc = "idle" => call = "none"
    /\ pc \in {"writing", "finish", "guard"} => Writing
    /\ pc \in {"idle", "writing"} => data = Zero

(* A Siegel<Loaded> rests sealed or wiped, and is unread until read_once.   *)
LoadedInv ==
  siegel = "Loaded" =>
    /\ pc \in {"idle", "bad_canary", "reading", "finish", "guard", "crashed"}
    /\ pc = "idle" => call = "none" /\ ~Exposed
    /\ pc \in {"bad_canary", "reading", "finish", "guard"} => call = "read_once"
    /\ pc \in {"idle", "bad_canary", "reading", "crashed"} => seen = <<>>
    /\ pc \in {"finish", "guard"} => seen # <<>>

GoneInv ==
  /\ siegel = "Dropping" => pc \in {"idle", "unmap", "crashed"}
  /\ siegel = "Dropped" => pc = "absent"

SInv ==
  /\ IInv
  /\ SiegelTypeOK
  /\ NoneInv /\ EmptyInv /\ LoadedInv /\ GoneInv /\ OutcomeTellsUse

-------------------------------------------------------------------------------
(* The region's own invariant carries over.                                 *)

LEMMA RegionStep == SiegelNext => [Next]_vars
<1> SUFFICES ASSUME SiegelNext PROVE [Next]_vars
  OBVIOUS
<1>1. ASSUME NEW n \in Sizes, NEW ok \in BOOLEAN, Write(n, ok) PROVE [Next]_vars
  BY <1>1 DEF Write, Next
<1>2. ASSUME InCall PROVE [Next]_vars
  <2>1. CASE New \/ NewReturn
    BY <2>1 DEF New, NewReturn, Next
  <2>2. ASSUME NEW v \in Contents, NEW how \in {"ok", "err", "panic"}, WriteBody(v, how)
        PROVE  [Next]_vars
    BY <2>2 DEF WriteBody, Next
  <2>3. ASSUME NEW panics \in BOOLEAN, ReadBody(panics) PROVE [Next]_vars
    BY <2>3 DEF ReadBody, Next
  <2>4. ASSUME NEW ok \in BOOLEAN,
               Reseal(ok) \/ WriteReturn(ok) \/ ReadRefused(ok) \/ ReadReturn(ok)
        PROVE  [Next]_vars
    BY <2>4 DEF Reseal, WriteReturn, ReadRefused, ReadReturn, Next
  <2>5. CASE DropRegion \/ Unmap
    BY <2>5 DEF DropRegion, Unmap, Next
  <2> QED
    BY <1>2, <2>1, <2>2, <2>3, <2>4, <2>5 DEF InCall
<1>3. CASE New
  BY <1>3 DEF New, Next
<1>4. ASSUME NEW ok \in BOOLEAN, WriteWith(ok) \/ ReadOnce(ok) PROVE [Next]_vars
  BY <1>4 DEF WriteWith, ReadOnce, Next
<1>5. ASSUME NEW off \in size..DataPagesLen(size), Overrun(off) PROVE [Next]_vars
  BY <1>5 DEF Overrun, Next
<1>6. CASE Obliviate \/ SiegelZeroize
  BY <1>6 DEF Obliviate, SiegelZeroize, Next
<1> QED
  BY <1>1, <1>2, <1>3, <1>4, <1>5, <1>6 DEF SiegelNext

LEMMA SInvInit == SiegelInit => SInv
<1> SUFFICES ASSUME SiegelInit PROVE SInv
  OBVIOUS
<1>1. IInv
  BY InitIInv DEF SiegelInit
<1>2. TypeOK
  BY <1>1 DEF IInv
<1>3. <<>> \in Seq(Contents)
  OBVIOUS
<1>4. pc = "absent" /\ seen = <<>> /\ siegel = "none"
  BY DEF SiegelInit, Init
<1> QED
  BY <1>1, <1>2, <1>3, <1>4
     DEF SInv, SiegelInit, SiegelTypeOK, SiegelErrors, NoneInv, EmptyInv, LoadedInv, GoneInv,
         OutcomeTellsUse

-------------------------------------------------------------------------------
(* One lemma for all steps: the typing of the siegel's own variables and    *)
(* the four state invariants, over a region step whose invariant is known.  *)

LEMMA SInvNext == SInv /\ [SiegelNext]_allVars => SInv'
<1> SUFFICES ASSUME SInv, [SiegelNext]_allVars PROVE SInv'
  OBVIOUS
<1>0. IInv /\ IInv' /\ TypeOK /\ TypeOK'
  <2>1. [Next]_vars
    BY RegionStep DEF allVars, vars, memory
  <2> QED
    BY <2>1, NextIInv DEF SInv, IInv
<1> DEFINE Goal == (SiegelTypeOK /\ NoneInv /\ EmptyInv /\ LoadedInv /\ GoneInv /\ OutcomeTellsUse)'
<1> SUFFICES Goal
  BY <1>0 DEF SInv
<1> USE <1>0
    DEF SInv, SiegelTypeOK, SiegelErrors, NoneInv, EmptyInv, LoadedInv, GoneInv, OutcomeTellsUse,
        Writing, siegelVars, Idle, Drops, ErrorOf, Return, memory, Exposed
<1>1. ASSUME New PROVE Goal
  <2>1. siegel = "none" /\ UNCHANGED <<siegel, call, closure, seen>>
    BY <1>1 DEF New
  <2>2. ASSUME NEW n \in Sizes, NewMmap(n), outcome' = "pending" PROVE Goal
    BY <2>1, <2>2 DEF NewMmap
  <2>3. ASSUME NEW n \in Sizes, NewRejected(n), outcome' = ErrorOf[result'] PROVE Goal
    BY <2>1, <2>3 DEF NewRejected
  <2>4. ASSUME NewOpen \/ NewLock, UNCHANGED outcome PROVE Goal
    BY <2>1, <2>4 DEF NewOpen, NewLock, Mlock
  <2>5. ASSUME NewAbandoned, outcome' = ErrorOf[result'] PROVE Goal
    BY <2>1, <2>5 DEF NewAbandoned
  <2> QED
    BY <1>1, <2>2, <2>3, <2>4, <2>5 DEF New
<1>2. CASE NewReturn
  BY <1>2 DEF NewReturn, NewSeal, IInv, BlankAtPc
<1>3. ASSUME NEW n \in Sizes, NEW ok \in BOOLEAN, Write(n, ok) PROVE Goal
  BY <1>3 DEF Write, OpenWrite, vars
<1>4. ASSUME NEW ok \in BOOLEAN, WriteWith(ok) PROVE Goal
  BY <1>4 DEF WriteWith, OpenWrite
<1>5. ASSUME NEW v \in Contents, NEW how \in {"ok", "err", "panic"}, WriteBody(v, how)
      PROVE  Goal
  BY <1>5 DEF WriteBody, WriteClosure, LeaveClosure
<1>6. ASSUME NEW ok \in BOOLEAN, WriteReturn(ok) PROVE Goal
  BY <1>6 DEF WriteReturn, GuardDrop, MprotectNoaccess, Mprotect, IInv, GuardAtPc
<1>7. ASSUME NEW ok \in BOOLEAN, ReadOnce(ok) PROVE Goal
  BY <1>7 DEF ReadOnce, VerifyCanary
<1>8. ASSUME NEW ok \in BOOLEAN, ReadRefused(ok) PROVE Goal
  BY <1>8 DEF ReadRefused, SealBadCanary
<1>9. ASSUME NEW panics \in BOOLEAN, ReadBody(panics) PROVE Goal
  <2>1. Append(seen, data) \in Seq(Contents) /\ Append(seen, data) # <<>>
    <3> HIDE DEF SInv, LoadedInv, EmptyInv, NoneInv, GoneInv, Exposed
    <3>1. seen \in Seq(Contents) /\ data \in Contents
      BY DEF TypeOK, SInv
    <3> QED
      BY <3>1, AppendProperties
  <2>2. pc = "reading" /\ pc' \in {"finish", "guard"} /\ seen' = Append(seen, data)
    BY <1>9 DEF ReadBody, ReadClosure, LeaveClosure
  <2>3. UNCHANGED <<siegel, call, closure, outcome>>
    BY <1>9 DEF ReadBody
  <2>4. siegel = "Loaded" /\ call = "read_once"
    BY <2>2
  <2>5. seen' \in Seq(Contents) /\ seen' # <<>>
    BY <2>1, <2>2
  <2> QED
    BY <2>2, <2>3, <2>4, <2>5
<1>10. ASSUME NEW ok \in BOOLEAN, ReadReturn(ok) PROVE Goal
  BY <1>10 DEF ReadReturn, GuardDrop, IInv, GuardAtPc
<1>11. ASSUME NEW ok \in BOOLEAN, Reseal(ok) PROVE Goal
  BY <1>11 DEF Reseal, Finish
<1>12. ASSUME NEW off \in size..DataPagesLen(size), Overrun(off) PROVE Goal
  BY <1>12 DEF Overrun, StrayWrite
<1>13. CASE Obliviate
  BY <1>13 DEF Obliviate, Drop, Wipe
<1>14. CASE SiegelZeroize
  BY <1>14 DEF SiegelZeroize, Zeroize, Wipe
<1>15. CASE DropRegion
  BY <1>15 DEF DropRegion, Drop, Wipe
<1>16. CASE Unmap
  BY <1>16 DEF Unmap, Munmap
<1>17. CASE UNCHANGED allVars
  BY <1>17 DEF allVars, vars
<1> QED
  BY <1>1, <1>2, <1>3, <1>4, <1>5, <1>6, <1>7, <1>8, <1>9, <1>10, <1>11, <1>12,
     <1>13, <1>14, <1>15, <1>16, <1>17 DEF SiegelNext, InCall

THEOREM SInvInvariant == SiegelSafety => []SInv
BY SInvInit, SInvNext, PTL DEF SiegelSafety

-------------------------------------------------------------------------------
(* Safety properties of a siegel.                                           *)

(* Every variable of a siegel keeps its type, outcomes included: a call     *)
(* answers with a SiegelError, a panic or what its closure said.            *)
THEOREM SiegelTypeCorrect == SiegelSafety => []SiegelTypeOK
<1>1. SInv => SiegelTypeOK
  BY DEF SInv
<1> QED
  BY <1>1, SInvInvariant, PTL

(* A writing closure always starts on zeros.                                *)
THEOREM StartsZeroedHolds == SiegelSafety => []StartsZeroed
<1>1. SInv => StartsZeroed
  BY DEF SInv, SiegelTypeOK, SiegelErrors, NoneInv, EmptyInv, LoadedInv, GoneInv, StartsZeroed
<1> QED
  BY <1>1, SInvInvariant, PTL

(* A siegel that can still be used never rests with a secret readable.      *)
THEOREM NeverRestsExposedHolds == SiegelSafety => []NeverRestsExposed
<1>1. SInv => NeverRestsExposed
  BY DEF SInv, EmptyInv, LoadedInv, NeverRestsExposed, Idle, Exposed
<1> QED
  BY <1>1, SInvInvariant, PTL

(* The error of a read_once tells whether its closure ran.                  *)
THEOREM OutcomeTellsUseHolds == SiegelSafety => []OutcomeTellsUse
<1>1. SInv => OutcomeTellsUse
  BY DEF SInv
<1> QED
  BY <1>1, SInvInvariant, PTL

-------------------------------------------------------------------------------
(* Siegel implements OneTimeSecret.                                         *)

(* What the mapping makes of the siegel's states.                           *)
LEMMA PhaseBar ==
  /\ siegel = "none" => phaseBar = "absent"
  /\ siegel \in {"Dropping", "Dropped"} => phaseBar = "consumed"
  /\ siegel \in {"Empty", "Loaded"} /\ seen # <<>> => phaseBar = "consumed"
  /\ siegel \in {"Empty", "Loaded"} /\ seen = <<>> /\ ~canary => phaseBar = "spoiled"
  /\ siegel = "Empty" /\ seen = <<>> /\ canary => phaseBar = "empty"
  /\ siegel = "Loaded" /\ seen = <<>> /\ canary => phaseBar = "loaded"
BY DEF phaseBar

(* Every step of a siegel is a step of its one-time secret, or none.        *)
LEMMA OneTimeStep ==
  SInv /\ SInv' /\ [SiegelNext]_allVars => [Promise!Next]_(Promise!vars)
<1> SUFFICES ASSUME SInv, SInv', [SiegelNext]_allVars
             PROVE  Promise!Next \/ UNCHANGED <<phaseBar, secretBar, seen>>
  BY DEF Promise!vars
<1> USE DEF SInv, SiegelTypeOK, SiegelErrors, NoneInv, EmptyInv, LoadedInv, GoneInv, Writing, siegelVars,
        Idle, Drops, Return, memory, secretBar, phaseBar
<1>1. CASE New
  BY <1>1 DEF New, NewMmap, NewRejected, NewOpen, NewLock, Mlock, NewAbandoned
<1>2. CASE NewReturn
  <2>1. Promise!Open
    BY <1>2 DEF NewReturn, NewSeal, IInv, CanaryAtPc, Promise!Open
  <2> QED
    BY <2>1 DEF Promise!Next
<1>3. ASSUME NEW n \in Sizes, NEW ok \in BOOLEAN, Write(n, ok)
      PROVE  Promise!Discard \/ UNCHANGED <<phaseBar, secretBar, seen>>
  BY <1>3 DEF Write, OpenWrite, vars, Promise!Discard
<1>4. ASSUME NEW ok \in BOOLEAN, WriteWith(ok)
      PROVE  Promise!Discard \/ UNCHANGED <<phaseBar, secretBar, seen>>
  BY <1>4 DEF WriteWith, OpenWrite, Promise!Discard
<1>5. ASSUME NEW v \in Contents, NEW how \in {"ok", "err", "panic"}, WriteBody(v, how)
      PROVE  UNCHANGED <<phaseBar, secretBar, seen>>
  BY <1>5 DEF WriteBody, WriteClosure, LeaveClosure
<1>6. ASSUME NEW ok \in BOOLEAN, WriteReturn(ok)
      PROVE  Promise!Load(data) \/ Promise!Discard \/ UNCHANGED <<phaseBar, secretBar, seen>>
  BY <1>6 DEF WriteReturn, GuardDrop, Promise!Load, Promise!Discard
<1>7. ASSUME NEW ok \in BOOLEAN, ReadOnce(ok)
      PROVE  Promise!Discard \/ UNCHANGED <<phaseBar, secretBar, seen>>
  BY <1>7 DEF ReadOnce, VerifyCanary, Promise!Discard
<1>8. ASSUME NEW ok \in BOOLEAN, ReadRefused(ok)
      PROVE  Promise!Discard \/ UNCHANGED <<phaseBar, secretBar, seen>>
  BY <1>8 DEF ReadRefused, SealBadCanary, Promise!Discard
<1>9. ASSUME NEW panics \in BOOLEAN, ReadBody(panics) PROVE Promise!Use
  BY <1>9 DEF ReadBody, ReadClosure, IInv, CanaryAtPc, Promise!Use
<1>10. ASSUME NEW ok \in BOOLEAN, ReadReturn(ok)
       PROVE  UNCHANGED <<phaseBar, secretBar, seen>>
  BY <1>10 DEF ReadReturn, GuardDrop
<1>11. ASSUME NEW ok \in BOOLEAN, Reseal(ok) PROVE UNCHANGED <<phaseBar, secretBar, seen>>
  BY <1>11 DEF Reseal, Finish
<1>12. ASSUME NEW off \in size..DataPagesLen(size), Overrun(off)
       PROVE  Promise!Spoil \/ UNCHANGED <<phaseBar, secretBar, seen>>
  BY <1>12 DEF Overrun, StrayWrite, Promise!Spoil
<1>13. CASE Obliviate
  <2>1. Promise!Discard
    BY <1>13 DEF Obliviate, Drop, Wipe, Promise!Discard
  <2> QED
    BY <2>1 DEF Promise!Next
<1>14. CASE SiegelZeroize
  <2>1. Promise!Spoil \/ UNCHANGED <<phaseBar, secretBar, seen>>
    BY <1>14 DEF SiegelZeroize, Zeroize, Wipe, Promise!Spoil
  <2> QED
    BY <2>1 DEF Promise!Next
<1>15. CASE DropRegion
  BY <1>15 DEF DropRegion, Drop
<1>16. CASE Unmap
  BY <1>16 DEF Unmap, Munmap
<1>17. CASE UNCHANGED allVars
  BY <1>17 DEF allVars, vars
<1>18. data \in Contents
  BY DEF TypeOK
<1> QED
  BY <1>1, <1>2, <1>3, <1>4, <1>5, <1>6, <1>7, <1>8, <1>9, <1>10, <1>11, <1>12,
     <1>13, <1>14, <1>15, <1>16, <1>17, <1>18 DEF SiegelNext, InCall, Promise!Next

(* A siegel is a one-time secret: put in once and whole, read at most once, *)
(* through every refused system call, panic, overrun and zeroize.           *)
THEOREM OneTimeHolds == SiegelSafety => OneTime
<1>1. SiegelInit => Promise!Init
  BY DEF SiegelInit, Promise!Init, phaseBar, secretBar
<1> QED
  BY <1>1, OneTimeStep, SInvInvariant, PTL DEF SiegelSafety, OneTime, Promise!Spec

================================================================================
