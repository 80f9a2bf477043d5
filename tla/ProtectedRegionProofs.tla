------------------------- MODULE ProtectedRegionProofs -------------------------
(***************************************************************************)
(* Proofs about ProtectedRegion, for every page size, canary length, set   *)
(* of sizes and of contents, and any number of refused system calls.       *)
(* TypeOK is proved first; IInv adds what each point of the code knows     *)
(* about the pages, the field, the contents and the refusals so far.       *)
(***************************************************************************)
EXTENDS ProtectedRegion, TLAPS

(* What the kernel enforces at each point of the code.                      *)
PagesAtPc ==
  /\ pc = "absent" <=> pages = "Unmapped"
  /\ pc = "open" => pages = "NoAccess"
  /\ pc \in {"lock", "seal", "writing", "unmap"} => pages = "ReadWrite"
  /\ pc \in {"bad_canary", "reading"} => pages = "ReadOnly"

(* The field follows the kernel from the end of new to the drop.            *)
FieldAtPc ==
  pc \in {"idle", "bad_canary", "reading", "writing", "finish", "guard"}
    => protection = pages

(* There is no secret before new returns, nor after the wipe of the drop.   *)
BlankAtPc == pc \in {"absent", "open", "lock", "seal", "unmap"} => data = Zero

(* new has written the canary, verify_canary has branched on it.            *)
CanaryAtPc == (pc \in {"seal", "reading"} => canary) /\ (pc = "bad_canary" => ~canary)

(* What the guard has to retry, and what has gone wrong by then.            *)
GuardAtPc ==
  pc = "guard" =>
    /\ result \in {"ok", "Mprotect", "panic"}
    /\ result = "ok" => pages = "NoAccess"
    /\ result = "Mprotect" /\ pages # "NoAccess" => faults > 0

(* A region that rests unsealed has met refusals and reported them.         *)
RestAtPc ==
  pc = "idle" /\ Exposed =>
    /\ result \in {"Mprotect", "panic"}
    /\ faults > 0
    /\ faults < 2 => result = "panic" \/ ~canary

IInv ==
  TypeOK /\ PagesAtPc /\ FieldAtPc /\ BlankAtPc /\ CanaryAtPc /\ GuardAtPc /\ RestAtPc

-------------------------------------------------------------------------------
(* Helpers.                                                                 *)

(* Whatever a system call does to the pages, it counts its refusals right.  *)
LEMMA MprotectType ==
  ASSUME TypeOK, NEW prot \in Protections, NEW ok \in BOOLEAN, Mprotect(prot, ok)
  PROVE  /\ pages' \in Protections \cup {"Unmapped"}
         /\ faults' \in 0..MaxFaults /\ faults <= faults'
         /\ pages' = IF ok THEN prot ELSE pages
         /\ ~ok => faults' = faults + 1
         /\ ok => faults' = faults
BY RegionAssumption DEF TypeOK, Mprotect, Refused, Protections

(* new_with lays out whole pages that hold the secret and its canary and    *)
(* less than a page more: the canary never reaches the back guard page.     *)
THEOREM CanaryFits ==
  ASSUME NEW n \in Nat
  PROVE  /\ n + CanaryLen <= DataPagesLen(n)
         /\ DataPagesLen(n) < n + CanaryLen + PageSize
<1> DEFINE m == n + CanaryLen + PageSize - 1
           q == m \div PageSize
<1>1. m \in Nat /\ PageSize \in Nat /\ PageSize > 0
  BY RegionAssumption
<1>2. q \in Int /\ q * PageSize <= m /\ m < q * PageSize + PageSize
  BY <1>1, SMTT(30)
<1>3. DataPagesLen(n) = q * PageSize
  BY DEF DataPagesLen
<1> QED
  BY <1>1, <1>2, <1>3, RegionAssumption, SMTT(30)

-------------------------------------------------------------------------------
(* Type correctness.                                                        *)

LEMMA InitType == Init => TypeOK
<1> SUFFICES ASSUME Init PROVE TypeOK
  OBVIOUS
<1>1. locked \in BOOLEAN /\ canary \in BOOLEAN
  BY Zenon DEF Init
<1> QED
  BY <1>1, RegionAssumption DEF Init, TypeOK, Contents, Protections

LEMMA TypeInductive ==
  TypeOK /\ [Next]_vars => TypeOK'
<1> SUFFICES ASSUME TypeOK, [Next]_vars PROVE TypeOK'
  OBVIOUS
<1> USE RegionAssumption DEF TypeOK, memory, Return, Protections, Contents
<1>1. ASSUME NEW n \in Sizes, NewMmap(n) PROVE TypeOK'
  <2>1. locked' \in BOOLEAN /\ canary' \in BOOLEAN
    BY <1>1, Zenon DEF NewMmap, InvalidSize
  <2> QED
    BY <2>1, <1>1 DEF NewMmap, InvalidSize
<1>2. ASSUME NEW n \in Sizes, NewRejected(n) PROVE TypeOK'
  BY <1>2 DEF NewRejected, Refused
<1>3. CASE NewOpen
  BY <1>3 DEF NewOpen, Mprotect
<1>4. CASE NewLock
  BY <1>4 DEF NewLock, Mlock
<1>5. CASE NewSeal
  BY <1>5 DEF NewSeal, Mprotect
<1>6. CASE NewAbandoned
  <2>1. locked' \in BOOLEAN /\ canary' \in BOOLEAN
    BY <1>6, Zenon DEF NewAbandoned, Refused
  <2> QED
    BY <2>1, <1>6 DEF NewAbandoned, Refused
<1>7. ASSUME NEW ok \in BOOLEAN, VerifyCanary(ok) PROVE TypeOK'
  BY <1>7, MprotectType DEF VerifyCanary
<1>8. ASSUME NEW ok \in BOOLEAN, SealBadCanary(ok) PROVE TypeOK'
  BY <1>8, MprotectType DEF SealBadCanary, MprotectNoaccess
<1>9. ASSUME NEW ok \in BOOLEAN, OpenWrite(ok) PROVE TypeOK'
  BY <1>9, MprotectType DEF OpenWrite
<1>10. ASSUME NEW ok \in BOOLEAN, Finish(ok) PROVE TypeOK'
  BY <1>10, MprotectType DEF Finish, MprotectNoaccess
<1>11. ASSUME NEW ok \in BOOLEAN, GuardDrop(ok) PROVE TypeOK'
  BY <1>11, MprotectType DEF GuardDrop, MprotectNoaccess
<1>12. ASSUME NEW panics \in BOOLEAN, ReadClosure(panics) PROVE TypeOK'
  BY <1>12 DEF ReadClosure, LeaveClosure
<1>13. ASSUME NEW panics \in BOOLEAN, NEW v \in Contents, WriteClosure(v, panics)
       PROVE TypeOK'
  BY <1>13 DEF WriteClosure, LeaveClosure
<1>14. ASSUME NEW off \in size..DataPagesLen(size), StrayWrite(off) PROVE TypeOK'
  BY <1>14 DEF StrayWrite
<1>15. CASE Zeroize
  <2>1. locked' \in BOOLEAN /\ canary' \in BOOLEAN
    BY <1>15, MprotectType, Zenon DEF Zeroize, Wipe
  <2> QED
    BY <2>1, <1>15, MprotectType DEF Zeroize, Wipe
<1>16. CASE Drop
  <2>1. locked' \in BOOLEAN /\ canary' \in BOOLEAN
    BY <1>16, MprotectType, Zenon DEF Drop, Wipe
  <2> QED
    BY <2>1, <1>16, MprotectType DEF Drop, Wipe
<1>17. CASE Munmap
  <2>1. locked' \in BOOLEAN /\ canary' \in BOOLEAN
    BY <1>17, Zenon DEF Munmap
  <2> QED
    BY <2>1, <1>17 DEF Munmap
<1>18. CASE UNCHANGED vars
  BY <1>18 DEF vars
<1> QED
  BY <1>1, <1>2, <1>3, <1>4, <1>5, <1>6, <1>7, <1>8, <1>9, <1>10, <1>11, <1>12,
     <1>13, <1>14, <1>15, <1>16, <1>17, <1>18 DEF Next

(* Every variable keeps its type; a region's size is one new_with admits.   *)
THEOREM TypeCorrect == Spec => []TypeOK
BY InitType, TypeInductive, PTL DEF Spec

-------------------------------------------------------------------------------
(* The inductive invariant.                                                 *)

LEMMA InitIInv == Init => IInv
<1> SUFFICES ASSUME Init PROVE IInv
  OBVIOUS
<1>1. TypeOK
  BY InitType
<1> QED
  BY <1>1 DEF Init, IInv, PagesAtPc, FieldAtPc, BlankAtPc, CanaryAtPc, GuardAtPc, RestAtPc,
     Exposed

LEMMA NextIInv == IInv /\ [Next]_vars => IInv'
<1> SUFFICES ASSUME IInv, [Next]_vars PROVE IInv'
  OBVIOUS
<1>0. TypeOK /\ TypeOK'
  BY TypeInductive DEF IInv
<1> USE <1>0, RegionAssumption
    DEF memory, Return, PagesAtPc, FieldAtPc, BlankAtPc, CanaryAtPc, GuardAtPc, RestAtPc,
        IInv, Exposed
<1>1. ASSUME NEW n \in Sizes, NewMmap(n) PROVE IInv'
  BY <1>1 DEF NewMmap
<1>2. ASSUME NEW n \in Sizes, NewRejected(n) PROVE IInv'
  BY <1>2 DEF NewRejected
<1>3. CASE NewOpen
  BY <1>3 DEF NewOpen, Mprotect
<1>4. CASE NewLock
  BY <1>4 DEF NewLock, Mlock
<1>5. CASE NewSeal
  BY <1>5 DEF NewSeal, Mprotect
<1>6. CASE NewAbandoned
  BY <1>6 DEF NewAbandoned
<1>7. ASSUME NEW ok \in BOOLEAN, VerifyCanary(ok) PROVE IInv'
  BY <1>7, MprotectType DEF VerifyCanary, Protections, TypeOK
<1>8. ASSUME NEW ok \in BOOLEAN, SealBadCanary(ok) PROVE IInv'
  BY <1>8, MprotectType DEF SealBadCanary, MprotectNoaccess, Protections, TypeOK
<1>9. ASSUME NEW ok \in BOOLEAN, OpenWrite(ok) PROVE IInv'
  BY <1>9, MprotectType DEF OpenWrite, Protections, TypeOK
<1>10. ASSUME NEW ok \in BOOLEAN, Finish(ok) PROVE IInv'
  BY <1>10, MprotectType DEF Finish, MprotectNoaccess, Protections, TypeOK
<1>11. ASSUME NEW ok \in BOOLEAN, GuardDrop(ok) PROVE IInv'
  BY <1>11, MprotectType DEF GuardDrop, MprotectNoaccess, Protections, TypeOK
<1>12. ASSUME NEW panics \in BOOLEAN, ReadClosure(panics) PROVE IInv'
  BY <1>12 DEF ReadClosure, LeaveClosure
<1>13. ASSUME NEW panics \in BOOLEAN, NEW v \in Contents, WriteClosure(v, panics)
       PROVE IInv'
  BY <1>13 DEF WriteClosure, LeaveClosure
<1>14. ASSUME NEW off \in size..DataPagesLen(size), StrayWrite(off) PROVE IInv'
  BY <1>14 DEF StrayWrite
<1>15. CASE Zeroize
  BY <1>15, MprotectType DEF Zeroize, Wipe, Protections, TypeOK
<1>16. CASE Drop
  BY <1>16, MprotectType DEF Drop, Wipe, Protections, TypeOK
<1>17. CASE Munmap
  BY <1>17 DEF Munmap
<1>18. CASE UNCHANGED vars
  BY <1>18 DEF vars
<1> QED
  BY <1>1, <1>2, <1>3, <1>4, <1>5, <1>6, <1>7, <1>8, <1>9, <1>10, <1>11, <1>12,
     <1>13, <1>14, <1>15, <1>16, <1>17, <1>18 DEF Next

THEOREM InvariantIInv == Spec => []IInv
BY InitIInv, NextIInv, PTL DEF Spec

-------------------------------------------------------------------------------
(* What follows from it.                                                    *)

(* Between calls a secret is sealed, or the last call said otherwise.       *)
THEOREM SealedAtRestHolds == Spec => []SealedAtRest
<1>1. IInv => SealedAtRest
  BY DEF IInv, RestAtPc, SealedAtRest
<1> QED
  BY <1>1, InvariantIInv, PTL

(* One refused system call never leaves a secret open after a call that     *)
(* made two attempts to seal it.                                            *)
THEOREM OneFaultStaysSealedHolds == Spec => []OneFaultStaysSealed
<1>1. IInv => OneFaultStaysSealed
  BY RegionAssumption DEF IInv, TypeOK, RestAtPc, OneFaultStaysSealed
<1> QED
  BY <1>1, InvariantIInv, PTL

(* The field `protection` agrees with the kernel between calls.             *)
THEOREM RecordedProtectionHolds == Spec => []RecordedProtection
<1>1. IInv => RecordedProtection
  BY DEF IInv, FieldAtPc, RecordedProtection
<1> QED
  BY <1>1, InvariantIInv, PTL

(* The canary of a region is on its data pages, whatever size was asked for.*)
THEOREM CanaryInPagesHolds == Spec => []CanaryInPages
<1>1. TypeOK => CanaryInPages
  <2> SUFFICES ASSUME TypeOK PROVE size + CanaryLen <= DataPagesLen(size)
    BY DEF CanaryInPages
  <2>1. size \in Nat
    BY RegionAssumption DEF TypeOK
  <2> QED
    BY <2>1, CanaryFits
<1> QED
  BY <1>1, TypeCorrect, PTL

(* Only zeros go back to the kernel: pages are unmapped by the last step of *)
(* a drop, after the wipe, or lost by a new that had nothing to hide.       *)
THEOREM UnmapsOnlyZerosHolds == Spec => UnmapsOnlyZeros
<1>1. ASSUME IInv, IInv', [Next]_vars, pages # "Unmapped", pages' = "Unmapped"
      PROVE  data = Zero
  <2>1. pc' = "absent" /\ pc # "absent"
    BY <1>1 DEF IInv, PagesAtPc
  <2>2. pc \in {"open", "seal", "unmap"}
    BY <1>1, <2>1
       DEF Next, vars, memory, Return, NewMmap, NewRejected, NewOpen, NewLock, Mlock, NewSeal,
           NewAbandoned, VerifyCanary, SealBadCanary, OpenWrite, Finish, GuardDrop,
           ReadClosure, WriteClosure, LeaveClosure, StrayWrite, Zeroize, Drop, Wipe, Munmap
  <2> QED
    BY <1>1, <2>2 DEF IInv, BlankAtPc
<1>2. IInv /\ IInv' /\ [Next]_vars
        => [pages # "Unmapped" /\ pages' = "Unmapped" => data = Zero]_vars
  BY <1>1
<1> QED
  BY <1>2, InvariantIInv, PTL DEF Spec, UnmapsOnlyZeros

================================================================================
