---------------------------- MODULE ProtectedRegion ----------------------------
(***************************************************************************)
(* One ProtectedRegion (siegel/src/protected.rs): an anonymous mapping     *)
(* whose data pages are PROT_NONE at rest and are opened only around a     *)
(* caller's closure.  The region is used through &mut self, so one call    *)
(* runs at a time; a step below is the code between two system calls, or   *)
(* one closure, because those are the moments at which a system call may   *)
(* be refused, a closure may panic, or another thread may stray into the   *)
(* pages.                                                                  *)
(*                                                                         *)
(* The contents of the usable bytes are one value, the canary is intact    *)
(* or not, and the process is gone once a step touches a page it may not.  *)
(***************************************************************************)
EXTENDS Integers

CONSTANTS
  Secrets,        (* contents a writing closure can leave, other than zeros  *)
  Zero,           (* the usable bytes all zero                               *)
  Sizes,          (* sizes callers ask for                                   *)
  MaxSecretSize,  (* MAX_SECRET_SIZE                                         *)
  PageSize,       (* page_size()                                             *)
  CanaryLen,      (* CANARY.len()                                            *)
  MaxFaults       (* bound: system calls the kernel refuses in one behaviour *)

ASSUME RegionAssumption ==
  /\ Zero \notin Secrets
  /\ Sizes \subseteq Nat
  /\ MaxSecretSize \in Nat
  /\ PageSize \in Nat \ {0}
  /\ CanaryLen \in Nat \ {0}
  /\ MaxFaults \in Nat

VARIABLES
  pc,          (* where the call in progress stands; "idle" between calls    *)
  pages,       (* what the kernel enforces on the data pages                 *)
  protection,  (* the field `protection`: what the struct believes of them   *)
  locked,      (* the field `locked`: whether the pages are pinned           *)
  canary,      (* whether the bytes at data + usable_len are CANARY          *)
  data,        (* the usable bytes                                           *)
  size,        (* usable_len                                                 *)
  result,      (* what the last call returned, or is about to return         *)
  faults,      (* system calls refused so far                                *)
  leaks        (* mappings whose address nobody holds any more               *)

memory == <<locked, canary, data, size, leaks>>
vars   == <<pc, pages, protection, memory, result, faults>>

Protections == {"NoAccess", "ReadOnly", "ReadWrite"}
Contents    == Secrets \cup {Zero}

(* Mutant of DataPagesLen: no room is left for the canary.                  *)
DataPagesLenOfBytes(n) == ((n + PageSize - 1) \div PageSize) * PageSize

(* usable_len and the canary rounded up to whole pages: `data_pages_len`.   *)
DataPagesLen(n) == ((n + CanaryLen + PageSize - 1) \div PageSize) * PageSize

-------------------------------------------------------------------------------
(* System calls.  The kernel may refuse any mmap or mprotect.               *)

Refused == faults < MaxFaults /\ faults' = faults + 1

Mprotect(prot, ok) ==
  \/ ok  /\ pages' = prot /\ UNCHANGED faults
  \/ ~ok /\ Refused /\ UNCHANGED pages

(* mlock is best effort: its result is remembered and nothing else.         *)
Mlock == \E ok \in BOOLEAN : locked' = ok

Return(where, what) == pc' = where /\ result' = what

(* Mutant of MprotectNoaccess: the field is set before the call can fail.   *)
MprotectNoaccessRecordsFirst(ok) ==
  Mprotect("NoAccess", ok) /\ protection' = "NoAccess"

MprotectNoaccess(ok) ==
  /\ Mprotect("NoAccess", ok)
  /\ protection' = IF ok THEN "NoAccess" ELSE protection

-------------------------------------------------------------------------------
(* ProtectedRegion::new_with: map, open, lock and write the canary, seal.   *)
(* Nothing owns the mapping before the last step, so a refused mprotect     *)
(* returns with the mapping in place and its address lost.                  *)

InvalidSize(n) == n = 0 \/ n > MaxSecretSize

(* Mutant of NewMmap: the upper size limit is off by one.                   *)
NewMmapOffByOne(n) ==
  /\ pc = "absent" /\ n \in 1..(MaxSecretSize + 1)
  /\ pages' = "NoAccess" /\ canary' = FALSE /\ data' = Zero /\ size' = n
  /\ Return("open", "pending")
  /\ UNCHANGED <<protection, locked, faults, leaks>>

NewMmap(n) ==
  /\ pc = "absent" /\ ~InvalidSize(n)
  /\ pages' = "NoAccess" /\ canary' = FALSE /\ data' = Zero /\ size' = n
  /\ Return("open", "pending")
  /\ UNCHANGED <<protection, locked, faults, leaks>>

NewRejected(n) ==
  /\ pc = "absent"
  /\ \/ InvalidSize(n) /\ Return("absent", "InvalidSize") /\ UNCHANGED faults
     \/ ~InvalidSize(n) /\ Refused /\ Return("absent", "Mmap")
  /\ UNCHANGED <<pages, protection, memory>>

NewOpen ==
  /\ pc = "open"
  /\ Mprotect("ReadWrite", TRUE)
  /\ Return("lock", result)
  /\ UNCHANGED <<protection, memory>>

NewLock ==
  /\ pc = "lock"
  /\ Mlock
  /\ canary' = TRUE
  /\ Return("seal", result)
  /\ UNCHANGED <<pages, protection, data, size, faults, leaks>>

NewSeal ==
  /\ pc = "seal"
  /\ Mprotect("NoAccess", TRUE) /\ protection' = "NoAccess"
  /\ Return("idle", "ok")
  /\ UNCHANGED memory

NewAbandoned ==
  /\ pc \in {"open", "seal"}
  /\ Refused
  /\ leaks' = leaks + 1
  /\ pages' = "Unmapped" /\ locked' = FALSE /\ size' = 0
  /\ Return("absent", "Mprotect")
  /\ UNCHANGED <<protection, canary, data>>

-------------------------------------------------------------------------------
(* with_read and with_write.  VerifyCanary leaves the pages readable for    *)
(* the closure; on a bad canary it seals them itself, with no guard yet.    *)

VerifyCanary(ok) ==
  /\ pc = "idle"
  /\ Mprotect("ReadOnly", ok)
  /\ \/ /\ ok
        /\ protection' = "ReadOnly"
        /\ Return(IF canary THEN "reading" ELSE "bad_canary", "pending")
     \/ ~ok /\ UNCHANGED protection /\ Return("idle", "Mprotect")
  /\ UNCHANGED memory

SealBadCanary(ok) ==
  /\ pc = "bad_canary"
  /\ MprotectNoaccess(ok)
  /\ Return("idle", IF ok THEN "CanaryCorrupted" ELSE "Mprotect")
  /\ UNCHANGED memory

OpenWrite(ok) ==
  /\ pc = "idle"
  /\ Mprotect("ReadWrite", ok)
  /\ \/ ok  /\ protection' = "ReadWrite" /\ Return("writing", "pending")
     \/ ~ok /\ UNCHANGED protection /\ Return("idle", "Mprotect")
  /\ UNCHANGED memory

(* The caller's closure returns, and finish() runs, or it panics, and the   *)
(* unwinding runs only the guard's drop.                                    *)
LeaveClosure(panics) ==
  IF panics THEN Return("guard", "panic") ELSE Return("finish", result)

ReadClosure(panics) ==
  /\ pc = "reading"
  /\ LeaveClosure(panics)
  /\ UNCHANGED <<pages, protection, memory, faults>>

WriteClosure(v, panics) ==
  /\ pc = "writing"
  /\ data' = v
  /\ LeaveClosure(panics)
  /\ UNCHANGED <<pages, protection, locked, canary, size, faults, leaks>>

(* A pointer bug elsewhere in the process, while the pages are writable: a  *)
(* byte past the usable ones.  It hits the canary, the slack behind it that *)
(* nothing checks, or the back guard page, which kills the process.         *)
StrayWrite(off) ==
  /\ pc = "writing" /\ off \in size..DataPagesLen(size)
  /\ canary' = (canary /\ off >= size + CanaryLen)
  /\ pc' = IF off < DataPagesLen(size) THEN pc ELSE "trapped"
  /\ UNCHANGED <<pages, protection, locked, data, size, result, faults, leaks>>

(* Mutant of Finish: the error of the reseal is not passed on.              *)
FinishSwallowsError(ok) ==
  /\ pc = "finish"
  /\ MprotectNoaccess(ok)
  /\ Return("guard", "ok")
  /\ UNCHANGED memory

(* ResealOnDrop::finish: reseal and report.                                 *)
Finish(ok) ==
  /\ pc = "finish"
  /\ MprotectNoaccess(ok)
  /\ Return("guard", IF ok THEN "ok" ELSE "Mprotect")
  /\ UNCHANGED memory

(* Mutant of GuardDrop: the guard is forgotten, so nothing is retried.      *)
GuardDropForgotten(ok) ==
  pc = "guard" /\ ok /\ Return("idle", result)
    /\ UNCHANGED <<pages, protection, memory, faults>>

(* ResealOnDrop::drop: runs on every path, finish() consumes the guard too. *)
GuardDrop(ok) ==
  /\ pc = "guard"
  /\ MprotectNoaccess(ok)
  /\ Return("idle", result)
  /\ UNCHANGED memory

-------------------------------------------------------------------------------
(* zeroize and drop.  The result of the mprotect is ignored and the write   *)
(* of zeros follows in any case: on pages that are not writable it faults.  *)

(* Mutant of Wipe: only the field is updated, the bytes are left.           *)
WipeSkipsBytes(next) ==
  /\ protection' = "ReadWrite" /\ pages' = "ReadWrite" /\ pc' = next
  /\ UNCHANGED <<faults, data, canary>>

Wipe(next) ==
  /\ \E ok \in BOOLEAN : Mprotect("ReadWrite", ok)
  /\ protection' = "ReadWrite"
  /\ \/ pages' = "ReadWrite" /\ data' = Zero /\ canary' = FALSE /\ pc' = next
     \/ pages' # "ReadWrite" /\ pc' = "crashed" /\ UNCHANGED <<data, canary>>

Zeroize ==
  /\ pc = "idle"
  /\ Wipe("idle")
  /\ UNCHANGED <<locked, size, result, leaks>>

Drop ==
  /\ pc = "idle"
  /\ Wipe("unmap")
  /\ UNCHANGED <<locked, size, result, leaks>>

(* munlock if locked, then munmap.                                          *)
Munmap ==
  /\ pc = "unmap"
  /\ pages' = "Unmapped" /\ locked' = FALSE /\ size' = 0
  /\ pc' = "absent"
  /\ UNCHANGED <<protection, canary, data, result, faults, leaks>>

-------------------------------------------------------------------------------

Init ==
  /\ pc = "absent" /\ pages = "Unmapped" /\ protection = "NoAccess"
  /\ locked = FALSE /\ canary = FALSE /\ data = Zero /\ size = 0
  /\ result = "none" /\ faults = 0 /\ leaks = 0

Next ==
  \/ \E n \in Sizes : NewMmap(n) \/ NewRejected(n)
  \/ NewOpen \/ NewLock \/ NewSeal \/ NewAbandoned
  \/ \E ok \in BOOLEAN :
       VerifyCanary(ok) \/ SealBadCanary(ok) \/ OpenWrite(ok) \/ Finish(ok)
         \/ GuardDrop(ok)
  \/ \E panics \in BOOLEAN :
       ReadClosure(panics) \/ \E v \in Contents : WriteClosure(v, panics)
  \/ \E off \in size..DataPagesLen(size) : StrayWrite(off)
  \/ Zeroize \/ Drop \/ Munmap

Spec == Init /\ [][Next]_vars

-------------------------------------------------------------------------------
(* Properties.                                                              *)

(* Every variable has its type; in particular the size of a region is one   *)
(* new_with admits, and no more mappings are lost than calls were refused.  *)
TypeOK ==
  /\ pc \in {"absent", "open", "lock", "seal", "idle", "bad_canary", "reading",
             "writing", "finish", "guard", "unmap", "crashed", "trapped"}
  /\ pages \in Protections \cup {"Unmapped"}
  /\ protection \in Protections
  /\ locked \in BOOLEAN /\ canary \in BOOLEAN
  /\ data \in Contents
  /\ size \in 0..MaxSecretSize
  /\ result \in {"none", "pending", "ok", "panic", "InvalidSize", "Mmap",
                 "Mprotect", "CanaryCorrupted"}
  /\ faults \in 0..MaxFaults
  /\ leaks \in 0..faults

(* A stray read would return secret bytes.                                  *)
Exposed == pages \in {"ReadOnly", "ReadWrite"} /\ data # Zero

(* Between calls the secret is sealed, unless the last call told its caller *)
(* otherwise: it returned Mprotect, or its closure panicked.                *)
SealedAtRest == pc = "idle" /\ Exposed => result \in {"Mprotect", "panic"}

(* The guard retries a failed reseal, so a region that rests unsealed has   *)
(* seen two refused calls, except where only one attempt is made: after a   *)
(* panic, and in verify_canary on a corrupted canary.                       *)
OneFaultStaysSealed ==
  pc = "idle" /\ Exposed /\ faults < 2 => faults = 1 /\ (result = "panic" \/ ~canary)

(* The field `protection` tells what the kernel enforces, although zeroize  *)
(* sets it without looking at the result of its mprotect.                   *)
RecordedProtection == pc = "idle" => protection = pages

(* Whatever the size, one that fills its last page included, the canary is  *)
(* on the data pages behind the usable bytes, clear of the guard page.      *)
CanaryInPages == pc = "idle" => size + CanaryLen <= DataPagesLen(size)

(* Pages go back to the kernel only once their contents are zeros.          *)
UnmapsOnlyZeros ==
  [][pages # "Unmapped" /\ pages' = "Unmapped" => data = Zero]_vars

(* mmap_anon: "Caller must `munmap` the result."                            *)
NoMappingLost == leaks = 0

(* zeroize: when re-opening fails, "the bytes are already inaccessible".    *)
FailedReopenIsSealed == pc = "crashed" => ~Exposed

(* "The last CANARY.len() bytes of the data region hold a canary".          *)
CanaryIsLast == pc = "idle" => size + CanaryLen = DataPagesLen(size)

================================================================================
