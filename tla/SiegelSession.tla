------------------------------ MODULE SiegelSession ------------------------------
(***************************************************************************)
(* Sessions shared between threads (siegel-uniffi/src/session.rs): the     *)
(* global REGISTRY of weak handles behind one mutex, and per session a     *)
(* state behind a mutex of its own.  Foreign code holds Arcs of sessions,  *)
(* calls their methods, and passes handles to siegel_fill and siegel_take; *)
(* Rust code opens sessions with new_written, whose closure may read       *)
(* another session or open a new one.  Any thread may be between any two   *)
(* of the code's lock operations; a step is what runs from one to the next.*)
(*                                                                         *)
(* A Siegel call is one or two steps that succeed or fail; the modules     *)
(* Siegel and ProtectedRegion open them up.  A closure that panics is a    *)
(* closure that fails: the unwinding drops the same values in the same     *)
(* order, and a poisoned mutex is locked like any other.                   *)
(***************************************************************************)
EXTENDS Integers, FiniteSets, Sequences

CONSTANTS
  Threads,            (* threads of the process                              *)
  Sessions,           (* session objects, none used twice                    *)
  Handles,            (* what the CSPRNG draws from                          *)
  Foreign,            (* the holder of the Arcs foreign code keeps           *)
  None,               (* no thread or session; the reserved handle 0         *)
  MaxActiveSessions,  (* MAX_ACTIVE_SESSIONS                                 *)
  MaxHandleAllocRetries, (* MAX_HANDLE_ALLOC_RETRIES                         *)
  MaxCalls            (* bound: calls started in one behaviour               *)

ASSUME SessionAssumption ==
  /\ Foreign \notin Threads
  /\ None \notin Threads \cup Sessions \cup Handles
  /\ IsFiniteSet(Sessions)
  /\ MaxActiveSessions \in Nat \ {0} /\ MaxHandleAllocRetries \in Nat \ {0}
  /\ MaxCalls \in Nat

VARIABLES
  regLock,   (* the thread that holds REGISTRY, or None                      *)
  registry,  (* the session each handle names, or None: Weak entries         *)
  draws,     (* ids rejected by the allocate_handle_id in progress           *)
  issued,    (* history: handles that were returned to foreign code          *)
  told,      (* history: sessions a caller was told are consumed             *)
  state,     (* the SessionState of each session                             *)
  mutex,     (* the thread that holds a session's state mutex, or None       *)
  refs,      (* the holders of strong references                             *)
  handle,    (* handle_id                                                    *)
  mem,       (* what is in its mapping; "none": wiped and unmapped           *)
  given,     (* history: who got its secret, and whose it was                *)
  op,        (* the call a thread is in                                      *)
  pc,        (* and where in it                                              *)
  cur,       (* the session a call works on                                  *)
  inp,       (* the session a new_written reads                              *)
  rc,        (* what the call returns                                        *)
  dst,       (* the destination buffer of a siegel_take                      *)
  calls      (* calls started                                                *)

sharedVars  == <<regLock, registry, draws, issued, told>>
sessionVars == <<state, mutex, refs, handle, mem, given>>
threadVars  == <<op, pc, cur, inp, rc, dst, calls>>
vars        == <<sharedVars, sessionVars, threadVars>>

(* enum SessionState.                                                       *)
SessionStates == {"Empty", "Filled", "Written", "Consumed"}

Live(s) == refs[s] # {}

(* enum SessionError; "error" stands for those that tell of memory, of the  *)
(* length asked for or of the handle allocation.                            *)
SessionErrors == {"TooManyActiveSessions", "InvalidState", "Consumed", "error"}

(* registry_lock and lock_state wait for the guard that is out; a mutex that*)
(* a panic has poisoned is locked like any other.                           *)
RegistryFree == regLock = None

StateFree(s) == mutex[s] = None

(* Weak::upgrade of an entry.                                               *)
Resolves(h) == registry[h] # None /\ Live(registry[h])

Set(f, x, v) == [f EXCEPT ![x] = v]

Goto(t, where) == pc' = Set(pc, t, where) /\ UNCHANGED <<op, cur, inp, rc, calls>>

Return(t, code) ==
  /\ pc' = Set(pc, t, "release") /\ rc' = Set(rc, t, code)
  /\ UNCHANGED <<op, cur, inp, calls>>

(* A call starts: on session s, reading session i.                          *)
Start(t, what, where, s, i) ==
  /\ pc[t] = "idle" /\ calls < MaxCalls
  /\ calls' = calls + 1
  /\ op' = Set(op, t, what) /\ pc' = Set(pc, t, where)
  /\ cur' = Set(cur, t, s) /\ inp' = Set(inp, t, i)

At(t, what, where) == op[t] = what /\ pc[t] = where

-------------------------------------------------------------------------------
(* SiegelSession::new, first half: lock the registry, prune, check the cap. *)
(* Foreign code lends the session a new_written will read for the call.     *)

(* Mutant of Pruned: entries with a single strong reference go, too.        *)
PrunedEagerly ==
  [h \in Handles |->
    IF registry[h] # None /\ Cardinality(refs[registry[h]]) > 1 THEN registry[h] ELSE None]

Pruned == [h \in Handles |-> IF Resolves(h) THEN registry[h] ELSE None]

Registered(reg) == {h \in Handles : reg[h] # None}

AtCap == Cardinality(Registered(Pruned)) >= MaxActiveSessions

Lend(t, i) ==
  IF i = None THEN UNCHANGED refs
  ELSE Foreign \in refs[i] /\ refs' = [refs EXCEPT ![i] = @ \cup {t}]

(* Mutant of NewAdmit: the registry is unlocked while memory is allocated.  *)
NewAdmitUnlocks(t, what, i) ==
  /\ RegistryFree
  /\ what = "new" => i = None
  /\ Lend(t, i)
  /\ registry' = Pruned /\ ~AtCap
  /\ Start(t, what, "alloc", None, i)
  /\ UNCHANGED <<regLock, rc, draws, issued, told, state, mutex, handle, mem, given, dst>>

NewAdmit(t, what, i) ==
  /\ RegistryFree
  /\ what = "new" => i = None
  /\ Lend(t, i)
  /\ registry' = Pruned
  /\ \/ /\ AtCap
        /\ Start(t, what, "release", None, i)
        /\ rc' = Set(rc, t, "TooManyActiveSessions") /\ UNCHANGED regLock
     \/ /\ ~AtCap
        /\ Start(t, what, "alloc", None, i)
        /\ regLock' = t /\ UNCHANGED rc
  /\ UNCHANGED <<draws, issued, told, state, mutex, handle, mem, given, dst>>

(* A closure of new_written that has called `new` opens a session for       *)
(* itself, to be dropped with the call, and fails if it cannot.  It waits   *)
(* under the state mutex of the session being written.                      *)
NestedNew(t) ==
  /\ At(t, "new_written", "open")
  /\ RegistryFree
  /\ registry' = Pruned
  /\ \/ AtCap /\ Goto(t, "failed") /\ UNCHANGED regLock
     \/ ~AtCap /\ Goto(t, "nested") /\ regLock' = t
  /\ UNCHANGED <<draws, issued, told, sessionVars, dst>>

(* Second half: allocate, draw a handle, insert, unlock.  Any id may be     *)
(* drawn: 0, a registered one, one that a session had whose entry is gone.  *)
Draws == Handles \cup {None}

(* Mutant of Unused: registered handles are not looked for.                 *)
UnusedSkipsLookup(h) == h # None

Unused(h) == h # None /\ registry[h] = None

Drawing(t) == pc[t] \in {"alloc", "nested"} /\ draws < MaxHandleAllocRetries

NewRedraw(t, h) ==
  /\ Drawing(t) /\ ~Unused(h)
  /\ draws' = draws + 1
  /\ UNCHANGED <<regLock, registry, issued, told, sessionVars, threadVars>>

NewInsert(t, s, h) ==
  /\ Drawing(t) /\ Unused(h) /\ state[s] = "none"
  /\ state' = Set(state, s, "Empty") /\ mem' = Set(mem, s, "blank")
  /\ handle' = Set(handle, s, h) /\ registry' = Set(registry, h, s)
  /\ regLock' = None /\ draws' = 0
  /\ \/ /\ op[t] = "new"
        /\ refs' = Set(refs, s, {Foreign}) /\ issued' = issued \cup {h}
        /\ Return(t, "ok")
     \/ /\ op[t] = "new_written"
        /\ refs' = Set(refs, s, {t}) /\ UNCHANGED <<issued, op, rc, calls>>
        /\ \/ /\ pc[t] = "alloc" /\ pc' = Set(pc, t, "lock")
              /\ cur' = Set(cur, t, s) /\ UNCHANGED inp
           \/ /\ pc[t] = "nested" /\ pc' = Set(pc, t, "body")
              /\ inp' = Set(inp, t, s) /\ UNCHANGED cur
  /\ UNCHANGED <<mutex, given, told, dst>>

(* Siegel::new or getrandom fails, or every try was rejected; a siegel that *)
(* was made is wiped.                                                       *)
NewFails(t) ==
  /\ pc[t] \in {"alloc", "nested"}
  /\ regLock' = None /\ draws' = 0
  /\ IF pc[t] = "nested" THEN Goto(t, "failed") ELSE Return(t, "error")
  /\ UNCHANGED <<registry, issued, told, sessionVars, dst>>
-------------------------------------------------------------------------------
(* siegel_fill and siegel_take: a null pointer, or one registry lookup that *)
(* yields a strong reference and gives the registry lock back at once.      *)

FillCodes == {"OK", "INVALID_HANDLE", "LEN_MISMATCH", "NULL", "WRONG_STATE", "PROTECTION"}

TakeCodes == FillCodes \cup {"CANARY"}

(* What siegel_take returns for an error of Siegel::read_once.              *)
TakeCode == [CanaryCorrupted |-> "CANARY", ProtectionFailed |-> "PROTECTION"]

NullPointer(t, what) ==
  /\ Start(t, what, "release", None, None)
  /\ rc' = Set(rc, t, "NULL")
  /\ UNCHANGED <<sharedVars, sessionVars, dst>>

(* Mutant of Lookup: the guard lives as long as the session it looked up.   *)
LookupKeepsGuard(t, what, h) ==
  /\ RegistryFree
  /\ UNCHANGED <<registry, draws, issued, told, state, mutex, handle, mem, given, dst>>
  /\ \/ /\ Resolves(h)
        /\ refs' = [refs EXCEPT ![registry[h]] = @ \cup {t}]
        /\ Start(t, what, "lock", registry[h], None)
        /\ regLock' = t /\ UNCHANGED rc
     \/ /\ ~Resolves(h)
        /\ Start(t, what, "release", None, None)
        /\ rc' = Set(rc, t, "INVALID_HANDLE") /\ UNCHANGED <<refs, regLock>>

(* Mutant of Lookup: the entry is used without upgrading it.                *)
LookupWeakly(t, what, h) ==
  /\ RegistryFree /\ Resolves(h)
  /\ Start(t, what, "lock", registry[h], None)
  /\ UNCHANGED <<sharedVars, sessionVars, rc, dst>>

Lookup(t, what, h) ==
  /\ RegistryFree
  /\ UNCHANGED <<sharedVars, state, mutex, handle, mem, given, dst>>
  /\ \/ /\ Resolves(h)
        /\ refs' = [refs EXCEPT ![registry[h]] = @ \cup {t}]
        /\ Start(t, what, "lock", registry[h], None)
        /\ UNCHANGED rc
     \/ /\ ~Resolves(h)
        /\ Start(t, what, "release", None, None)
        /\ rc' = Set(rc, t, "INVALID_HANDLE") /\ UNCHANGED refs

FillCall(t) == NullPointer(t, "fill") \/ \E h \in issued : Lookup(t, "fill", h)

TakeCall(t) == NullPointer(t, "take") \/ \E h \in issued : Lookup(t, "take", h)

(* Mutant of Wants: a filled session can be taken, too.                     *)
WantsAny(t) == IF op[t] = "fill" THEN {"Empty"} ELSE {"Filled", "Written"}

Wants(t) == IF op[t] = "fill" THEN {"Empty"} ELSE {"Written"}

(* Either takes the siegel out of the state it wants and keeps the mutex.   *)
Looks(t) == op[t] \in {"fill", "take"} /\ pc[t] = "lock" /\ StateFree(cur[t])

(* Mutant of TakeOut: the mutex is given back while the siegel is out.      *)
TakeOutUnlocks(t) ==
  /\ Looks(t) /\ state[cur[t]] \in Wants(t)
  /\ state' = Set(state, cur[t], "Consumed")
  /\ Goto(t, "body")
  /\ UNCHANGED <<sharedVars, mutex, refs, handle, mem, given, dst>>

TakeOut(t) ==
  /\ Looks(t) /\ state[cur[t]] \in Wants(t)
  /\ state' = Set(state, cur[t], "Consumed") /\ mutex' = Set(mutex, cur[t], t)
  /\ Goto(t, "body")
  /\ UNCHANGED <<sharedVars, refs, handle, mem, given, dst>>

(* Mutant of PutBack: the siegel that was taken out is let go of.           *)
PutBackLoses(t) ==
  /\ Looks(t)
  /\ Return(t, IF state[cur[t]] \in Wants(t) THEN "LEN_MISMATCH" ELSE "WRONG_STATE")
  /\ state' = Set(state, cur[t], "Consumed") /\ mem' = Set(mem, cur[t], "none")
  /\ UNCHANGED <<sharedVars, mutex, refs, handle, given, dst>>

(* Another state, or a siegel of another length, is put back as it was.     *)
PutBack(t) ==
  /\ Looks(t)
  /\ Return(t, IF state[cur[t]] \in Wants(t) THEN "LEN_MISMATCH" ELSE "WRONG_STATE")
  /\ UNCHANGED <<sharedVars, sessionVars, dst>>

(* Mutant of FillWrite: the siegel is put back when the write has failed.   *)
FillWritePutsBack(t, ok) ==
  /\ At(t, "fill", "body")
  /\ mem' = Set(mem, cur[t], "foreign")
  /\ state' = Set(state, cur[t], IF ok THEN "Filled" ELSE "Empty")
  /\ Return(t, IF ok THEN "OK" ELSE "PROTECTION")
  /\ mutex' = Set(mutex, cur[t], None)
  /\ UNCHANGED <<sharedVars, refs, handle, given, dst>>

(* Siegel::write; on failure it has consumed and wiped the siegel.          *)
FillWrite(t, ok) ==
  /\ At(t, "fill", "body")
  /\ \/ /\ ok /\ mem' = Set(mem, cur[t], "foreign")
        /\ state' = Set(state, cur[t], "Filled") /\ Return(t, "OK")
     \/ /\ ~ok /\ mem' = Set(mem, cur[t], "none")
        /\ Return(t, "PROTECTION") /\ UNCHANGED state
  /\ mutex' = Set(mutex, cur[t], None)
  /\ UNCHANGED <<sharedVars, refs, handle, given, dst>>

(* Siegel::read_once fails before its closure: dst is wiped all the same.   *)
TakeRefused(t, error) ==
  /\ At(t, "take", "body")
  /\ mem' = Set(mem, cur[t], "none") /\ dst' = Set(dst, t, "zeros")
  /\ mutex' = Set(mutex, cur[t], None)
  /\ Return(t, TakeCode[error])
  /\ UNCHANGED <<sharedVars, state, refs, handle, given>>

TakeCopy(t) ==
  /\ At(t, "take", "body")
  /\ dst' = Set(dst, t, mem[cur[t]])
  /\ given' = Set(given, cur[t], Append(given[cur[t]], <<"foreign", mem[cur[t]]>>))
  /\ Goto(t, "copied")
  /\ UNCHANGED <<sharedVars, state, mutex, refs, handle, mem>>

(* Mutant of TakeFinish: dst is not wiped when the reseal has failed.       *)
TakeFinishLeavesCopy(t, ok) ==
  /\ At(t, "take", "copied")
  /\ mem' = Set(mem, cur[t], "none") /\ mutex' = Set(mutex, cur[t], None)
  /\ Return(t, IF ok THEN "OK" ELSE "PROTECTION")
  /\ UNCHANGED <<sharedVars, state, refs, handle, given, dst>>

(* The reseal after the copy, and the drop of the siegel.                   *)
TakeFinish(t, ok) ==
  /\ At(t, "take", "copied")
  /\ mem' = Set(mem, cur[t], "none") /\ mutex' = Set(mutex, cur[t], None)
  /\ \/ ok  /\ Return(t, "OK") /\ UNCHANGED dst
     \/ ~ok /\ Return(t, TakeCode["ProtectionFailed"]) /\ dst' = Set(dst, t, "zeros")
  /\ UNCHANGED <<sharedVars, state, refs, handle, given>>

-------------------------------------------------------------------------------
(* Methods, called through an Arc that foreign code lends.                  *)

CallMethod(t, what, s) ==
  /\ Foreign \in refs[s]
  /\ Start(t, what, "lock", s, None)
  /\ refs' = [refs EXCEPT ![s] = @ \cup {t}]
  /\ UNCHANGED <<sharedVars, state, mutex, handle, mem, given, rc, dst>>

(* is_consumed; is_locked takes the same look at the state.                 *)
IsConsumed(t) ==
  LET s == cur[t] IN
  /\ At(t, "is_consumed", "lock") /\ StateFree(s)
  /\ told' = IF state[s] = "Consumed" THEN told \cup {s} ELSE told
  /\ Return(t, "ok")
  /\ UNCHANGED <<regLock, registry, draws, issued, sessionVars, dst>>

(* Whatever siegel the state held is dropped under the mutex.               *)
Wiped(s) ==
  /\ StateFree(s)
  /\ state' = Set(state, s, "Consumed")
  /\ mem' = IF state[s] = "Consumed" THEN mem ELSE Set(mem, s, "none")

Obliviate(t) ==
  /\ At(t, "obliviate", "lock") /\ Wiped(cur[t])
  /\ Return(t, "ok")
  /\ UNCHANGED <<sharedVars, mutex, refs, handle, given, dst>>

(* The session t reads: its own, or the input of its new_written.           *)
Source(t) == IF op[t] = "read_once" THEN cur[t] ELSE inp[t]

Reads(t) == At(t, "read_once", "lock") \/ At(t, "new_written", "input")

(* A closure of new_written that could not read its input fails.            *)
ReadError(t, error) ==
  IF op[t] = "read_once" THEN Return(t, error) ELSE Goto(t, "failed")

(* Mutant of ReadLock: the state is only inspected, not replaced.           *)
ReadLockKeepsState(t) ==
  LET s == Source(t) IN
  /\ Reads(t) /\ StateFree(s) /\ state[s] \in {"Filled", "Written"}
  /\ Goto(t, "read_body")
  /\ UNCHANGED <<sharedVars, sessionVars, dst>>

(* Mutant of ReadLock: the guard lives as long as the closure.              *)
ReadLockKeepsGuard(t) ==
  LET s == Source(t) IN
  /\ Reads(t) /\ StateFree(s) /\ state[s] \in {"Filled", "Written"}
  /\ state' = Set(state, s, "Consumed") /\ mutex' = Set(mutex, s, t)
  /\ Goto(t, "read_body")
  /\ UNCHANGED <<sharedVars, refs, handle, mem, given, dst>>

(* The mutex is free again before the closure runs.                         *)
ReadLock(t) ==
  LET s == Source(t) IN
  /\ Reads(t) /\ StateFree(s) /\ state[s] \in {"Filled", "Written"}
  /\ state' = Set(state, s, "Consumed")
  /\ Goto(t, "read_body")
  /\ UNCHANGED <<sharedVars, mutex, refs, handle, mem, given, dst>>

(* An empty siegel is put back; "consumed" is the last word on a session.   *)
ReadUnready(t) ==
  LET s == Source(t) IN
  /\ Reads(t) /\ StateFree(s)
  /\ \/ state[s] = "Empty" /\ ReadError(t, "InvalidState") /\ UNCHANGED told
     \/ state[s] = "Consumed" /\ ReadError(t, "Consumed") /\ told' = told \cup {s}
  /\ UNCHANGED <<regLock, registry, draws, issued, sessionVars, dst>>

(* The closure may itself call a method of the session it is reading, or    *)
(* pass its handle on: each such call wants the state mutex.                *)
CallBack(t) ==
  /\ pc[t] = "read_body" /\ calls < MaxCalls
  /\ pc' = Set(pc, t, "reenter") /\ calls' = calls + 1
  /\ UNCHANGED <<sharedVars, sessionVars, op, cur, inp, rc, dst>>

CallBackLock(t) ==
  /\ pc[t] = "reenter" /\ Wiped(Source(t))
  /\ Goto(t, "read_body")
  /\ UNCHANGED <<sharedVars, mutex, refs, handle, given, dst>>

(* Siegel::read_once: a closure that ran may be followed by a failed reseal.*)
ReadBody(t, ran, ok) ==
  LET s == Source(t) IN
  /\ pc[t] = "read_body" /\ (ok => ran)
  /\ mem' = Set(mem, s, "none")
  /\ given' = IF ran THEN Set(given, s, Append(given[s], <<"rust", mem[s]>>)) ELSE given
  /\ \/ ~ok /\ ReadError(t, "error")
     \/ ok /\ op[t] = "read_once" /\ Return(t, "ok")
     \/ ok /\ op[t] = "new_written" /\ Goto(t, "seal")
  /\ UNCHANGED <<sharedVars, state, mutex, refs, handle, dst>>

-------------------------------------------------------------------------------
(* new_written, once `new` has made its session: take the empty siegel and  *)
(* run the closure on it, the state mutex held throughout.                  *)

WrittenLock(t) ==
  LET s == cur[t] IN
  /\ At(t, "new_written", "lock") /\ StateFree(s)
  /\ UNCHANGED <<sharedVars, refs, handle, given, dst>>
  /\ state' = Set(state, s, "Consumed")
  /\ \/ state[s] = "Empty" /\ Goto(t, "body") /\ mutex' = Set(mutex, s, t) /\ UNCHANGED mem
     \/ /\ state[s] # "Empty" /\ Return(t, "error") /\ UNCHANGED mutex
        /\ mem' = IF state[s] = "Consumed" THEN mem ELSE Set(mem, s, "none")

(* The closure is foreign to this code: it may read its input, or open a    *)
(* session when it has none; having called, it waits until it is answered.  *)
ClosureReads(t) ==
  /\ At(t, "new_written", "body") /\ inp[t] # None
  /\ Goto(t, "input")
  /\ UNCHANGED <<sharedVars, sessionVars, dst>>

ClosureOpens(t) ==
  /\ At(t, "new_written", "body") /\ inp[t] = None
  /\ Goto(t, "open")
  /\ UNCHANGED <<sharedVars, sessionVars, dst>>

(* write_with succeeds: the session goes to foreign code, with its handle.  *)
WrittenSeal(t) ==
  LET s == cur[t] IN
  /\ op[t] = "new_written" /\ pc[t] \in {"body", "seal"}
  /\ mem' = Set(mem, s, "rust") /\ state' = Set(state, s, "Written")
  /\ mutex' = Set(mutex, s, None)
  /\ refs' = [refs EXCEPT ![s] = (@ \ {t}) \cup {Foreign}]
  /\ issued' = issued \cup {handle[s]}
  /\ Return(t, "ok")
  /\ UNCHANGED <<regLock, registry, draws, told, handle, given, dst>>

(* The pages do not open or reseal, or the closure fails: write_with wipes. *)
WrittenFails(t) ==
  /\ op[t] = "new_written" /\ pc[t] \in {"body", "seal", "failed"}
  /\ mem' = Set(mem, cur[t], "none") /\ mutex' = Set(mutex, cur[t], None)
  /\ Return(t, "error")
  /\ UNCHANGED <<sharedVars, state, refs, handle, given, dst>>

-------------------------------------------------------------------------------
(* References are given back when a call returns; whoever gives the last    *)
(* one back runs SiegelSession::drop, and then the drop of its fields.      *)

LoseRef(t, who, s) ==
  /\ refs' = [refs EXCEPT ![s] = @ \ {who}]
  /\ cur' = Set(cur, t, s)
  /\ pc' = Set(pc, t, IF refs[s] = {who} THEN "drop" ELSE "release")

ForeignRelease(t, s) ==
  /\ pc[t] = "idle" /\ calls < MaxCalls /\ Foreign \in refs[s]
  /\ LoseRef(t, Foreign, s)
  /\ op' = Set(op, t, "release") /\ calls' = calls + 1
  /\ UNCHANGED <<sharedVars, state, mutex, handle, mem, given, inp, rc, dst>>

Held(t) == {s \in Sessions : t \in refs[s]}

Release(t) ==
  /\ pc[t] = "release" /\ Held(t) # {}
  /\ LoseRef(t, t, IF cur[t] \in Held(t) THEN cur[t] ELSE inp[t])
  /\ UNCHANGED <<sharedVars, state, mutex, handle, mem, given, op, inp, rc, dst, calls>>

Leave(t) ==
  /\ pc[t] = "release" /\ Held(t) = {}
  /\ op' = Set(op, t, "none") /\ pc' = Set(pc, t, "idle")
  /\ cur' = Set(cur, t, None) /\ inp' = Set(inp, t, None)
  /\ rc' = Set(rc, t, "none") /\ dst' = Set(dst, t, "untouched")
  /\ UNCHANGED <<sharedVars, sessionVars, calls>>

(* Mutant of DropSession: there is nothing to do once the entry is pruned.  *)
DropSessionIfRegistered(t) ==
  /\ pc[t] = "drop" /\ RegistryFree
  /\ registry' = Set(registry, handle[cur[t]], None)
  /\ Goto(t, IF registry[handle[cur[t]]] = None THEN "release" ELSE "drop_fields")
  /\ UNCHANGED <<regLock, draws, issued, told, sessionVars, dst>>

DropSession(t) ==
  /\ pc[t] = "drop" /\ RegistryFree
  /\ registry' = Set(registry, handle[cur[t]], None)
  /\ Goto(t, "drop_fields")
  /\ UNCHANGED <<regLock, draws, issued, told, sessionVars, dst>>

(* Mutant of DropFields: a leaked siegel.                                   *)
DropFieldsLeaks(t) ==
  /\ pc[t] = "drop_fields"
  /\ state' = Set(state, cur[t], "Dropped")
  /\ Goto(t, "release")
  /\ UNCHANGED <<sharedVars, mutex, refs, handle, mem, given, dst>>

DropFields(t) ==
  /\ pc[t] = "drop_fields"
  /\ state' = Set(state, cur[t], "Dropped") /\ mem' = Set(mem, cur[t], "none")
  /\ Goto(t, "release")
  /\ UNCHANGED <<sharedVars, mutex, refs, handle, given, dst>>

-------------------------------------------------------------------------------

Init ==
  /\ regLock = None /\ registry = [h \in Handles |-> None]
  /\ draws = 0 /\ issued = {} /\ told = {}
  /\ state = [s \in Sessions |-> "none"] /\ mutex = [s \in Sessions |-> None]
  /\ refs = [s \in Sessions |-> {}] /\ handle = [s \in Sessions |-> None]
  /\ mem = [s \in Sessions |-> "none"] /\ given = [s \in Sessions |-> <<>>]
  /\ op = [t \in Threads |-> "none"] /\ pc = [t \in Threads |-> "idle"]
  /\ cur = [t \in Threads |-> None] /\ inp = [t \in Threads |-> None]
  /\ rc = [t \in Threads |-> "none"] /\ dst = [t \in Threads |-> "untouched"]
  /\ calls = 0

(* Calls begin; foreign code passes the handles it was given, stale or not. *)
Begin(t) ==
  \/ NewAdmit(t, "new", None)
  \/ \E i \in Sessions \cup {None} : NewAdmit(t, "new_written", i)
  \/ FillCall(t) \/ TakeCall(t)
  \/ \E s \in Sessions :
       ForeignRelease(t, s)
         \/ \E what \in {"read_once", "obliviate", "is_consumed"} : CallMethod(t, what, s)
  \/ ClosureReads(t) \/ ClosureOpens(t) \/ CallBack(t)

Step(t) ==
  \/ \E h \in Draws : NewRedraw(t, h) \/ \E s \in Sessions : NewInsert(t, s, h)
  \/ NestedNew(t) \/ NewFails(t)
  \/ TakeOut(t) \/ PutBack(t) \/ TakeCopy(t)
  \/ \E ok \in BOOLEAN : FillWrite(t, ok) \/ TakeFinish(t, ok)
  \/ \E error \in DOMAIN TakeCode : TakeRefused(t, error)
  \/ IsConsumed(t) \/ Obliviate(t)
  \/ ReadLock(t) \/ ReadUnready(t) \/ CallBackLock(t)
  \/ \E ran, ok \in BOOLEAN : ReadBody(t, ran, ok)
  \/ WrittenLock(t) \/ WrittenSeal(t) \/ WrittenFails(t)
  \/ Release(t) \/ Leave(t) \/ DropSession(t) \/ DropFields(t)

Next == \E t \in Threads : Begin(t) \/ Step(t)

(* A thread inside a call is scheduled, and a mutex that is free is taken.  *)
Fairness == \A t \in Threads : WF_vars(Step(t))

Safety == Init /\ [][Next]_vars
Spec   == Safety /\ Fairness

-------------------------------------------------------------------------------
(* Properties.                                                              *)

Secret == {"foreign", "rust"}

(* Every variable has its type; in particular nothing but what Rust wrote   *)
(* ever reaches the destination of a siegel_take.                           *)
TypeOK ==
  /\ regLock \in Threads \cup {None}
  /\ registry \in [Handles -> Sessions \cup {None}]
  /\ draws \in 0..MaxHandleAllocRetries
  /\ issued \subseteq Handles /\ told \subseteq Sessions
  /\ state \in [Sessions -> SessionStates \cup {"none", "Dropped"}]
  /\ mutex \in [Sessions -> Threads \cup {None}]
  /\ refs \in [Sessions -> SUBSET (Threads \cup {Foreign})]
  /\ handle \in [Sessions -> Handles \cup {None}]
  /\ mem \in [Sessions -> {"none", "blank"} \cup Secret]
  /\ given \in [Sessions -> Seq({"rust", "foreign"} \X Secret)]
  /\ op \in [Threads -> {"none", "new", "new_written", "fill", "take", "read_once",
                         "obliviate", "is_consumed", "release"}]
  /\ pc \in [Threads -> {"idle", "alloc", "lock", "body", "input", "open", "nested",
                         "copied", "read_body", "reenter", "seal", "failed", "release",
                         "drop", "drop_fields"}]
  /\ cur \in [Threads -> Sessions \cup {None}]
  /\ inp \in [Threads -> Sessions \cup {None}]
  /\ rc \in [Threads -> {"none", "ok"} \cup SessionErrors \cup TakeCodes]
  /\ dst \in [Threads -> {"untouched", "zeros", "rust"}]
  /\ calls \in 0..MaxCalls

(* The secret of a session is given out at most once, to a read_once, to a  *)
(* siegel_take or to the closure of a new_written, whoever gets there first.*)
OneTimeUse == \A s \in Sessions : Len(given[s]) <= 1

(* siegel_take hands over what Rust wrote, whole, or nothing: "on           *)
(* TAKE_ERR_CANARY and TAKE_ERR_PROTECTION dst is zeroed; other errors      *)
(* leave it untouched".                                                     *)
TakeOutcome ==
  \A t \in Threads : At(t, "take", "release") =>
    CASE rc[t] = "OK"                       -> dst[t] = "rust"
      [] rc[t] \in {"CANARY", "PROTECTION"} -> dst[t] = "zeros"
      [] OTHER                              -> dst[t] = "untouched"

(* The thread that is using the siegel it took out of session s.            *)
Using(t, s) ==
  \/ pc[t] \in {"body", "input", "open", "nested", "copied", "seal", "failed"} /\ s = cur[t]
  \/ pc[t] \in {"read_body", "reenter"} /\ s \in {cur[t], inp[t]}

(* The state tells what is in the pages, and a session that says Consumed   *)
(* has no pages left, unless a thread is just using them.                   *)
StateTellsContent ==
  \A s \in Sessions :
    CASE state[s] \in {"none", "Dropped"} -> mem[s] = "none"
      [] state[s] = "Empty"               -> mem[s] = "blank"
      [] state[s] = "Filled"              -> mem[s] = "foreign"
      [] state[s] = "Written"             -> mem[s] = "rust"
      [] state[s] = "Consumed" ->
           mem[s] = "none" \/ \E t \in Threads : Using(t, s)

(* What a caller was told is consumed, by is_consumed or by an error of     *)
(* read_once, is never seen in another state again: the moments at which    *)
(* siegel_fill, siegel_take and new_written have replaced the state in      *)
(* advance are nobody's to see.                                             *)
TerminalIsFinal == \A s \in told : state[s] \in {"Consumed", "Dropped"}

(* The id of s was drawn for another session, too, and nobody holds that    *)
(* one any more: handles it had may still be around, its Drop to come.      *)
Reused(s) == \E r \in Sessions \ {s} : handle[r] = handle[s] /\ ~Live(r)

(* As long as somebody holds a session its handle reaches it: no pruning,   *)
(* no Drop of another session and no new one takes away or overwrites the   *)
(* entry of a live session, whatever ids recur, unless its own id recurred  *)
(* after the session that had it was given up (DropRemovesStale).           *)
LiveIsRegistered == \A s \in Sessions : Live(s) /\ ~Reused(s) => registry[handle[s]] = s

(* "Hold the lock ... to prevent race conditions that could exceed the      *)
(* maximum active sessions": the sessions found by their handles count.     *)
CapRespected ==
  Cardinality({s \in Sessions : Live(s) /\ ~Reused(s)}) <= MaxActiveSessions

(* new_written: "Unreachable: `session` is fresh and unshared", although    *)
(* its handle is already in the registry, for who does not know it.         *)
FreshUnshared ==
  \A t \in Threads : At(t, "new_written", "lock") /\ ~Reused(cur[t]) =>
    state[cur[t]] = "Empty" /\ mutex[cur[t]] = None

(* Thread t, inside a call, wants a lock that thread u holds.               *)
Waits(t, u) ==
  \/ pc[t] = "lock" /\ mutex[cur[t]] = u
  \/ (Reads(t) \/ pc[t] = "reenter") /\ mutex[Source(t)] = u
  \/ pc[t] \in {"drop", "open"} /\ regLock = u

(* A thread that waits for one that waits finds an end of the chain there,  *)
(* although closures of new_written open and read sessions under the mutex  *)
(* of the one they write: no circle of waiting threads, of whatever length, *)
(* and no thread that waits for itself.                                     *)
NoCircle ==
  \A t, u, v \in Threads : Waits(t, u) /\ Waits(u, v) => \A w \in Threads : ~Waits(v, w)

(* A session that nobody holds any more is in the hands of the thread that  *)
(* gave the last reference back, until its siegel is gone, and before its   *)
(* entry is: wherever that happened, in a failing call or in a closure, and *)
(* whoever pruned the entry or looked it up meanwhile.                      *)
OrphanIsDropped ==
  \A s \in Sessions : ~Live(s) =>
    /\ state[s] \notin {"none", "Dropped"} =>
         \E t \in Threads : pc[t] \in {"drop", "drop_fields"} /\ cur[t] = s
    /\ handle[s] # None /\ registry[handle[s]] = s =>
         \E t \in Threads : pc[t] = "drop" /\ cur[t] = s

(* Once nobody holds a session its pages are wiped and its entry goes.      *)
ReleasedIsWiped ==
  \A s \in Sessions :
    handle[s] # None /\ ~Live(s) ~>
      mem[s] = "none" /\ \A h \in Handles : registry[h] # s

(* Every call returns: no two of the mutexes are ever waited for in a       *)
(* circle, and no thread waits for one it holds.                            *)
CallsReturn == \A t \in Threads : pc[t] # "idle" ~> pc[t] = "idle"

(* Sessions keep the promise of SessionTable: whatever the interleaving,    *)
(* each call takes effect at one moment, and what a thread does between two *)
(* operations on a state mutex it holds is not seen by others.              *)
phaseBar ==
  [s \in Sessions |->
    IF state[s] = "none" THEN "absent"
    ELSE IF given[s] # <<>> \/ mem[s] = "none" THEN "consumed"
    ELSE IF mem[s] = "blank" THEN "empty"
    ELSE IF state[s] = "Consumed" /\ mutex[s] = None THEN "claimed" ELSE "loaded"]

secretBar ==
  [s \in Sessions |-> IF phaseBar[s] \in {"loaded", "claimed"} THEN mem[s] ELSE "none"]

Table == INSTANCE SessionTable WITH
  live <- {s \in Sessions : Live(s)},
  phase <- phaseBar, secret <- secretBar

ImplementsTable == Table!Spec

(* A siegel is gone unread, be it empty or full, only with a call that says *)
(* so: with an obliviate, with an error of the memory or of the closure, or *)
(* with the session; a refused siegel_fill, siegel_take or read_once, which *)
(* has had the siegel out of the state, has put it back.                    *)
NoSilentLoss ==
  [][\A s \in Sessions :
       mem[s] # "none" /\ mem'[s] = "none" /\ given'[s] = <<>> =>
         \E t \in Threads :
           /\ s \in {cur[t], inp[t]} /\ pc'[t] # pc[t]
           /\ \/ pc[t] \in {"reenter", "drop_fields"} \/ At(t, "obliviate", "lock")
              \/ rc[t] = "none" /\ rc'[t] \in {"PROTECTION", "CANARY", "error"}
              \/ pc[t] = "read_body" /\ pc'[t] = "failed"]_vars

(* Drop: "clean up the stale entry from the registry".                      *)
DropRemovesStale ==
  \A t \in Threads : pc[t] = "drop" => registry[handle[cur[t]]] \in {cur[t], None}

(* MAX_ACTIVE_SESSIONS "bounds mlocked memory".                             *)
MappedWithinCap == Cardinality({s \in Sessions : mem[s] # "none"}) <= MaxActiveSessions

(* obliviate: "Wipe the session without using it".                          *)
ObliviateWipes ==
  \A t \in Threads : At(t, "obliviate", "release") => mem[cur[t]] \notin Secret

================================================================================
