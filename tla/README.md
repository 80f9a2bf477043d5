# A verification of siegel

TLA+ models of `siegel` (protected memory for one-time secrets) and of
`siegel-uniffi` (sessions that carry such secrets across a foreign-language
boundary), checked with TLC on small instances, and proofs about them checked
with TLAPS. Paths below are relative to the repository.

## The system

| part | state it keeps | operations | hard behaviour |
|------|----------------|------------|----------------|
| `ProtectedRegion` (`siegel/src/protected.rs`) | an anonymous mapping, guard pages around data pages, the fields `protection`, `locked`, `usable_len`, a canary | `new`, `with_read`, `with_write`, `zeroize`, `Drop` | any `mmap` or `mprotect` may be refused in the middle of a call; closures may panic; a stray write may overrun |
| `Siegel<Empty>`, `Siegel<Loaded>` (`siegel/src/lib.rs`) | one region, and the type state | `new`, `write`, `write_with`, `read_once`, `obliviate`, `zeroize`, implicit drops | every failing path has to end in the region's drop |
| `SiegelSession` and `REGISTRY` (`siegel-uniffi/src/session.rs`) | a mutex around a map from handle to `Weak` session; per session a mutex around `Empty`, `Filled`, `Written` or `Consumed` | `new`, `new_written`, `read_once`, `obliviate`, `is_consumed`, `is_locked`, `siegel_fill`, `siegel_take`, `Drop` | threads between any two lock operations; reference counts that reach zero anywhere; nested locks and closures that call back; a cap; handles drawn at random |
| test utilities of both crates | a thread-local switch | `fail_next_reseal`, `sha256_consume`, `sha256_reseal`, forked crashes | covered as far as they call the above |
| UniFFI scaffolding, Kotlin and Swift packages, scripts | none of their own | | not modelled, see below |

A session owns a siegel and a siegel owns a region. Regions and siegels are used
by one owner at a time (`&mut self`, or by value); only sessions are shared.
What makes each part correct:

* a region is readable only around a closure, tells its caller when it could not
  be sealed again, never shows a reader a corrupted secret, and gives its pages
  back only as zeros;
* a siegel is a one-time secret: put in once and whole, read at most once;
* a session is used at most once whoever races for it, and what foreign code
  filled in only Rust gets; what is reported consumed stays consumed; a call
  that refuses a secret leaves it in place; its handle reaches a session as long
  as somebody holds it; sessions do not exceed the cap; every call returns; a
  released session leaves nothing behind.

## The modules

    SessionTable            what sessions promise; each row is a OneTimeSecret
        ^ implemented by    ^ implemented by
    SiegelSession           SessionOverSiegel     session.rs: many sessions, one
                                |                 step per lock operation; and one
                                | EXTENDS         session, one per system call
    OneTimeSecret               |                 what a siegel promises
        ^ implemented by        v
    Siegel  <-------------------+                 lib.rs
        | EXTENDS
    ProtectedRegion                               protected.rs, per system call

    ProtectedRegionProofs, SiegelProofs, SessionTableProofs,
    SessionProofs, SessionSecretProofs, SessionRefinementProofs,
    SessionOverSiegelProofs                                        TLAPS
    MCProtectedRegion, MCSiegel, MCSessionTable, MCSessionOverSiegel,
    MCSiegelSession                                                TLC

**ProtectedRegion.** `pages` is what the kernel enforces, `protection` what the
struct's field says; keeping them apart is the point of the module. A step is the
code between two system calls or one closure: `NewMmap`, `NewOpen`, `NewLock`,
`NewSeal` are `new_with`; `VerifyCanary`, `ReadClosure`, `Finish`, `GuardDrop`
are a `with_read`; `OpenWrite`, `WriteClosure`, `Finish`, `GuardDrop` a
`with_write`; `Zeroize`, and `Drop` with `Munmap`, end a secret and a region.
Each action with a parameter `ok` has a branch in which the kernel refuses the
call (`Refused`), so all early returns are there: `NewRejected`, `NewAbandoned`
(a mapping is lost), `SealBadCanary`, and the unsuccessful halves of the others.
`finish(self)` consumes its guard, whose destructor seals a second time:
`GuardDrop` follows `Finish` always, and alone follows a panic. `Wipe` writes its
zeros whether or not `mprotect` succeeded; on pages that are not writable that
ends the process (`pc = "crashed"`). `StrayWrite` is the environment: a write
past the usable bytes, into the canary, into the slack behind it, or into the
guard page (`pc = "trapped"`).

**Siegel** EXTENDS that module and drives its steps: `siegel` is the type state,
`call` the method, `outcome` what it returns (`ErrorOf` is `From<ProtectionError>`),
`seen` the history of what reading closures got. A value that a method takes by
`self` and does not return is dropped before the method ends; `Drops` marks that
moment and `DropRegion`, `Unmap` carry it out.

**OneTimeSecret** has five actions: open, load, spoil (the memory was overrun or
zeroized), use, discard. `Siegel` implements it under `phaseBar` and `secretBar`:
a siegel counts as consumed once a closure has read it or once its drop has
begun, and as spoiled once its canary is gone.

**SiegelSession** models what runs between two lock operations as one step.

* `NewAdmit` and `NewInsert` are the two halves of `new`, with the registry
  locked in between; `NewRedraw` is a turn of the loop in `allocate_handle_id`
  whose draw was 0 or registered, `NewFails` every way in which the second half
  ends without a session. Any id may be drawn (`Draws`), also one that a session
  had whose entry is gone.
* `Lookup` locks the registry, upgrades the entry and unlocks. Then `TakeOut` and
  `FillWrite`, or `TakeOut`, `TakeCopy` and `TakeFinish`, are `siegel_fill` and
  `siegel_take` under the state mutex; `PutBack` is their early return.
* `ReadLock` and `ReadBody` are `read_once`, which frees the mutex before the
  closure; `ReadUnready` is its early return. In between the closure may call
  back into the session it reads (`CallBack`, `CallBackLock`).
* `WrittenLock`, then what the closure does, then `WrittenSeal` or
  `WrittenFails`, are `new_written` after its `new`. The closure may call
  `read_once` of another session (`ClosureReads`; then `ReadLock`, `ReadBody`, as
  in `sha256_reseal`) or open one (`ClosureOpens`; then `NestedNew`), in both cases
  under the state mutex of the session it writes. Having called, it waits until
  the lock is free: there is no other way out.
* `IsConsumed` and `Obliviate` are the short methods; `is_locked` takes the same
  look as `is_consumed`.
* `Release` gives a strong reference back; the last one leads through
  `DropSession` (registry) and `DropFields` (the wipe).

`mem` says what a session's pages hold and who put it there; `given` records who
got it; `told` which sessions a caller has been told are consumed. A `Siegel`
call is one or two steps here that succeed or fail as `Siegel` allows. A panic in
a closure takes the path of a failing closure: the same values are dropped in the
same order, and since every lock ignores poisoning (`unwrap_or_else(into_inner)`)
nobody can tell afterwards. `refs` is the set of holders, `Foreign` standing for
the Arcs foreign code owns; UniFFI lends one to each method call (`Lend`,
`CallMethod`).

**SessionTable** is what is left of that for a user: a set of live sessions, each
loaded by one side, claimed, and given once. `SiegelSession`
implements it under `phaseBar` and `secretBar`: a call takes effect when the
secret changes hands, and a `read_once` claims the secret when it frees the mutex.

**SessionOverSiegel** is one session over the system calls of its siegel.
`SiegelSession` lets a Siegel call succeed or fail as a whole; here the same
handlers of session.rs (`OpenSession` to `Opened`, `Fill`, `Written`, `Stored`,
`Read`, `Give`, `Obliviated`, `Rejected`, `Dropped`) run over the steps of
`Siegel`, and `Below` are those steps that session.rs does not see. `NoHandle` is
the failure of `allocate_handle_id` when the siegel exists already and no session
does; `Released` and `FieldsDropped` drop a session with the siegel that it has,
empty or loaded. Whoever has
taken the siegel out of the state has it alone, and a call that finds `Consumed`
only returns, so one call at a time loses nothing here; the interleavings are the
matter of `SiegelSession`. It implements the same table, with one row.

## What is checked

| run | module, configuration | shows |
|-----|-----------------------|-------|
| `region` | `MCProtectedRegion` | `SealedAtRest`, `OneFaultStaysSealed`, `RecordedProtection`, `CanaryInPages`, `UnmapsOnlyZeros` |
| `siegel` | `MCSiegel` | `OneTime` (the refinement), `StartsZeroed`, `NeverRestsExposed`, `OutcomeTellsUse`, `DroppingEnds` |
| `session` | `MCSiegelSession` | `OneTimeUse`, `TakeOutcome`, `StateTellsContent`, `LiveIsRegistered`, `CapRespected`, `FreshUnshared`, `TerminalIsFinal`, `NoCircle`, `OrphanIsDropped`, `NoSilentLoss`, `ImplementsTable` (the refinement) |
| `table` | `MCSessionTable` | `EverySecretIsOneTime` (each row a `OneTimeSecret`) |
| `session_liveness` | `MCSiegelSession`, `MCSiegelSessionLive.cfg` | `CallsReturn`, `ReleasedIsWiped` |
| `session_over_siegel` | `MCSessionOverSiegel` | `StateOwnsSiegel`, `TakeHandsOver`, `KeepsTable` (the refinement) |

`region`, `siegel` and `session` also check the type invariant of their module.

`LiveIsRegistered`, `CapRespected` and `FreshUnshared` leave out a session whose id
was drawn before for a session that nobody holds any more (`Reused`). For such a
session the code does not keep them: `late_drop` shows how its entry goes, after
which `new` counts one session too few; and a stale handle of the earlier session
reaches it before `new_written` has locked its state. All other properties, the
refinement of `SessionTable` included, hold whatever ids recur.

Six more runs check a sentence of the repository that the code does not keep:

* `lost_mapping`: `new_with` does not unmap what it mapped when a later
  `mprotect` is refused (protected.rs:118 and 129; "Caller must `munmap` the
  result", line 351).
* `failed_reopen`: when `zeroize` cannot reopen the pages, they need not be
  inaccessible (protected.rs:245): after a closure whose reseal was refused they
  are readable, and the process dies with the secret in them.
* `canary_position`: the canary is not at the end of the data region
  (protected.rs:28 against 126); up to a page of slack behind it is unchecked.
* `late_drop`: the entry that `Drop` removes need not be its own stale one
  (session.rs:208 against the comment at 207): a session is pruned while its
  `Drop` waits for the registry, and its id is drawn again for a session that the
  `Drop` then unregisters. 64 random bits make that as rare as a draw of an id
  still registered, which `allocate_handle_id` rejects.
* `mapped_within_cap`: `MAX_ACTIVE_SESSIONS` does not bound the locked memory
  (session.rs:22): a session being dropped is mapped but no longer counted.
* `obliviate_wipes`: `obliviate` returns while a concurrent `read_once` still has
  the secret (session.rs:122).

### Bounds

* Regions: 4-byte pages, a 2-byte canary, sizes 0 to 4 with a maximum of 3. Sizes
  1, 2 and 3 leave slack behind the canary, none, and need a second page; 0 and 4
  are refused. Two secrets besides zero. `MaxFaults` = 3 refused calls: two let a
  secret rest unsealed, the third can hit the wipe. Without more refusals no
  other path of the code opens up, and the proofs hold for any number.
* Sessions (`session`): three threads, three sessions, three handles, a cap of 2,
  four calls started (`MaxCalls`). Two sessions fill the cap, the third meets it
  or takes the place of a dropped one; four calls suffice to write a session and
  let three calls race for it, to open one, fill it and let two race for it, or to
  open one, fill it, read it into another and take that. Three calls draw the
  handle of a session whose `Drop` is still to come. Threads, sessions and handles
  are symmetric there.
* The liveness run has two threads, two sessions, two handles, four calls and no
  symmetry; a circle of waiting threads needs no more than the registry, two
  states and two threads. `NoCircle` asks the same of three threads and three
  sessions, and its proof of any number.
* `MaxHandleAllocRetries` is 2 instead of 8 (1 in the liveness run): one rejected
  draw and its retry, and the end of the retries.
* `table`: three sessions, nothing else to bound.
* `session_over_siegel`: the sizes, pages and refusals of the run `siegel`.

### Fairness

`siegel`: weak fairness of the steps inside a call, because its thread is
scheduled and closures are assumed to end. `session_liveness`: weak fairness of
each thread's steps inside a call (`Step`), the steps of a closure that waits for a
lock among them (`ReadLock`, `NestedNew`); what a closure chooses to call
(`ClosureReads`, `ClosureOpens`, `CallBack`) is not fair, and once it has called
nothing but the lock lets it go on. Standard mutexes are not fair, and a thread
could lose a mutex again and again to new calls; the properties are stated for a
bounded number of calls, after which a waiter gets its turn, so that what they
find is a thread waiting for itself or threads waiting in a circle. Starting a
call is never required.

### Assumptions about the environment

* A draw of 64 random bits may give any id: 0, one that is registered, one that
  was; nothing is assumed of the generator.
* Foreign code passes handles it was given, current or stale, and valid pointers.
* A panic unwinds. The workspace's release profile has `panic = "abort"`, under
  which a panicking closure ends the process instead; that leaves out behaviours
  of the model and adds none.
* A process that crashes loses all its state; nothing is persistent, so there is
  no recovery to model.

## What is proved

TLAPS checks, for every page size, canary length, set of sizes and of contents,
and every number of refused calls (assumptions `RegionAssumption` and
`SiegelAssumption`):

* `CanaryFits`: the data pages hold the secret and its canary, and less than a
  page more.
* `TypeCorrect`, and from the inductive invariant `IInv` all five safety
  properties of the run `region`.
* `SiegelTypeCorrect`, `StartsZeroedHolds`, `NeverRestsExposedHolds`,
  `OutcomeTellsUseHolds`, and `OneTimeHolds`: `Siegel` implements `OneTimeSecret`.

and, for every set of sessions:

* `EverySecretIsOneTimeHolds` of `SessionTable`: every row is a `OneTimeSecret`. By
  the two refinements below this holds of both models of sessions.

and, for any threads, handles and calls, every finite set of sessions, every cap
and every number of retries (`SessionAssumption`):

* `RegInvariant`, `LiveIsRegisteredHolds`, `CapRespectedHolds` of `SiegelSession`:
  its registry agrees with the references, a session somebody holds is found
  under its handle, and live sessions stay within the cap, but for those whose id
  recurred.
* `SessInvariant`, and from it every other invariant of the run `session`:
  `SessionTypeOKHolds`, `OneTimeUseHolds`, `StateTellsContentHolds`,
  `FreshUnsharedHolds`, `NoCircleHolds`, `OrphanIsDroppedHolds`,
  `TerminalIsFinalHolds`, `TakeOutcomeHolds`.
* `ImplementsTableHolds`: `SiegelSession` implements `SessionTable`.

and, under the assumptions of `Siegel` alone:

* `OverInvariant`, `StateOwnsSiegelHolds`, `TakeHandsOverHolds` and
  `KeepsTableHolds` of `SessionOverSiegel`: a session and the siegel below it
  agree at every system call, and `SessionTable` is implemented down to there.

The theorems are stated for the specifications without fairness (`Spec` of a
region, `SiegelSafety`, `Safety`, `SessionSafety`); fairness takes behaviours
away, so they hold of the specifications the liveness runs use, too.

The properties of a region speak of the moment between two calls and are not
inductive. `IInv` says what is known at every point of the code: which protection
the pages have there (`PagesAtPc`), that the field follows them (`FieldAtPc`),
where the contents must still be, or again be, zeros (`BlankAtPc`), what the
canary comparison has established (`CanaryAtPc`), and how many refusals it takes
to stand in the guard's destructor, or to rest, unsealed (`GuardAtPc`,
`RestAtPc`). `NextIInv` goes through the actions one by one.

Every step of a siegel is a step of its region or leaves it alone (`RegionStep`),
so `IInv` holds for siegels too; `SInv` adds where the region can stand in each
type state and that nothing was read before. The refinement (`OneTimeStep`) then
names the abstract action each concrete one performs: `NewReturn` opens,
`WriteReturn` loads, `ReadBody` uses, an overrun or `zeroize` spoils, and every
failure discards.

The invariant of the table (`TableInv`) ties phase, secret and history together:
a secret is there exactly in the phases loaded and claimed, nothing was given
before the phase consumed, and what was given then is one pair with a permitted
direction. `SecretStep` names the step of the one-time secret each table step is.

`LiveIsRegistered` needs all of `RegInv`: that the lock is held exactly in the
second half of `new` (`LockInv`), that an entry names a session with that handle
(`HandleInv`), that a live session has its entry (`EntryInv`), and which references
each thread has where (`HoldInv`; so only a session nobody holds is dropped, and a
method's session is alive). A `Drop` that hits the entry of a live session does so
under a common handle, and that session is `Reused`; and it stays so, because a
session nobody holds is never held again (`ReusedStays`). Most steps inside a call
leave all this alone (`Quiet`). For the cap, `CapInv` adds that whoever has the
registry lock has found room: after pruning, handles map the live sessions that
are not `Reused` one to one into the entries (`RoomBelowCap`), and no other step
brings a session to life.

For the secrets of sessions, `SessInv` puts three layers on `RegInv`
(`SessionSecretProofs`):

* `CtlInv`: at which points each call can stand, and that a `new_written` never
  reads the session it writes. A step of one thread leaves the calls of the
  others alone (`OthersStay`).
* `WriteInv`: a session being written is foreign code's not yet, is no input of
  another call and has one writer. Whoever found it in the registry by its handle
  waits for its mutex in `siegel_fill` or `siegel_take`.
* `SecretInv`: a thread holds a state mutex between two steps exactly if its call
  has the siegel (`Holds`); a reader has the siegel with the mutex free
  (`Reading`); no siegel has two users, and what each may find in the pages is
  known (`UserOk`); a session without a user has in its pages what its state
  says, and has been given to nobody unless it is consumed (`SessionOk`).

A step touches one session, which it uses itself or which nobody uses
(`MayTouch`, `Keeps`), and `KeepsAll` concludes from this that the others keep
what they rely on; what is left to show of each action is what it does to its own
session. None of the properties is inductive by itself: `OneTimeUse`, for
instance, needs to know that the mutex of a session being read is free and yet
its state is already `Consumed`. `TerminalIsFinal` and `TakeOutcome` each add a
small invariant of their own (`ToldInv`, `DstInv`).

`FreshUnshared` has an invariant of its own (`FreshInv`): until `new_written` has
locked the state of the session it has just registered, it is its only holder and
its handle was given to nobody, unless that handle is `Reused`.

`NoCircle` is the safety half of `CallsReturn` and, unlike it, is proved for any
number of threads. Whoever holds the registry stands in the second half of `new`
(`LockInv`) and wants nothing. Whoever holds a state mutex and wants a second lock
is writing a session (`WaitsForUser`); if that lock is the mutex of its input, its
holder is not writing that session (`WriteInv`), so it does not wait. A chain of
waiting threads therefore has two links at most: somebody waits for a writer, and
the writer for the registry or for a `siegel_fill`, `siegel_take` or reader that
goes on.

`OrphanIsDropped` is likewise the safety half of `ReleasedIsWiped`: while a session
that nobody holds is not wiped, the thread that gave its last reference back is
in `Drop` for it, and its registry entry is gone before that thread leaves the body
of `Drop`. It is inductive together with `SessInv`, which gives that a step changes
only sessions that somebody holds, or that its own thread is dropping.

The refinement (`SessionRefinementProofs`) names the operation of the table that
each step is: `NewInsert` opens, `FillWrite` and `WrittenSeal` load, `ReadLock`
claims when it gives the mutex back, `ReadBody` reads, `TakeCopy` takes, losing
the last reference closes, everything that wipes discards. `BarFrame` and
`BarQuiet` carry over what a step leaves alone.

Every step of a session over its siegel is a step of that siegel or leaves it
alone (`SessionStep`), so `SInv`, and with it `IInv`, hold there. `OverInv` ties
the session to it: whether the siegel is in the state, out with a call, or going
away (`HasOk`, `GoneOk`, the drop of a session with its siegel included), what
there is before `new` returns and when it has found no handle (`NoneOk`), and that the destination of a `siegel_take`
is what the closure was given (`ReaderOk`). `OverTableStep` names the one step of
the table that the steps of a call add up to.

That `SessionTable`'s own theorems then hold of both implementations is a step
of the reader's: this version of the prover cannot cite a theorem of a module
through its instance.

Only model-checked: the liveness properties `DroppingEnds`, `CallsReturn` and
`ReleasedIsWiped`, which are out of the prover's reach, and `NoSilentLoss`, for
which a proof would have to go through every action once more.

## Not modelled

`madvise`, page alignment as such, and the front guard page (nothing in the code
runs towards it); the byte contents of a partial write (a content is one value);
the queries `len` and `handle_id`, which read a field that never changes;
`fork_and_run` and the guard-page helpers of the test utilities, which crash a
child process on purpose and run in no product; logging; generated bindings, the
Kotlin and Swift packages, `uniffi-bindgen`, build scripts and CI. A step takes
`munlock` and `munmap` together: nothing happens between them.

## Plan

Order of work: the region and its proofs, the siegel and its refinement, then
sessions, because each is the ground of the next. Done: the modules above, and a
proof of every safety invariant and refinement that a run checks. What is left: a
proof of `NoSilentLoss`, and a session over its siegel with more than one thread,
which would join `SiegelSession` and `SessionOverSiegel` in one refinement.
