-------------------------- MODULE SessionSecretProofs --------------------------
(***************************************************************************)
(* Proofs about SiegelSession: the secrets.  Which thread has which siegel,*)
(* what is in the pages of a session, and who was given it, in layers: the *)
(* calls and where they stand, the session of a new_written, the siegels,  *)
(* who knows a new session, and what callers were told.                    *)
(***************************************************************************)
EXTENDS SessionProofs, SequenceTheorems

(* Where each call can stand, before it returns.                            *)
Pcs(what) ==
  CASE what = "none"        -> {"idle"}
    [] what = "new"         -> {"alloc"}
    [] what = "new_written" -> {"alloc", "lock", "body", "input", "open", "nested",
                                "read_body", "reenter", "seal", "failed"}
    [] what = "fill"        -> {"lock", "body"}
    [] what = "take"        -> {"lock", "body", "copied"}
    [] what = "read_once"   -> {"lock", "read_body", "reenter"}
    [] what \in {"obliviate", "is_consumed"} -> {"lock"}
    [] OTHER                -> {}

Ending == {"release", "drop", "drop_fields"}

Ops == {"none", "new", "new_written", "fill", "take", "read_once", "obliviate",
        "is_consumed", "release"}

Codes == {"none", "ok"} \cup SessionErrors \cup TakeCodes

(* A call reads another session only in new_written, and never its own.     *)
CtlRow(t) ==
  /\ op[t] \in Ops
  /\ pc[t] \in Pcs(op[t]) \cup (IF op[t] = "none" THEN {} ELSE Ending)
  /\ rc[t] \in Codes
  /\ pc[t] \in Work => cur[t] # inp[t]
  /\ pc[t] \in Work /\ op[t] # "new_written" => inp[t] = None

CtlTypes ==
  /\ draws \in 0..MaxHandleAllocRetries /\ calls \in 0..MaxCalls
  /\ DOMAIN rc = Threads /\ DOMAIN dst = Threads

CtlInv == CtlTypes /\ \A t \in Threads : CtlRow(t)

-------------------------------------------------------------------------------
(* Calls and where they stand.                                              *)

(* A step of one thread leaves the calls of the others alone.               *)
LEMMA OthersStay ==
  ASSUME RegTypes, CtlTypes, NEW t \in Threads, NEW u \in Threads \ {t}, Begin(t) \/ Step(t)
  PROVE  /\ op'[u] = op[u] /\ pc'[u] = pc[u] /\ cur'[u] = cur[u] /\ inp'[u] = inp[u]
         /\ rc'[u] = rc[u] /\ dst'[u] = dst[u]
<1> DEFINE Goal ==
      /\ op'[u] = op[u] /\ pc'[u] = pc[u] /\ cur'[u] = cur[u] /\ inp'[u] = inp[u]
      /\ rc'[u] = rc[u] /\ dst'[u] = dst[u]
<1> USE DEF RegTypes, CtlTypes, Start, Goto, Return, Set, sharedVars, sessionVars, threadVars
<1>1. ASSUME NEW what, NEW i \in Sessions \cup {None}, NewAdmit(t, what, i) PROVE Goal
  BY <1>1 DEF NewAdmit
<1>2. CASE NestedNew(t) \/ CallBack(t) \/ ClosureReads(t) \/ ClosureOpens(t)
  BY <1>2 DEF NestedNew, CallBack, ClosureReads, ClosureOpens
<1>3. ASSUME NEW what, NullPointer(t, what) \/ \E h \in issued : Lookup(t, what, h) PROVE Goal
  BY <1>3 DEF NullPointer, Lookup
<1>4. ASSUME NEW s \in Sessions, NEW what, CallMethod(t, what, s) PROVE Goal
  BY <1>4 DEF CallMethod
<1>5. ASSUME NEW s \in Sessions, ForeignRelease(t, s) PROVE Goal
  BY <1>5 DEF ForeignRelease, LoseRef
<1>6. ASSUME NEW h, NewRedraw(t, h) \/ \E s \in Sessions : NewInsert(t, s, h) PROVE Goal
  BY <1>6 DEF NewRedraw, NewInsert
<1>7. CASE NewFails(t) \/ TakeOut(t) \/ PutBack(t) \/ TakeCopy(t)
  BY <1>7 DEF NewFails, TakeOut, PutBack, TakeCopy
<1>8. ASSUME NEW ok \in BOOLEAN, FillWrite(t, ok) \/ TakeFinish(t, ok) PROVE Goal
  BY <1>8 DEF FillWrite, TakeFinish
<1>9. ASSUME NEW error, TakeRefused(t, error) PROVE Goal
  BY <1>9 DEF TakeRefused
<1>10. CASE IsConsumed(t) \/ Obliviate(t) \/ ReadLock(t) \/ ReadUnready(t) \/ CallBackLock(t)
  BY <1>10 DEF IsConsumed, Obliviate, ReadLock, ReadUnready, ReadError, CallBackLock
<1>11. ASSUME NEW ran \in BOOLEAN, NEW ok \in BOOLEAN, ReadBody(t, ran, ok) PROVE Goal
  BY <1>11 DEF ReadBody, ReadError
<1>12. CASE WrittenLock(t) \/ WrittenSeal(t) \/ WrittenFails(t)
  BY <1>12 DEF WrittenLock, WrittenSeal, WrittenFails
<1>13. CASE Release(t) \/ Leave(t) \/ DropSession(t) \/ DropFields(t)
  BY <1>13 DEF Release, LoseRef, Leave, DropSession, DropFields
<1> QED
  BY <1>1, <1>2, <1>3, <1>4, <1>5, <1>6, <1>7, <1>8, <1>9, <1>10, <1>11, <1>12, <1>13
     DEF Begin, Step, FillCall, TakeCall

LEMMA CtlStep ==
  ASSUME RegInv, CtlInv, NEW t \in Threads, Begin(t) \/ Step(t)
  PROVE  CtlInv'
<1> DEFINE Goal == CtlTypes' /\ CtlRow(t)'
<1> USE SessionAssumption
    DEF RegInv, RegTypes, HoldInv, CtlInv, CtlTypes, CtlRow, Start, Goto, Return, Set, At,
        sharedVars, sessionVars, threadVars, Pcs, Ops, Codes, SessionErrors, TakeCodes,
        FillCodes, Ending, Work
<1>1. ASSUME NEW what \in {"new", "new_written"}, NEW i \in Sessions \cup {None},
             NewAdmit(t, what, i)
      PROVE  Goal
  BY <1>1 DEF NewAdmit
<1>2. CASE NestedNew(t)
  BY <1>2 DEF NestedNew
<1>3. CASE CallBack(t) \/ ClosureReads(t) \/ ClosureOpens(t)
  BY <1>3 DEF CallBack, ClosureReads, ClosureOpens
<1>4. ASSUME NEW what \in {"fill", "take"}, NullPointer(t, what) PROVE Goal
  BY <1>4 DEF NullPointer
<1>5. ASSUME NEW what \in {"fill", "take"}, NEW h \in issued, Lookup(t, what, h) PROVE Goal
  BY <1>5 DEF Lookup, Resolves
<1>6. ASSUME NEW s \in Sessions, NEW what \in {"read_once", "obliviate", "is_consumed"},
             CallMethod(t, what, s)
      PROVE  Goal
  BY <1>6 DEF CallMethod
<1>7. ASSUME NEW s \in Sessions, ForeignRelease(t, s) PROVE Goal
  BY <1>7 DEF ForeignRelease, LoseRef
<1>8. ASSUME NEW h \in Draws, NewRedraw(t, h) PROVE Goal
  BY <1>8 DEF NewRedraw, Drawing
<1>9. ASSUME NEW h \in Draws, NEW s \in Sessions, NewInsert(t, s, h) PROVE Goal
  <2>1. refs[s] = {}
    BY <1>9 DEF NewInsert, HandleInv, EntryInv, Live
  <2> QED
    BY <1>9, <2>1 DEF NewInsert, Drawing
<1>10. CASE NewFails(t)
  BY <1>10 DEF NewFails
<1>11. CASE TakeOut(t) \/ PutBack(t)
  BY <1>11 DEF TakeOut, PutBack, Looks
<1>12. CASE TakeCopy(t)
  BY <1>12 DEF TakeCopy
<1>13. ASSUME NEW ok \in BOOLEAN, FillWrite(t, ok) PROVE Goal
  BY <1>13 DEF FillWrite
<1>14. ASSUME NEW ok \in BOOLEAN, TakeFinish(t, ok) PROVE Goal
  BY <1>14 DEF TakeFinish, TakeCode
<1>15. ASSUME NEW error \in DOMAIN TakeCode, TakeRefused(t, error) PROVE Goal
  BY <1>15 DEF TakeRefused, TakeCode
<1>16. CASE IsConsumed(t) \/ Obliviate(t)
  BY <1>16 DEF IsConsumed, Obliviate
<1>17. CASE ReadLock(t)
  BY <1>17 DEF ReadLock, Reads
<1>18. CASE ReadUnready(t)
  BY <1>18 DEF ReadUnready, Reads, ReadError
<1>19. CASE CallBackLock(t)
  BY <1>19 DEF CallBackLock
<1>20. ASSUME NEW ran \in BOOLEAN, NEW ok \in BOOLEAN, ReadBody(t, ran, ok) PROVE Goal
  BY <1>20 DEF ReadBody, ReadError
<1>21. CASE WrittenLock(t)
  BY <1>21 DEF WrittenLock
<1>22. CASE WrittenSeal(t) \/ WrittenFails(t)
  BY <1>22 DEF WrittenSeal, WrittenFails
<1>23. CASE Release(t)
  BY <1>23 DEF Release, LoseRef
<1>24. CASE Leave(t)
  BY <1>24 DEF Leave
<1>25. CASE DropSession(t) \/ DropFields(t)
  BY <1>25 DEF DropSession, DropFields
<1>26. Goal
  BY <1>1, <1>2, <1>3, <1>4, <1>5, <1>6, <1>7, <1>8, <1>9, <1>10, <1>11, <1>12, <1>13,
     <1>14, <1>15, <1>16, <1>17, <1>18, <1>19, <1>20, <1>21, <1>22, <1>23, <1>24, <1>25
     DEF Begin, Step, FillCall, TakeCall
<1>27. ASSUME NEW u \in Threads \ {t} PROVE CtlRow(u)'
  BY OthersStay
<1> QED
  BY <1>26, <1>27

-------------------------------------------------------------------------------
(* The session of a new_written that is still at work is no input of another*)
(* call, nor the session of another new_written: foreign code does not have *)
(* it, and who found it by its handle passes it to siegel_fill or _take.    *)

Writes(t) == op[t] = "new_written" /\ pc[t] \in Work

WriteInv ==
  \A t \in Threads : Writes(t) =>
    /\ Foreign \notin refs[cur[t]]
    /\ \A u \in Threads : pc[u] \in Work \cup {"alloc"} => inp[u] # cur[t]
    /\ \A u \in Threads \ {t} : Writes(u) => cur[u] # cur[t]

(* Enough for a step to keep it: foreign code gets no session, and what t   *)
(* reads it read before, or was lent.                                       *)
LEMMA WriteBy ==
  ASSUME RegInv, CtlInv, WriteInv, NEW t \in Threads, Begin(t) \/ Step(t),
         Writes(t)' => Writes(t) /\ cur'[t] = cur[t],
         \A s \in Sessions : Foreign \in refs'[s] => Foreign \in refs[s],
         pc'[t] \in Work \cup {"alloc"} =>
           \/ pc[t] \in Work \cup {"alloc"} /\ inp'[t] = inp[t]
           \/ inp'[t] = None
           \/ inp'[t] \in Sessions /\ Foreign \in refs[inp'[t]]
  PROVE  WriteInv'
<1>1. ASSUME NEW u \in Threads, Writes(u)' PROVE Writes(u) /\ cur'[u] = cur[u] /\ cur[u] \in Sessions
  <2>1. Writes(u) /\ cur'[u] = cur[u]
    BY <1>1, OthersStay DEF Writes, RegInv, CtlInv
  <2> QED
    BY <2>1 DEF RegInv, HoldInv, Writes, Work
<1>2. ASSUME NEW u \in Threads, Writes(u)' PROVE Foreign \notin refs'[cur'[u]]
  BY <1>1, <1>2 DEF WriteInv
<1>3. ASSUME NEW u \in Threads, Writes(u)', NEW v \in Threads, pc'[v] \in Work \cup {"alloc"}
      PROVE  inp'[v] # cur'[u]
  <2>1. CASE v = t
    BY <1>1, <1>3, <2>1, SessionAssumption DEF WriteInv
  <2>2. CASE v # t
    BY <1>1, <1>3, <2>2, OthersStay DEF WriteInv, RegInv, CtlInv
  <2> QED
    BY <2>1, <2>2
<1>4. ASSUME NEW u \in Threads, Writes(u)', NEW v \in Threads \ {u}, Writes(v)'
      PROVE  cur'[v] # cur'[u]
  BY <1>1, <1>4 DEF WriteInv
<1> QED
  BY <1>2, <1>3, <1>4 DEF WriteInv

LEMMA WriteStep ==
  ASSUME RegInv, CtlInv, WriteInv, NEW t \in Threads, Begin(t) \/ Step(t)
  PROVE  WriteInv'
<1> USE SessionAssumption
    DEF RegInv, RegTypes, CtlInv, CtlTypes, CtlRow, Writes, Work, At, Set, Start, Goto, Return,
        sharedVars, sessionVars, threadVars
<1> DEFINE Quiescent ==
      /\ Writes(t)' => Writes(t) /\ cur'[t] = cur[t]
      /\ \A s \in Sessions : Foreign \in refs'[s] => Foreign \in refs[s]
      /\ pc'[t] \in Work \cup {"alloc"} =>
           \/ pc[t] \in Work \cup {"alloc"} /\ inp'[t] = inp[t]
           \/ inp'[t] = None
           \/ inp'[t] \in Sessions /\ Foreign \in refs[inp'[t]]
<1>1. ASSUME NEW what, NEW i \in Sessions \cup {None}, NewAdmit(t, what, i) PROVE Quiescent
  BY <1>1 DEF NewAdmit, Lend
<1>2. ASSUME NestedNew(t) \/ CallBack(t) \/ ClosureReads(t) \/ ClosureOpens(t) PROVE Quiescent
  BY <1>2 DEF NestedNew, CallBack, ClosureReads, ClosureOpens
<1>3. ASSUME NEW what \in {"fill", "take"}, NullPointer(t, what) PROVE Quiescent
  BY <1>3 DEF NullPointer
<1>4. ASSUME NEW what \in {"fill", "take"}, NEW h \in issued, Lookup(t, what, h) PROVE Quiescent
  BY <1>4 DEF Lookup
<1>5. ASSUME NEW s \in Sessions, NEW what \in {"read_once", "obliviate", "is_consumed"},
             CallMethod(t, what, s)
      PROVE  Quiescent
  BY <1>5 DEF CallMethod
<1>6. ASSUME NEW s \in Sessions, ForeignRelease(t, s) PROVE Quiescent
  BY <1>6 DEF ForeignRelease, LoseRef
<1>7. ASSUME NEW h \in Draws, NewRedraw(t, h) PROVE Quiescent
  BY <1>7 DEF NewRedraw, Drawing
<1>8. ASSUME NEW h \in Draws, NEW s \in Sessions, NewInsert(t, s, h) PROVE WriteInv'
  <2>1. refs[s] = {} /\ \A r \in Sessions \ {s} : refs'[r] = refs[r]
    BY <1>8 DEF NewInsert, HandleInv, EntryInv, Live
  <2>2. \/ refs'[s] = {Foreign} /\ ~Writes(t)' /\ pc'[t] = "release"
        \/ /\ refs'[s] = {t} /\ pc[t] = "alloc" /\ pc'[t] = "lock" /\ cur'[t] = s
           /\ inp'[t] = inp[t]
        \/ refs'[s] = {t} /\ pc[t] = "nested" /\ Writes(t) /\ cur'[t] = cur[t] /\ inp'[t] = s
    BY <1>8 DEF NewInsert, Drawing
  <2>3. ASSUME NEW u \in Threads, Writes(u)', ~(u = t /\ cur'[t] = s)
        PROVE  /\ Writes(u) /\ cur'[u] = cur[u] /\ cur[u] \in Sessions \ {s}
               /\ Foreign \notin refs'[cur[u]]
    <3>1. Writes(u) /\ cur'[u] = cur[u]
      BY <2>2, <2>3, OthersStay
    <3>2. cur[u] \in Sessions /\ u \in refs[cur[u]]
      BY <3>1 DEF HoldInv
    <3> QED
      BY <2>1, <3>1, <3>2 DEF WriteInv
  <2>4. ASSUME NEW u \in Threads, pc'[u] \in Work \cup {"alloc"}
        PROVE  \/ pc[u] \in Work \cup {"alloc"} /\ inp'[u] = inp[u] /\ inp[u] # s
               \/ u = t /\ inp'[t] = s /\ Writes(t) /\ cur'[t] = cur[t]
    <3>1. CASE u = t
      <4>1. pc[t] \in {"alloc", "nested"}
        BY <1>8 DEF NewInsert, Drawing
      <4>2. inp[t] # s
        BY <2>1, <4>1 DEF HoldInv
      <4> QED
        BY <2>2, <2>4, <3>1, <4>1, <4>2
    <3>2. CASE u # t
      <4>1. pc[u] \in Work \cup {"alloc"} /\ inp'[u] = inp[u]
        BY <2>4, <3>2, OthersStay
      <4> QED
        BY <2>1, <4>1 DEF HoldInv
    <3> QED
      BY <3>1, <3>2
  <2>5. ASSUME NEW u \in Threads, Writes(u)' PROVE Foreign \notin refs'[cur'[u]]
    <3>1. CASE u = t /\ cur'[t] = s
      BY <2>1, <2>2, <2>5, <3>1 DEF HoldInv
    <3> QED
      BY <2>3, <2>5, <3>1
  <2>6. ASSUME NEW u \in Threads, Writes(u)', NEW v \in Threads, pc'[v] \in Work \cup {"alloc"}
        PROVE  inp'[v] # cur'[u]
    <3>1. CASE u = t /\ cur'[t] = s
      <4>1. ~(Writes(t) /\ cur[t] = s)
        BY <2>1 DEF HoldInv
      <4> QED
        BY <2>4, <2>6, <3>1, <4>1
    <3>2. CASE ~(u = t /\ cur'[t] = s)
      BY <2>3, <2>4, <2>6, <3>2 DEF WriteInv
    <3> QED
      BY <3>1, <3>2
  <2>7. ASSUME NEW u \in Threads, Writes(u)', NEW v \in Threads \ {u}, Writes(v)'
        PROVE  cur'[v] # cur'[u]
    <3>1. CASE ~(u = t /\ cur'[t] = s) /\ ~(v = t /\ cur'[t] = s)
      BY <2>3, <2>7, <3>1 DEF WriteInv
    <3> QED
      BY <2>3, <2>7, <3>1
  <2> QED
    BY <2>5, <2>6, <2>7 DEF WriteInv
<1>9. ASSUME NewFails(t) \/ TakeOut(t) \/ PutBack(t) \/ TakeCopy(t) PROVE Quiescent
  BY <1>9 DEF NewFails, TakeOut, PutBack, TakeCopy, Looks
<1>10. ASSUME NEW ok \in BOOLEAN, FillWrite(t, ok) \/ TakeFinish(t, ok) PROVE Quiescent
  BY <1>10 DEF FillWrite, TakeFinish
<1>11. ASSUME NEW error, TakeRefused(t, error) PROVE Quiescent
  BY <1>11 DEF TakeRefused
<1>12. ASSUME IsConsumed(t) \/ Obliviate(t) \/ ReadLock(t) \/ ReadUnready(t) \/ CallBackLock(t)
       PROVE  Quiescent
  BY <1>12 DEF IsConsumed, Obliviate, ReadLock, ReadUnready, Reads, ReadError, CallBackLock
<1>13. ASSUME NEW ran \in BOOLEAN, NEW ok \in BOOLEAN, ReadBody(t, ran, ok) PROVE Quiescent
  BY <1>13 DEF ReadBody, ReadError
<1>14. ASSUME WrittenLock(t) \/ WrittenFails(t) PROVE Quiescent
  BY <1>14 DEF WrittenLock, WrittenFails
<1>15. CASE WrittenSeal(t)
  <2>1. /\ cur[t] \in Sessions /\ Writes(t) /\ ~Writes(t)' /\ pc'[t] = "release"
        /\ \A s \in Sessions \ {cur[t]} : refs'[s] = refs[s]
    BY <1>15 DEF WrittenSeal, HoldInv
  <2>2. ASSUME NEW u \in Threads, Writes(u)'
        PROVE  Writes(u) /\ cur'[u] = cur[u] /\ cur[u] \in Sessions \ {cur[t]}
    <3>1. Writes(u) /\ cur'[u] = cur[u] /\ u # t
      BY <2>1, <2>2, OthersStay
    <3> QED
      BY <2>1, <3>1 DEF WriteInv, HoldInv
  <2>3. ASSUME NEW u \in Threads, pc'[u] \in Work \cup {"alloc"}
        PROVE  pc[u] \in Work \cup {"alloc"} /\ inp'[u] = inp[u]
    BY <2>1, <2>3, OthersStay
  <2> QED
    BY <2>1, <2>2, <2>3 DEF WriteInv
<1>16. ASSUME Release(t) PROVE Quiescent
  BY <1>16 DEF Release, LoseRef
<1>17. ASSUME Leave(t) \/ DropSession(t) \/ DropFields(t) PROVE Quiescent
  BY <1>17 DEF Leave, DropSession, DropFields
<1>18. WriteInv' \/ Quiescent
  BY <1>1, <1>2, <1>3, <1>4, <1>5, <1>6, <1>7, <1>8, <1>9, <1>10, <1>11, <1>12, <1>13,
     <1>14, <1>15, <1>16, <1>17 DEF Begin, Step, FillCall, TakeCall
<1> QED
  BY <1>18, WriteBy

-------------------------------------------------------------------------------
(* Which thread has which siegel, and what is in its pages.                 *)

(* The siegel is out of the state, and its user has the mutex, or, in       *)
(* read_once, has given it back.                                            *)
Holds(t, s) ==
  /\ s = cur[t]
  /\ \/ pc[t] \in {"body", "input", "open", "nested", "copied", "seal", "failed"}
     \/ pc[t] \in {"read_body", "reenter"} /\ op[t] = "new_written"

Reading(t, s) == pc[t] \in {"read_body", "reenter"} /\ s = Source(t)

Uses(t, s) == Holds(t, s) \/ Reading(t, s)

(* What is in the pages of a session, which then has not been given away.   *)
SessionOk(s) ==
  /\ state[s] \in SessionStates \cup {"none", "Dropped"}
  /\ mem[s] \in {"none", "blank"} \cup Secret
  /\ mutex[s] \in Threads \cup {None}
  /\ state[s] \in {"none", "Dropped"} => mem[s] = "none"
  /\ state[s] = "Empty" => mem[s] = "blank"
  /\ state[s] = "Filled" => mem[s] = "foreign"
  /\ state[s] = "Written" => mem[s] = "rust"
  /\ state[s] \notin {"Consumed", "Dropped"} => given[s] = <<>>
  /\ \/ given[s] = <<>>
     \/ \E to \in {"rust", "foreign"}, whose \in Secret : given[s] = <<<<to, whose>>>>
  /\ state[s] = "Consumed" /\ mem[s] # "none" => \E t \in Threads : Uses(t, s)

(* What a thread knows of the siegel it uses.                               *)
UserOk(t, s) ==
  /\ mutex[s] = t <=> Holds(t, s)
  /\ Uses(t, s) => state[s] = "Consumed"
  /\ Reading(t, s) => mutex[s] = None /\ mem[s] \in Secret /\ given[s] = <<>>
  /\ Holds(t, s) =>
       /\ op[t] \in {"fill", "new_written"} => mem[s] = "blank"
       /\ op[t] = "take" => mem[s] = "rust"
       /\ pc[t] # "copied" => given[s] = <<>>
       /\ pc[t] = "copied" => given[s] = <<<<"foreign", "rust">>>>

SecretInv ==
  /\ DOMAIN mem = Sessions /\ DOMAIN given = Sessions /\ DOMAIN mutex = Sessions
  /\ \A s \in Sessions : SessionOk(s)
  /\ \A s \in Sessions, t \in Threads : UserOk(t, s)
  /\ \A s \in Sessions, t, u \in Threads : Uses(t, s) /\ Uses(u, s) => t = u

SessInv == RegInv /\ CtlInv /\ WriteInv /\ SecretInv

Untouched(s) ==
  state'[s] = state[s] /\ mutex'[s] = mutex[s] /\ mem'[s] = mem[s] /\ given'[s] = given[s]

(* Who may touch a session: its user, any thread while it has no user, and  *)
(* whoever drops it; only who holds it, as long as somebody does.           *)
MayTouch(t, s) ==
  /\ Uses(t, s) \/ state[s] # "Consumed" \/ ~Live(s)
  /\ t \in refs[s] \/ ~Live(s)

Keeps(t) ==
  /\ DOMAIN mem' = Sessions /\ DOMAIN given' = Sessions /\ DOMAIN mutex' = Sessions
  /\ \A s \in Sessions :
       \/ Untouched(s) /\ (Uses(t, s)' <=> Uses(t, s))
       \/ MayTouch(t, s) /\ SessionOk(s)' /\ mutex'[s] \in {t, None}
  /\ \A s \in Sessions : UserOk(t, s)'

(* A user holds a reference; nobody else touches what it uses.              *)
LEMMA UserHolds ==
  ASSUME SessInv, NEW t \in Threads, NEW s \in Sessions, Uses(t, s)
  PROVE  t \in refs[s] /\ Live(s) /\ state[s] = "Consumed"
<1>1. t \in refs[s]
  BY DEF SessInv, RegInv, RegTypes, HoldInv, CtlInv, CtlRow, Uses, Holds, Reading, Source, Work, Pcs
<1> QED
  BY <1>1 DEF Live, SessInv, SecretInv, UserOk

LEMMA KeepsAll ==
  ASSUME SessInv, NEW t \in Threads, Begin(t) \/ Step(t), Keeps(t)
  PROVE  SecretInv'
<1>1. ASSUME NEW u \in Threads \ {t}, NEW s \in Sessions
      PROVE  /\ Holds(u, s)' <=> Holds(u, s)
             /\ Reading(u, s)' <=> Reading(u, s)
             /\ Uses(u, s)' <=> Uses(u, s)
  BY OthersStay DEF SessInv, RegInv, CtlInv, Holds, Reading, Uses, Source
<1>2. ASSUME NEW u \in Threads \ {t}, NEW s \in Sessions, Uses(u, s)
      PROVE  Untouched(s) /\ ~Uses(t, s)'
  <2>1. ~Uses(t, s)
    BY <1>2 DEF SessInv, SecretInv
  <2>2. ~MayTouch(t, s)
    BY <1>2, <2>1, UserHolds DEF MayTouch
  <2> QED
    BY <2>1, <2>2 DEF Keeps
<1>3. ASSUME NEW s \in Sessions PROVE SessionOk(s)'
  <2>1. CASE Untouched(s) /\ (Uses(t, s)' <=> Uses(t, s))
    <3>1. SessionOk(s)
      BY DEF SessInv, SecretInv
    <3>2. state[s] = "Consumed" /\ mem[s] # "none" => \E u \in Threads : Uses(u, s)'
      BY <1>1, <2>1, <3>1 DEF SessionOk
    <3> QED
      BY <2>1, <3>1, <3>2 DEF SessionOk, Untouched
  <2> QED
    BY <2>1 DEF Keeps
<1>4. ASSUME NEW s \in Sessions, NEW u \in Threads PROVE UserOk(u, s)'
  <2>1. CASE u = t
    BY <2>1 DEF Keeps
  <2>2. CASE u # t /\ Uses(u, s)
    <3>1. UserOk(u, s) /\ op'[u] = op[u] /\ pc'[u] = pc[u]
      BY <2>2, OthersStay DEF SessInv, SecretInv, RegInv, CtlInv
    <3> QED
      BY <1>1, <1>2, <2>2, <3>1 DEF UserOk, Untouched
  <2>3. CASE u # t /\ ~Uses(u, s)
    <3>1. ~Uses(u, s)' /\ ~Holds(u, s)' /\ ~Reading(u, s)'
      BY <1>1, <2>3 DEF Uses
    <3>2. mutex[s] # u
      BY <2>3 DEF SessInv, SecretInv, UserOk, Uses
    <3>3. mutex'[s] \in {mutex[s], t, None}
      BY DEF Keeps, Untouched
    <3>4. mutex'[s] # u
      BY <2>3, <3>2, <3>3, SessionAssumption
    <3> QED
      BY <3>1, <3>4 DEF UserOk
  <2> QED
    BY <2>1, <2>2, <2>3
<1>5. ASSUME NEW s \in Sessions, NEW u \in Threads, NEW v \in Threads,
             Uses(u, s)', Uses(v, s)'
      PROVE  u = v
  BY <1>1, <1>2, <1>5 DEF SessInv, SecretInv
<1> QED
  BY <1>3, <1>4, <1>5 DEF SecretInv, Keeps

-------------------------------------------------------------------------------
(* No step spoils what another thread relies on.                            *)

(* The sessions a working thread knows, and what it knows of them.          *)
LEMMA Working ==
  ASSUME SessInv, NEW t \in Threads, pc[t] \in Work
  PROVE  /\ cur[t] \in Sessions /\ t \in refs[cur[t]] /\ Live(cur[t])
         /\ SessionOk(cur[t]) /\ UserOk(t, cur[t]) /\ cur[t] # inp[t]
         /\ inp[t] # None =>
              /\ inp[t] \in Sessions /\ t \in refs[inp[t]] /\ Live(inp[t])
              /\ SessionOk(inp[t]) /\ UserOk(t, inp[t])
         /\ pc[t] \in {"read_body", "reenter"} => Source(t) # None
         /\ pc[t] = "input" => inp[t] # None
         /\ op[t] # "new_written" => inp[t] = None
BY DEF SessInv, RegInv, RegTypes, HoldInv, CtlInv, CtlRow, SecretInv, Live

(* Enough for a step that touches no session: it uses what it used.         *)
LEMMA KeepsNone ==
  ASSUME SessInv, NEW t \in Threads, \A s \in Sessions : state'[s] = state[s],
         UNCHANGED <<mutex, mem, given>>,
         \A s \in Sessions : Holds(t, s)' <=> Holds(t, s),
         \A s \in Sessions : Reading(t, s)' <=> Reading(t, s),
         \/ \A s \in Sessions : ~Holds(t, s)
         \/ op'[t] = op[t] /\ (pc'[t] = "copied" <=> pc[t] = "copied")
  PROVE  Keeps(t)
<1>1. \A s \in Sessions : Untouched(s) /\ (Uses(t, s)' <=> Uses(t, s))
  BY DEF Untouched, Uses
<1>2. ASSUME NEW s \in Sessions PROVE UserOk(t, s)'
  BY <1>1 DEF SessInv, SecretInv, UserOk
<1> QED
  BY <1>1, <1>2 DEF Keeps, SessInv, SecretInv

(* In particular for one that uses none, before or after.                   *)
LEMMA KeepsIdle ==
  ASSUME SessInv, NEW t \in Threads, \A s \in Sessions : state'[s] = state[s],
         UNCHANGED <<mutex, mem, given>>,
         pc[t] \in {"idle", "alloc", "lock"} \cup Ending,
         pc'[t] \in {"idle", "alloc", "lock"} \cup Ending
  PROVE  Keeps(t)
BY KeepsNone DEF Holds, Reading, Ending

(* Enough for a step that touches one session, and uses the others it did.  *)
LEMMA KeepsOne ==
  ASSUME SessInv, NEW t \in Threads, NEW s \in Sessions, MayTouch(t, s),
         DOMAIN mem' = Sessions, DOMAIN given' = Sessions, DOMAIN mutex' = Sessions,
         \A r \in Sessions \ {s} : Untouched(r),
         \A r \in Sessions \ {s} : Holds(t, r)' <=> Holds(t, r),
         \A r \in Sessions \ {s} : Reading(t, r)' <=> Reading(t, r),
         \/ \A r \in Sessions \ {s} : ~Holds(t, r)
         \/ op'[t] = op[t] /\ pc'[t] # "copied" /\ pc[t] # "copied",
         SessionOk(s)', UserOk(t, s)', mutex'[s] \in {t, None}
  PROVE  Keeps(t)
<1>1. ASSUME NEW r \in Sessions \ {s} PROVE UserOk(t, r)' /\ (Uses(t, r)' <=> Uses(t, r))
  <2>1. Untouched(r) /\ UserOk(t, r)
    BY DEF SessInv, SecretInv
  <2> QED
    BY <2>1 DEF UserOk, Uses, Untouched
<1> QED
  BY <1>1 DEF Keeps

(* Calls that begin, return, or only look at a state.                       *)
LEMMA KeepsBegin ==
  ASSUME SessInv, NEW t \in Threads, Begin(t)
  PROVE  Keeps(t)
<1> USE DEF SessInv, RegInv, RegTypes, CtlInv, CtlTypes, CtlRow, At, Set, Start,
            Goto, Return, sharedVars, sessionVars, threadVars, Ending
<1>1. ASSUME NEW what, NEW i \in Sessions \cup {None}, NewAdmit(t, what, i) PROVE Keeps(t)
  BY <1>1, KeepsIdle DEF NewAdmit
<1>2. ASSUME NEW what \in {"fill", "take"}, NullPointer(t, what) PROVE Keeps(t)
  BY <1>2, KeepsIdle DEF NullPointer
<1>3. ASSUME NEW what \in {"fill", "take"}, NEW h \in issued, Lookup(t, what, h) PROVE Keeps(t)
  <2>1. /\ UNCHANGED <<state, mutex, mem, given>> /\ pc[t] = "idle"
        /\ pc'[t] \in {"lock", "release"} /\ op'[t] = what
    BY <1>3 DEF Lookup
  <2> QED
    BY <2>1, KeepsIdle
<1>4. ASSUME NEW s \in Sessions, NEW what \in {"read_once", "obliviate", "is_consumed"},
             CallMethod(t, what, s)
      PROVE  Keeps(t)
  BY <1>4, KeepsIdle DEF CallMethod
<1>5. ASSUME NEW s \in Sessions, ForeignRelease(t, s) PROVE Keeps(t)
  <2>1. /\ UNCHANGED <<state, mutex, mem, given>> /\ pc[t] = "idle"
        /\ pc'[t] \in {"drop", "release"}
    BY <1>5 DEF ForeignRelease, LoseRef
  <2> QED
    BY <2>1, KeepsIdle
<1>6. CASE ClosureReads(t) \/ ClosureOpens(t)
  <2>1. /\ UNCHANGED <<state, mutex, mem, given>> /\ pc[t] = "body"
        /\ pc'[t] \in {"input", "open"} /\ op' = op /\ cur' = cur /\ inp' = inp
    BY <1>6 DEF ClosureReads, ClosureOpens
  <2> QED
    BY <2>1, KeepsNone DEF Holds, Reading
<1>7. CASE CallBack(t)
  <2>1. /\ UNCHANGED <<state, mutex, mem, given>> /\ pc[t] = "read_body"
        /\ pc'[t] = "reenter" /\ op' = op /\ cur' = cur /\ inp' = inp
    BY <1>7 DEF CallBack
  <2> QED
    BY <2>1, KeepsNone DEF Holds, Reading, Source
<1> QED
  BY <1>1, <1>2, <1>3, <1>4, <1>5, <1>6, <1>7 DEF Begin, FillCall, TakeCall

LEMMA KeepsReturn ==
  ASSUME SessInv, NEW t \in Threads,
         \/ PutBack(t) \/ IsConsumed(t) \/ ReadUnready(t)
         \/ Release(t) \/ Leave(t) \/ DropSession(t) \/ DropFields(t)
  PROVE  Keeps(t)
<1> USE DEF SessInv, RegInv, RegTypes, CtlInv, CtlTypes, CtlRow, At, Set,
            Goto, Return, sharedVars, sessionVars, threadVars, Ending
<1>1. CASE PutBack(t)
  BY <1>1, KeepsIdle DEF PutBack, Looks
<1>2. CASE IsConsumed(t)
  BY <1>2, KeepsIdle DEF IsConsumed
<1>3. CASE ReadUnready(t)
  <2>1. /\ UNCHANGED <<state, mutex, mem, given>> /\ cur' = cur /\ inp' = inp /\ op' = op
        /\ \/ op[t] = "read_once" /\ pc[t] = "lock" /\ pc'[t] = "release"
           \/ op[t] = "new_written" /\ pc[t] = "input" /\ pc'[t] = "failed"
    BY <1>3 DEF ReadUnready, Reads, ReadError
  <2> QED
    BY <2>1, KeepsNone DEF Holds, Reading
<1>4. CASE Release(t)
  <2>1. /\ UNCHANGED <<state, mutex, mem, given>> /\ pc[t] = "release"
        /\ pc'[t] \in {"drop", "release"}
    BY <1>4 DEF Release, LoseRef
  <2> QED
    BY <2>1, KeepsIdle
<1>5. CASE Leave(t)
  BY <1>5, KeepsIdle DEF Leave
<1>6. CASE DropSession(t)
  BY <1>6, KeepsIdle DEF DropSession
<1>7. CASE DropFields(t)
  <2> DEFINE s == cur[t]
  <2>1. s \in Sessions /\ ~Live(s) /\ pc[t] = "drop_fields"
    BY <1>7 DEF DropFields, HoldInv
  <2>2. /\ state' = [state EXCEPT ![s] = "Dropped"] /\ mem' = [mem EXCEPT ![s] = "none"]
        /\ pc'[t] = "release" /\ cur' = cur /\ mutex' = mutex /\ given' = given
    BY <1>7 DEF DropFields
  <2>3. mutex[s] = None
    <3>1. ASSUME NEW u \in Threads PROVE mutex[s] # u
      BY <2>1, UserHolds DEF SecretInv, UserOk, Uses
    <3> QED
      BY <2>1, <3>1 DEF SecretInv, SessionOk
  <2>4. SessionOk(s)'
    BY <2>1, <2>2 DEF SecretInv, SessionOk, SessionStates, Secret
  <2>5. MayTouch(t, s)
    BY <2>1 DEF MayTouch
  <2>6. \A r \in Sessions \ {s} : Untouched(r)
    BY <2>1, <2>2 DEF Untouched
  <2>7. \A r \in Sessions : ~Holds(t, r) /\ ~Holds(t, r)' /\ ~Reading(t, r) /\ ~Reading(t, r)'
    BY <2>1, <2>2 DEF Holds, Reading
  <2>8. UserOk(t, s)'
    BY <2>1, <2>2, <2>3, <2>7, SessionAssumption DEF UserOk, Uses
  <2>9. DOMAIN mem' = Sessions /\ DOMAIN given' = Sessions /\ DOMAIN mutex' = Sessions
    BY <2>2 DEF SecretInv
  <2>10. mutex'[s] \in {t, None}
    BY <2>2, <2>3
  <2> QED
    BY <2>1, <2>2, <2>4, <2>5, <2>6, <2>7, <2>8, <2>9, <2>10, KeepsOne
<1> QED
  BY <1>1, <1>2, <1>3, <1>4, <1>5, <1>6, <1>7

(* `new`: nobody has touched a session that does not exist yet.             *)
LEMMA KeepsNew ==
  ASSUME SessInv, NEW t \in Threads,
         \/ NestedNew(t) \/ NewFails(t)
         \/ \E h \in Draws : NewRedraw(t, h) \/ \E s \in Sessions : NewInsert(t, s, h)
  PROVE  Keeps(t)
<1> USE DEF SessInv, RegInv, RegTypes, CtlInv, CtlTypes, CtlRow, At, Set,
            Goto, Return, sharedVars, sessionVars, threadVars, Ending
<1>1. CASE NewFails(t)
  <2>1. /\ UNCHANGED <<state, mutex, mem, given>> /\ cur' = cur /\ inp' = inp /\ op' = op
        /\ \/ pc[t] = "alloc" /\ pc'[t] = "release"
           \/ pc[t] = "nested" /\ pc'[t] = "failed"
    BY <1>1 DEF NewFails
  <2> QED
    BY <2>1, KeepsNone DEF Holds, Reading
<1>1a. CASE NestedNew(t)
  <2>1. /\ UNCHANGED <<state, mutex, mem, given>> /\ pc[t] = "open"
        /\ pc'[t] \in {"nested", "failed"} /\ op' = op /\ cur' = cur /\ inp' = inp
    BY <1>1a DEF NestedNew
  <2> QED
    BY <2>1, KeepsNone DEF Holds, Reading
<1>2. ASSUME NEW h \in Draws, NewRedraw(t, h) PROVE Keeps(t)
  <2>1. /\ UNCHANGED <<state, mutex, mem, given, op, pc, cur, inp>>
        /\ pc[t] \in {"alloc", "nested"}
    BY <1>2 DEF NewRedraw, Drawing
  <2> QED
    BY <2>1, KeepsNone DEF Holds, Reading
<1>3. ASSUME NEW h \in Draws, NEW s \in Sessions, NewInsert(t, s, h) PROVE Keeps(t)
  <2>1. /\ state[s] = "none" /\ ~Live(s) /\ op' = op
        /\ state' = [state EXCEPT ![s] = "Empty"] /\ mem' = [mem EXCEPT ![s] = "blank"]
        /\ mutex' = mutex /\ given' = given
    BY <1>3 DEF NewInsert, HandleInv, EntryInv
  <2>2. mutex[s] = None /\ mem[s] = "none" /\ given[s] = <<>> /\ SessionOk(s)
    <3>1. ASSUME NEW u \in Threads PROVE mutex[s] # u
      BY <2>1, UserHolds DEF SecretInv, UserOk, Uses
    <3> QED
      BY <2>1, <3>1 DEF SecretInv, SessionOk
  <2>3. SessionOk(s)'
    BY <2>1, <2>2 DEF SecretInv, SessionOk, SessionStates, Secret
  <2>4. MayTouch(t, s)
    BY <2>1 DEF MayTouch
  <2>5. \A r \in Sessions \ {s} : Untouched(r)
    BY <2>1 DEF Untouched
  <2>6. \/ pc[t] = "alloc" /\ pc'[t] = "release"
        \/ pc[t] = "alloc" /\ pc'[t] = "lock" /\ cur'[t] = s
        \/ pc[t] = "nested" /\ pc'[t] = "body" /\ cur' = cur
    BY <1>3 DEF NewInsert, Drawing, Pcs
  <2>7. \A r \in Sessions : Holds(t, r)' <=> Holds(t, r)
    BY <2>6 DEF Holds
  <2>8. \A r \in Sessions : ~Reading(t, r)' /\ ~Reading(t, r)
    BY <2>6 DEF Reading
  <2>9. ~Holds(t, s)
    BY <2>1, UserHolds DEF Uses
  <2>10. UserOk(t, s)'
    BY <2>1, <2>2, <2>7, <2>8, <2>9, SessionAssumption DEF UserOk, Uses
  <2>11. DOMAIN mem' = Sessions /\ DOMAIN given' = Sessions /\ DOMAIN mutex' = Sessions
    BY <2>1 DEF SecretInv
  <2>12. mutex'[s] \in {t, None}
    BY <2>1, <2>2
  <2>13. op'[t] = op[t] /\ pc'[t] # "copied" /\ pc[t] # "copied"
    BY <2>1, <2>6
  <2> QED
    BY <2>3, <2>4, <2>5, <2>7, <2>8, <2>10, <2>11, <2>12, <2>13, KeepsOne
<1> QED
  BY <1>1, <1>1a, <1>2, <1>3

(* The steps of a thread that takes a siegel, or has taken it, out of the   *)
(* session it works on.                                                     *)
LEMMA KeepsTake ==
  ASSUME SessInv, NEW t \in Threads,
         \/ TakeOut(t) \/ TakeCopy(t) \/ WrittenLock(t)
         \/ \E ok \in BOOLEAN : FillWrite(t, ok) \/ TakeFinish(t, ok)
         \/ \E error \in DOMAIN TakeCode : TakeRefused(t, error)
         \/ WrittenSeal(t) \/ WrittenFails(t)
  PROVE  Keeps(t)
<1> USE DEF At, Set, Goto, Return, sharedVars, sessionVars, threadVars
<1>1. pc[t] \in Work /\ CtlRow(t)
  BY DEF TakeOut, Looks, TakeCopy, WrittenLock, FillWrite, TakeFinish, TakeRefused, WrittenSeal,
         WrittenFails, Work, SessInv, CtlInv
<1>2. PICK s \in Sessions :
        s = cur[t] /\ t \in refs[s] /\ Live(s) /\ SessionOk(s) /\ UserOk(t, s) /\ s # inp[t]
  BY <1>1, Working
<1>3. /\ DOMAIN state = Sessions /\ DOMAIN mem = Sessions /\ DOMAIN given = Sessions
      /\ DOMAIN mutex = Sessions /\ DOMAIN pc = Threads /\ DOMAIN op = Threads
  BY DEF SessInv, RegInv, RegTypes, SecretInv
<1>4. op' = op /\ cur' = cur /\ inp' = inp
  BY DEF TakeOut, TakeCopy, WrittenLock, FillWrite, TakeFinish, TakeRefused, WrittenSeal,
         WrittenFails
<1>5. pc[t] \notin {"read_body", "reenter"} /\ pc'[t] \notin {"read_body", "reenter", "lock"}
  BY <1>3 DEF TakeOut, Looks, TakeCopy, WrittenLock, FillWrite, TakeFinish, TakeRefused,
              WrittenSeal, WrittenFails
<1>6. /\ \A r \in Sessions \ {s} : ~Holds(t, r) /\ ~Holds(t, r)'
      /\ \A r \in Sessions : ~Reading(t, r) /\ ~Reading(t, r)'
  BY <1>2, <1>4, <1>5 DEF Holds, Reading
<1> DEFINE Done ==
      /\ Uses(t, s) \/ state[s] # "Consumed"
      /\ \A r \in Sessions \ {s} : Untouched(r)
      /\ DOMAIN mem' = Sessions /\ DOMAIN given' = Sessions /\ DOMAIN mutex' = Sessions
      /\ SessionOk(s)' /\ UserOk(t, s)' /\ mutex'[s] \in {t, None}
<1>7. Done => Keeps(t)
  BY <1>2, <1>6, KeepsOne DEF MayTouch
<1> USE SessionAssumption
        DEF Untouched, SessionOk, UserOk, Uses, Holds, Secret, SessionStates, CtlRow, Pcs
<1> HIDE DEF At
<1>8. CASE TakeOut(t)
  <2>1. /\ state[s] # "Consumed" /\ state' = [state EXCEPT ![s] = "Consumed"]
        /\ mutex' = [mutex EXCEPT ![s] = t] /\ mem' = mem /\ given' = given
        /\ pc'[t] = "body"
        /\ \/ op[t] = "fill" /\ mem[s] = "blank"
           \/ op[t] = "take" /\ mem[s] = "rust"
    BY <1>2, <1>3, <1>8 DEF TakeOut, Looks, Wants
  <2>2. Holds(t, s)' /\ given[s] = <<>>
    BY <1>2, <1>4, <2>1
  <2>3. SessionOk(s)'
    BY <1>2, <1>3, <2>1, <2>2
  <2> QED
    BY <1>2, <1>3, <1>4, <1>6, <1>7, <2>1, <2>2, <2>3
<1>9. CASE TakeCopy(t)
  <2>1. op[t] = "take" /\ pc[t] = "body" /\ Holds(t, s)
    BY <1>2, <1>9 DEF TakeCopy, At
  <2>2. /\ state' = state /\ mutex' = mutex /\ mem' = mem /\ pc'[t] = "copied"
        /\ given' = [given EXCEPT ![s] = Append(<<>>, <<"foreign", "rust">>)]
    BY <1>2, <1>3, <1>9, <2>1 DEF TakeCopy
  <2>3. given'[s] = <<<<"foreign", "rust">>>>
    BY <1>3, <2>2
  <2>4. Holds(t, s)' /\ state[s] = "Consumed" /\ mem[s] = "rust" /\ mutex[s] = t
    BY <1>2, <1>4, <2>1, <2>2
  <2>5. SessionOk(s)'
    BY <1>2, <1>3, <2>2, <2>3, <2>4
  <2>6. UserOk(t, s)'
    BY <1>4, <1>6, <2>1, <2>2, <2>3, <2>4
  <2> QED
    BY <1>3, <1>7, <2>1, <2>2, <2>4, <2>5, <2>6
<1>10. CASE WrittenLock(t)
  <2>1. /\ op[t] = "new_written" /\ pc[t] = "lock" /\ mutex[s] = None /\ given' = given
        /\ state' = [state EXCEPT ![s] = "Consumed"]
        /\ \/ /\ state[s] = "Empty" /\ mem' = mem /\ pc'[t] = "body"
              /\ mutex' = [mutex EXCEPT ![s] = t]
           \/ /\ state[s] # "Empty" /\ pc'[t] = "release" /\ mutex' = mutex
              /\ mem' = IF state[s] = "Consumed" THEN mem ELSE [mem EXCEPT ![s] = "none"]
    BY <1>2, <1>3, <1>10 DEF WrittenLock, At, StateFree
  <2>2. CASE state[s] = "Empty"
    <3>1. Holds(t, s)' /\ given[s] = <<>> /\ mem[s] = "blank"
      BY <1>2, <1>4, <2>1, <2>2
    <3>2. SessionOk(s)'
      BY <1>2, <1>3, <1>4, <2>1, <2>2, <3>1
    <3> QED
      BY <1>2, <1>3, <1>4, <1>6, <1>7, <2>1, <2>2, <3>1, <3>2
  <2>3. CASE state[s] = "Consumed"
    <3>1. \A r \in Sessions : state'[r] = state[r]
      BY <1>3, <2>1, <2>3
    <3> QED
      BY <2>1, <2>3, <3>1, KeepsIdle DEF Ending
  <2>4. CASE state[s] \notin {"Empty", "Consumed"}
    <3>1. ~Holds(t, s)'
      BY <2>1, <2>4
    <3>2. SessionOk(s)'
      BY <1>2, <1>3, <2>1, <2>4
    <3> QED
      BY <1>2, <1>3, <1>6, <1>7, <2>1, <2>4, <3>1, <3>2
  <2> QED
    BY <2>2, <2>3, <2>4
<1>11. CASE WrittenSeal(t)
  <2>1. op[t] = "new_written" /\ pc[t] \in {"body", "seal"} /\ Holds(t, s)
    BY <1>2, <1>11 DEF WrittenSeal
  <2>2. /\ state' = [state EXCEPT ![s] = "Written"] /\ mutex' = [mutex EXCEPT ![s] = None]
        /\ mem' = [mem EXCEPT ![s] = "rust"] /\ given' = given /\ pc'[t] = "release"
    BY <1>2, <1>3, <1>11 DEF WrittenSeal
  <2>3. ~Holds(t, s)' /\ given[s] = <<>>
    BY <1>2, <2>1, <2>2
  <2>4. SessionOk(s)'
    BY <1>2, <1>3, <2>2, <2>3
  <2> QED
    BY <1>2, <1>3, <1>6, <1>7, <2>1, <2>2, <2>3, <2>4
<1>12. ASSUME NEW ok \in BOOLEAN, FillWrite(t, ok) PROVE Keeps(t)
  <2>1. op[t] = "fill" /\ pc[t] = "body" /\ Holds(t, s)
    BY <1>2, <1>12 DEF FillWrite, At
  <2>2. /\ mutex' = [mutex EXCEPT ![s] = None] /\ given' = given /\ pc'[t] = "release"
        /\ \/ /\ state' = [state EXCEPT ![s] = "Filled"]
              /\ mem' = [mem EXCEPT ![s] = "foreign"]
           \/ state' = state /\ mem' = [mem EXCEPT ![s] = "none"]
    BY <1>2, <1>3, <1>12 DEF FillWrite
  <2>3. ~Holds(t, s)' /\ given[s] = <<>> /\ state[s] = "Consumed"
    BY <1>2, <2>1, <2>2
  <2>4. SessionOk(s)'
    BY <1>2, <1>3, <2>2, <2>3
  <2> QED
    BY <1>2, <1>3, <1>6, <1>7, <2>1, <2>2, <2>3, <2>4
<1>13. ASSUME \/ \E ok \in BOOLEAN : TakeFinish(t, ok)
              \/ \E error \in DOMAIN TakeCode : TakeRefused(t, error)
              \/ WrittenFails(t)
       PROVE  Keeps(t)
  <2>1. pc[t] \in {"body", "copied", "seal", "failed"} /\ Holds(t, s)
    BY <1>2, <1>13 DEF TakeFinish, TakeRefused, WrittenFails, At
  <2>2. /\ state' = state /\ mutex' = [mutex EXCEPT ![s] = None] /\ given' = given
        /\ mem' = [mem EXCEPT ![s] = "none"] /\ pc'[t] = "release"
    BY <1>2, <1>3, <1>13 DEF TakeFinish, TakeRefused, WrittenFails
  <2>3. ~Holds(t, s)' /\ state[s] = "Consumed"
    BY <1>2, <2>1, <2>2
  <2>4. SessionOk(s)'
    BY <1>2, <1>3, <2>2, <2>3
  <2> QED
    BY <1>2, <1>3, <1>6, <1>7, <2>1, <2>2, <2>3, <2>4
<1> QED
  BY <1>8, <1>9, <1>10, <1>11, <1>12, <1>13

(* A reader has claimed the siegel and given the mutex back; whoever looks  *)
(* at the state meanwhile, the reader's closure included, finds it consumed *)
(* and leaves the pages alone.                                              *)
LEMMA KeepsRead ==
  ASSUME SessInv, NEW t \in Threads,
         \/ Obliviate(t) \/ ReadLock(t) \/ CallBackLock(t)
         \/ \E ran, ok \in BOOLEAN : ReadBody(t, ran, ok)
  PROVE  Keeps(t)
<1> USE DEF At, Set, Goto, Return, sharedVars, sessionVars, threadVars
<1>1. pc[t] \in Work /\ CtlRow(t)
  BY DEF Obliviate, ReadLock, Reads, CallBackLock, ReadBody, Work, SessInv, CtlInv
<1>2. /\ DOMAIN state = Sessions /\ DOMAIN mem = Sessions /\ DOMAIN given = Sessions
      /\ DOMAIN mutex = Sessions /\ DOMAIN pc = Threads /\ DOMAIN op = Threads
  BY DEF SessInv, RegInv, RegTypes, SecretInv
<1>3. op' = op /\ cur' = cur /\ inp' = inp
  BY DEF Obliviate, ReadLock, CallBackLock, ReadBody, ReadError
<1>4. \A s \in Sessions : SessionOk(s) /\ UserOk(t, s)
  BY DEF SessInv, SecretInv
<1>5. CASE Obliviate(t)
  <2>1. PICK s \in Sessions : s = cur[t] /\ t \in refs[s]
    BY <1>1, Working
  <2>2. /\ op[t] = "obliviate" /\ pc[t] = "lock" /\ pc'[t] = "release"
        /\ mutex[s] = None /\ mutex' = mutex /\ given' = given
        /\ state' = [state EXCEPT ![s] = "Consumed"]
        /\ mem' = IF state[s] = "Consumed" THEN mem ELSE [mem EXCEPT ![s] = "none"]
    BY <1>2, <1>5, <2>1 DEF Obliviate, Wiped, StateFree
  <2>3. CASE state[s] = "Consumed"
    <3>1. /\ \A r \in Sessions : state'[r] = state[r]
          /\ mem' = mem
      BY <1>2, <2>2, <2>3
    <3> QED
      BY <2>2, <3>1, KeepsIdle DEF Ending
  <2>4. CASE state[s] # "Consumed"
    <3>1. /\ \A r \in Sessions : ~Holds(t, r) /\ ~Holds(t, r)'
          /\ \A r \in Sessions : ~Reading(t, r) /\ ~Reading(t, r)'
      BY <2>2 DEF Holds, Reading
    <3>2. SessionOk(s)' /\ \A r \in Sessions \ {s} : Untouched(r)
      BY <1>2, <1>4, <2>2, <2>4 DEF SessionOk, SessionStates, Untouched
    <3>3. UserOk(t, s)'
      BY <2>2, <3>1, SessionAssumption DEF UserOk, Uses
    <3>4. MayTouch(t, s)
      BY <2>1, <2>4 DEF MayTouch
    <3> QED
      BY <1>2, <2>2, <2>4, <3>1, <3>2, <3>3, <3>4, KeepsOne
  <2> QED
    BY <2>3, <2>4
<1>6. CASE ReadLock(t)
  <2>1. /\ Source(t) # None
        /\ \/ op[t] = "read_once" /\ pc[t] = "lock"
           \/ op[t] = "new_written" /\ pc[t] = "input"
    BY <1>1, <1>6, Working, SessionAssumption DEF ReadLock, Reads, Source, SessInv, RegInv, HoldInv
  <2>2. PICK s \in Sessions :
          s = Source(t) /\ t \in refs[s] /\ (op[t] = "new_written" => s # cur[t])
    BY <1>1, <2>1, Working DEF Source
  <2>3. /\ mutex[s] = None /\ state[s] \in {"Filled", "Written"}
        /\ state' = [state EXCEPT ![s] = "Consumed"] /\ pc'[t] = "read_body"
        /\ mutex' = mutex /\ mem' = mem /\ given' = given
    BY <1>2, <1>6, <2>2 DEF ReadLock, StateFree
  <2>4. /\ Reading(t, s)' /\ \A r \in Sessions \ {s} : ~Reading(t, r) /\ ~Reading(t, r)'
        /\ \A r \in Sessions : Holds(t, r)' <=> Holds(t, r)
        /\ ~Holds(t, s)
    BY <1>3, <2>1, <2>2, <2>3 DEF Reading, Holds, Source
  <2>5. mem[s] \in Secret /\ given[s] = <<>>
    BY <1>4, <2>3 DEF SessionOk, Secret
  <2>6. SessionOk(s)' /\ \A r \in Sessions \ {s} : Untouched(r)
    BY <1>2, <1>4, <2>3, <2>4, <2>5 DEF SessionOk, SessionStates, Untouched, Uses
  <2>7. UserOk(t, s)'
    BY <1>2, <2>3, <2>4, <2>5, SessionAssumption DEF UserOk, Uses
  <2>8. MayTouch(t, s)
    BY <2>2, <2>3 DEF MayTouch
  <2>9. op'[t] = op[t] /\ pc'[t] # "copied" /\ pc[t] # "copied"
    BY <1>3, <2>1, <2>3
  <2> QED
    BY <1>2, <2>3, <2>4, <2>6, <2>7, <2>8, <2>9, KeepsOne
<1>7. CASE CallBackLock(t)
  <2>1. pc[t] = "reenter" /\ pc'[t] = "read_body" /\ Source(t) # None
    BY <1>1, <1>2, <1>7, Working DEF CallBackLock
  <2>2. PICK s \in Sessions : s = Source(t)
    BY <1>1, <2>1, Working DEF Source
  <2>3. state[s] = "Consumed"
    BY <1>4, <2>1, <2>2 DEF UserOk, Uses, Reading
  <2>4. /\ \A r \in Sessions : state'[r] = state[r]
        /\ mutex' = mutex /\ mem' = mem /\ given' = given
    BY <1>2, <1>7, <2>2, <2>3 DEF CallBackLock, Wiped
  <2>5. /\ \A r \in Sessions : Reading(t, r)' <=> Reading(t, r)
        /\ \A r \in Sessions : Holds(t, r)' <=> Holds(t, r)
    BY <1>3, <2>1 DEF Reading, Holds, Source
  <2> QED
    BY <1>3, <2>1, <2>4, <2>5, KeepsNone
<1>8. ASSUME NEW ran \in BOOLEAN, NEW ok \in BOOLEAN, ReadBody(t, ran, ok) PROVE Keeps(t)
  <2>1. pc[t] = "read_body" /\ Source(t) # None /\ op[t] \in {"read_once", "new_written"}
    BY <1>1, <1>8, Working DEF ReadBody, CtlRow, Pcs, Ending, Ops
  <2>2. PICK s \in Sessions :
          s = Source(t) /\ t \in refs[s] /\ (op[t] = "new_written" => s # cur[t])
    BY <1>1, <2>1, Working DEF Source
  <2>3. /\ Reading(t, s) /\ state[s] = "Consumed" /\ mutex[s] = None
        /\ mem[s] \in Secret /\ given[s] = <<>>
    BY <1>4, <2>1, <2>2 DEF Reading, UserOk, Uses
  <2>4. /\ state' = state /\ mutex' = mutex /\ mem' = [mem EXCEPT ![s] = "none"]
        /\ \/ given' = given
           \/ given' = [given EXCEPT ![s] = Append(<<>>, <<"rust", mem[s]>>)]
        /\ \/ op[t] = "read_once" /\ pc'[t] = "release"
           \/ op[t] = "new_written" /\ pc'[t] \in {"seal", "failed"}
    BY <1>2, <1>8, <2>1, <2>2, <2>3 DEF ReadBody, ReadError
  <2>5. given'[s] \in {<<>>, <<<<"rust", mem[s]>>>>}
    BY <1>2, <2>3, <2>4
  <2>6. /\ \A r \in Sessions \ {s} : ~Reading(t, r)
        /\ \A r \in Sessions : ~Reading(t, r)'
        /\ \A r \in Sessions : Holds(t, r)' <=> Holds(t, r)
        /\ ~Holds(t, s)
    BY <1>3, <2>1, <2>2, <2>4 DEF Reading, Holds, Source
  <2>7. SessionOk(s)' /\ \A r \in Sessions \ {s} : Untouched(r)
    BY <1>2, <1>4, <2>3, <2>4, <2>5 DEF SessionOk, SessionStates, Untouched
  <2>8. UserOk(t, s)'
    BY <1>2, <2>3, <2>4, <2>6, SessionAssumption DEF UserOk, Uses
  <2>9. MayTouch(t, s)
    BY <2>2, <2>3, <2>4 DEF MayTouch, Uses
  <2>10. op'[t] = op[t] /\ pc'[t] # "copied" /\ pc[t] # "copied"
    BY <1>3, <2>1, <2>4
  <2>11. DOMAIN mem' = Sessions /\ DOMAIN given' = Sessions /\ DOMAIN mutex' = Sessions
    BY <1>2, <2>4
  <2> QED
    BY <2>3, <2>4, <2>6, <2>7, <2>8, <2>9, <2>10, <2>11, KeepsOne
<1> QED
  BY <1>5, <1>6, <1>7, <1>8

-------------------------------------------------------------------------------
(* All of them.                                                             *)

LEMMA AllKeep ==
  ASSUME SessInv, NEW t \in Threads, Begin(t) \/ Step(t)
  PROVE  Keeps(t)
<1>1. Begin(t) => Keeps(t)
  BY KeepsBegin
<1>2. Step(t) => Keeps(t)
  BY KeepsReturn, KeepsNew, KeepsTake, KeepsRead DEF Step
<1> QED
  BY <1>1, <1>2

LEMMA SessInit == Init => SessInv
<1> SUFFICES ASSUME Init PROVE SessInv
  OBVIOUS
<1> USE SessionAssumption DEF Init
<1>1. RegInv
  BY RegInit
<1>2. CtlInv
  BY DEF CtlInv, CtlTypes, CtlRow, Ops, Pcs, Codes, Work
<1>3. WriteInv
  BY DEF WriteInv, Writes, Work
<1>4. SecretInv
  BY DEF SecretInv, SessionOk, UserOk, Uses, Holds, Reading
<1> QED
  BY <1>1, <1>2, <1>3, <1>4 DEF SessInv

LEMMA SessStutter == SessInv /\ UNCHANGED vars => SessInv'
<1> SUFFICES ASSUME SessInv, UNCHANGED vars PROVE SessInv'
  OBVIOUS
<1> USE DEF SessInv, vars, sharedVars, sessionVars, threadVars
<1>1. RegInv'
  BY RegNext
<1>2. (CtlInv /\ WriteInv)'
  BY DEF CtlInv, CtlTypes, CtlRow, WriteInv, Writes
<1>3. SecretInv'
  BY DEF SecretInv, SessionOk, UserOk, Uses, Holds, Reading, Source
<1> QED
  BY <1>1, <1>2, <1>3

LEMMA SessNext == SessInv /\ [Next]_vars => SessInv'
<1> SUFFICES ASSUME SessInv, [Next]_vars PROVE SessInv'
  OBVIOUS
<1>1. ASSUME NEW t \in Threads, Begin(t) \/ Step(t) PROVE SessInv'
  <2>1. RegInv'
    BY <1>1, RegNext DEF SessInv, Next
  <2> QED
    BY <1>1, <2>1, CtlStep, WriteStep, AllKeep, KeepsAll DEF SessInv
<1> QED
  BY <1>1, SessStutter DEF Next

(* Who has which siegel, and what is in whose pages, whatever the           *)
(* interleaving: the thread that holds a state mutex between two steps is   *)
(* the one whose call took the siegel out; a reader's siegel is out with    *)
(* the mutex free; no siegel is in two hands; pages that hold anything      *)
(* belong to the state that says so or to a thread that is using them.      *)
THEOREM SessInvariant == Safety => []SessInv
BY SessInit, SessNext, PTL DEF Safety

(* Every secret is given out once at most: to a read_once, a siegel_take or *)
(* the closure of a new_written, whoever replaced the state first.          *)
THEOREM OneTimeUseHolds == Safety => []OneTimeUse
<1>1. SessInv => OneTimeUse
  <2> SUFFICES ASSUME SessInv, NEW s \in Sessions PROVE Len(given[s]) <= 1
    BY DEF OneTimeUse
  <2>1. \/ given[s] = <<>>
        \/ \E to \in {"rust", "foreign"}, whose \in Secret : given[s] = <<<<to, whose>>>>
    BY DEF SessInv, SecretInv, SessionOk
  <2> QED
    BY <2>1
<1> QED
  BY <1>1, SessInvariant, PTL

(* A state tells what is in its pages, and a consumed session has none left *)
(* unless a thread is just using them.                                      *)
THEOREM StateTellsContentHolds == Safety => []StateTellsContent
<1>1. SessInv => StateTellsContent
  <2> SUFFICES ASSUME SessInv, NEW s \in Sessions
               PROVE  CASE state[s] \in {"none", "Dropped"} -> mem[s] = "none"
                        [] state[s] = "Empty"               -> mem[s] = "blank"
                        [] state[s] = "Filled"              -> mem[s] = "foreign"
                        [] state[s] = "Written"             -> mem[s] = "rust"
                        [] state[s] = "Consumed" ->
                             mem[s] = "none" \/ \E t \in Threads : Using(t, s)
    BY DEF StateTellsContent
  <2>1. SessionOk(s)
    BY DEF SessInv, SecretInv
  <2>2. \A t \in Threads : Uses(t, s) => Using(t, s)
    BY DEF Uses, Holds, Reading, Source, Using
  <2> QED
    BY <2>1, <2>2 DEF SessionOk, SessionStates
<1> QED
  BY <1>1, SessInvariant, PTL

(* A thread that waits for another, of which it does not hold the registry, *)
(* waits for a user of a session, that waits itself only as a new_written.  *)
LEMMA WaitsForUser ==
  ASSUME SessInv, NEW t \in Threads, NEW u \in Threads, Waits(t, u), NEW v \in Threads,
         Waits(u, v)
  PROVE  /\ op[u] = "new_written" /\ pc[u] \in {"input", "open", "reenter"}
         /\ \E s \in Sessions : Holds(u, s)
<1> USE DEF SessInv, RegInv, CtlInv, CtlRow, Pcs, Work, Ending, At
<1>1. regLock # u
  BY DEF LockInv, Waits, Reads
<1>2. PICK s \in Sessions : mutex[s] = u
  <2>1. pc[t] = "lock" => cur[t] \in Sessions
    BY DEF HoldInv
  <2>2. Reads(t) \/ pc[t] = "reenter" => Source(t) \in Sessions
    BY DEF HoldInv, RegTypes, Source, Reads
  <2> QED
    BY <1>1, <2>1, <2>2 DEF Waits
<1>3. Holds(u, s)
  BY <1>2 DEF SecretInv, UserOk
<1> QED
  BY <1>3 DEF Holds, Waits, Reads

(* No circle of waiting: a thread that waits for one that waits finds there *)
(* a thread that goes on, for any number of threads and sessions.  A holder *)
(* of a state mutex that wants a second lock is writing a new session; what *)
(* it wants is the registry, whose holder wants nothing, or the session it  *)
(* was lent, which no other new_written is writing.                         *)
THEOREM NoCircleHolds == Safety => []NoCircle
<1>1. ASSUME SessInv, NEW t \in Threads, NEW u \in Threads, Waits(t, u),
             NEW v \in Threads, Waits(u, v), NEW w \in Threads, Waits(v, w)
      PROVE  FALSE
  <2> USE <1>1 DEF SessInv, RegInv, CtlInv, CtlRow, Pcs, Work, Ending, At
  <2>1. op[u] = "new_written" /\ pc[u] \in {"input", "open", "reenter"}
    BY WaitsForUser
  <2>2. op[v] = "new_written" /\ pc[v] \in {"input", "open", "reenter"} /\ regLock # v
    BY WaitsForUser DEF LockInv
  <2>3. inp[u] \in Sessions /\ mutex[inp[u]] = v
    BY <2>1, <2>2 DEF Waits, Reads, Source, HoldInv, RegTypes
  <2>4. inp[u] = cur[v]
    BY <2>3 DEF SecretInv, UserOk, Holds
  <2> QED
    BY <2>1, <2>2, <2>4 DEF WriteInv, Writes
<1>2. SessInv => NoCircle
  BY <1>1 DEF NoCircle
<1> QED
  BY <1>2, SessInvariant, PTL

-------------------------------------------------------------------------------
(* Who knows a new session.                                                 *)

Private(t) == At(t, "new_written", "lock")

(* No handle was given out but those of sessions, and nobody has reached a  *)
(* session that new_written has just registered, as long as its id is not   *)
(* that of one given up before.                                             *)
FreshInv ==
  /\ \A h \in issued : \E s \in Sessions : handle[s] = h
  /\ \A t \in Threads : Private(t) /\ ~Reused(cur[t]) =>
       /\ refs[cur[t]] = {t} /\ handle[cur[t]] \notin issued
       /\ state[cur[t]] = "Empty" /\ mutex[cur[t]] = None

(* Handles are for good, and who is given up stays so.                      *)
LEMMA HandlesStay ==
  ASSUME SessInv, NEW t \in Threads, Begin(t) \/ Step(t)
  PROVE  /\ \A s \in Sessions : handle[s] # None => handle'[s] = handle[s]
         /\ \A s \in Sessions : handle[s] # None /\ ~Live(s) => ~Live(s)'
         /\ \A s \in Sessions : handle[s] # None /\ Reused(s) => Reused(s)'
<1> DEFINE Goal ==
      /\ \A s \in Sessions : handle[s] # None => handle'[s] = handle[s]
      /\ \A s \in Sessions : handle[s] # None /\ ~Live(s) => ~Live(s)'
<1> USE SessionAssumption
    DEF SessInv, RegInv, RegTypes, Live, At, Set, Start, Goto, Return, sharedVars, sessionVars,
        threadVars
<1>1. ASSUME Begin(t) PROVE Goal
  <2>1. ASSUME NEW what, NEW i \in Sessions \cup {None}, NewAdmit(t, what, i) PROVE Goal
    BY <2>1 DEF NewAdmit, Lend
  <2>2. ASSUME NEW what, NEW h \in issued, Lookup(t, what, h) PROVE Goal
    BY <2>2 DEF Lookup, Resolves
  <2>3. ASSUME NEW s \in Sessions, NEW what, CallMethod(t, what, s) PROVE Goal
    BY <2>3 DEF CallMethod
  <2>4. ASSUME NEW s \in Sessions, ForeignRelease(t, s) PROVE Goal
    BY <2>4 DEF ForeignRelease, LoseRef
  <2>5. ASSUME \/ \E what \in {"fill", "take"} : NullPointer(t, what)
               \/ ClosureReads(t) \/ ClosureOpens(t) \/ CallBack(t)
        PROVE  Goal
    BY <2>5 DEF NullPointer, ClosureReads, ClosureOpens, CallBack
  <2> QED
    BY <1>1, <2>1, <2>2, <2>3, <2>4, <2>5 DEF Begin, FillCall, TakeCall
<1>2. ASSUME NEW h \in Draws, NEW s \in Sessions, NewInsert(t, s, h) PROVE Goal
  BY <1>2 DEF NewInsert, HandleInv
<1>3. ASSUME Release(t) PROVE Goal
  <2>1. handle' = handle /\ \A s \in Sessions : refs'[s] \subseteq refs[s]
    BY <1>3 DEF Release, LoseRef
  <2> QED
    BY <2>1
<1>4. ASSUME WrittenSeal(t) PROVE Goal
  <2>1. cur[t] \in Sessions /\ t \in refs[cur[t]]
    BY <1>4 DEF WrittenSeal, HoldInv, Work
  <2>2. handle' = handle /\ \A s \in Sessions \ {cur[t]} : refs'[s] = refs[s]
    BY <1>4 DEF WrittenSeal
  <2> QED
    BY <2>1, <2>2
<1>5. ASSUME \/ NestedNew(t) \/ NewFails(t) \/ \E h \in Draws : NewRedraw(t, h)
             \/ TakeOut(t) \/ PutBack(t) \/ TakeCopy(t)
             \/ \E ok \in BOOLEAN : FillWrite(t, ok) \/ TakeFinish(t, ok)
             \/ \E error \in DOMAIN TakeCode : TakeRefused(t, error)
             \/ IsConsumed(t) \/ Obliviate(t)
             \/ ReadLock(t) \/ ReadUnready(t) \/ CallBackLock(t)
             \/ \E ran, ok \in BOOLEAN : ReadBody(t, ran, ok)
             \/ WrittenLock(t) \/ WrittenFails(t) \/ Leave(t) \/ DropSession(t) \/ DropFields(t)
      PROVE  Goal
  <2>1. UNCHANGED <<refs, handle>>
    BY <1>5 DEF NestedNew, NewFails, NewRedraw, TakeOut, PutBack, TakeCopy, FillWrite,
                TakeFinish, TakeRefused, IsConsumed, Obliviate, ReadLock, ReadUnready,
                CallBackLock, ReadBody, WrittenLock, WrittenFails, Leave, DropSession,
                DropFields
  <2> QED
    BY <2>1
<1>6. Goal
  BY <1>1, <1>2, <1>3, <1>4, <1>5 DEF Step
<1> QED
  BY <1>6 DEF Reused

(* Who has neither a reference nor the handle of a session does not get to  *)
(* hold it.                                                                 *)
LEMMA RefsStay ==
  ASSUME SessInv, NEW t \in Threads, Begin(t) \/ Step(t), NEW s \in Sessions,
         NEW u \in Threads \ {t}, refs[s] = {u}, handle[s] \notin issued
  PROVE  refs'[s] = refs[s]
<1> USE SessionAssumption
    DEF SessInv, RegInv, RegTypes, At, Set, Start, Goto, Return, sharedVars, sessionVars,
        threadVars
<1>1. ASSUME Begin(t) PROVE refs'[s] = refs[s]
  <2>1. ASSUME NEW what, NEW i \in Sessions \cup {None}, NewAdmit(t, what, i)
        PROVE  refs'[s] = refs[s]
    BY <2>1 DEF NewAdmit, Lend
  <2>2. ASSUME NEW what, NEW h \in issued, Lookup(t, what, h) PROVE refs'[s] = refs[s]
    BY <2>2 DEF Lookup, Resolves, HandleInv
  <2>3. ASSUME NEW r \in Sessions, NEW what, CallMethod(t, what, r) PROVE refs'[s] = refs[s]
    BY <2>3 DEF CallMethod
  <2>4. ASSUME NEW r \in Sessions, ForeignRelease(t, r) PROVE refs'[s] = refs[s]
    BY <2>4 DEF ForeignRelease, LoseRef
  <2>5. ASSUME \/ \E what \in {"fill", "take"} : NullPointer(t, what)
               \/ ClosureReads(t) \/ ClosureOpens(t) \/ CallBack(t)
        PROVE  refs'[s] = refs[s]
    BY <2>5 DEF NullPointer, ClosureReads, ClosureOpens, CallBack
  <2> QED
    BY <1>1, <2>1, <2>2, <2>3, <2>4, <2>5 DEF Begin, FillCall, TakeCall
<1>2. ASSUME NEW h \in Draws, NEW r \in Sessions, NewInsert(t, r, h) PROVE refs'[s] = refs[s]
  BY <1>2 DEF NewInsert, HandleInv, EntryInv, Live
<1>3. CASE Release(t)
  <2>1. (IF cur[t] \in Held(t) THEN cur[t] ELSE inp[t]) # s
    BY <1>3 DEF Release, Held, HoldInv
  <2> QED
    BY <1>3, <2>1 DEF Release, LoseRef
<1>4. CASE WrittenSeal(t)
  <2>1. t \in refs[cur[t]]
    BY <1>4 DEF WrittenSeal, HoldInv, Work
  <2> QED
    BY <1>4, <2>1 DEF WrittenSeal
<1>5. CASE \/ NestedNew(t) \/ NewFails(t) \/ \E h \in Draws : NewRedraw(t, h)
           \/ TakeOut(t) \/ PutBack(t) \/ TakeCopy(t)
           \/ \E ok \in BOOLEAN : FillWrite(t, ok) \/ TakeFinish(t, ok)
           \/ \E error \in DOMAIN TakeCode : TakeRefused(t, error)
           \/ IsConsumed(t) \/ Obliviate(t)
           \/ ReadLock(t) \/ ReadUnready(t) \/ CallBackLock(t)
           \/ \E ran, ok \in BOOLEAN : ReadBody(t, ran, ok)
           \/ WrittenLock(t) \/ WrittenFails(t) \/ Leave(t) \/ DropSession(t) \/ DropFields(t)
  BY <1>5 DEF NestedNew, NewFails, NewRedraw, TakeOut, PutBack, TakeCopy, FillWrite,
              TakeFinish, TakeRefused, IsConsumed, Obliviate, ReadLock, ReadUnready,
              CallBackLock, ReadBody, WrittenLock, WrittenFails, Leave, DropSession, DropFields
<1> QED
  BY <1>1, <1>2, <1>3, <1>4, <1>5 DEF Step

(* Handles are given out by `new` and by new_written.                       *)
LEMMA IssuedBy ==
  ASSUME SessInv, NEW t \in Threads, Begin(t) \/ Step(t)
  PROVE  \/ issued' = issued
         \/ /\ WrittenSeal(t) /\ cur[t] \in Sessions /\ t \in refs[cur[t]]
            /\ issued' = issued \cup {handle[cur[t]]} /\ UNCHANGED handle
         \/ \E h \in Draws, s \in Sessions :
              NewInsert(t, s, h) /\ issued' \subseteq issued \cup {h}
<1>1. Begin(t) => issued' = issued
  BY DEF Begin, NewAdmit, FillCall, TakeCall, NullPointer, Lookup, ForeignRelease, CallMethod,
         ClosureReads, ClosureOpens, CallBack, sharedVars
<1>2. ASSUME NEW h \in Draws, NEW s \in Sessions, NewInsert(t, s, h)
      PROVE  issued' \subseteq issued \cup {h}
  BY <1>2 DEF NewInsert
<1>3. ASSUME WrittenSeal(t)
      PROVE  /\ cur[t] \in Sessions /\ t \in refs[cur[t]]
             /\ issued' = issued \cup {handle[cur[t]]} /\ UNCHANGED handle
  BY <1>3 DEF WrittenSeal, Work, SessInv, RegInv, HoldInv
<1>4. CASE \/ NestedNew(t) \/ NewFails(t) \/ \E h \in Draws : NewRedraw(t, h)
           \/ TakeOut(t) \/ PutBack(t) \/ TakeCopy(t)
           \/ \E ok \in BOOLEAN : FillWrite(t, ok) \/ TakeFinish(t, ok)
           \/ \E error \in DOMAIN TakeCode : TakeRefused(t, error)
           \/ IsConsumed(t) \/ Obliviate(t)
           \/ ReadLock(t) \/ ReadUnready(t) \/ CallBackLock(t)
           \/ \E ran, ok \in BOOLEAN : ReadBody(t, ran, ok)
           \/ WrittenLock(t) \/ WrittenFails(t) \/ Release(t) \/ Leave(t)
           \/ DropSession(t) \/ DropFields(t)
  BY <1>4 DEF NestedNew, NewFails, NewRedraw, TakeOut, PutBack, TakeCopy, FillWrite,
              TakeFinish, TakeRefused, IsConsumed, Obliviate, ReadLock, ReadUnready,
              CallBackLock, ReadBody, WrittenLock, WrittenFails, Release, Leave, DropSession,
              DropFields, sharedVars
<1> QED
  BY <1>1, <1>2, <1>3, <1>4 DEF Step

(* Two sessions somebody holds have different handles, unless the id is that*)
(* of one given up before.                                                  *)
LEMMA LiveDistinct ==
  ASSUME SessInv, NEW r \in Sessions, NEW s \in Sessions, Live(r), Live(s),
         handle[r] = handle[s], ~Reused(s)
  PROVE  r = s
BY DEF SessInv, RegInv, EntryInv, Reused

(* Only a new_written that has just inserted its session is about to lock   *)
(* it.                                                                      *)
LEMMA PrivateBy ==
  ASSUME SessInv, NEW t \in Threads, Begin(t) \/ Step(t), Private(t)'
  PROVE  \E h \in Draws, s \in Sessions :
           /\ NewInsert(t, s, h) /\ cur'[t] = s
           /\ refs' = [refs EXCEPT ![s] = {t}] /\ UNCHANGED issued
<1> USE DEF SessInv, RegInv, RegTypes, CtlInv, CtlRow, Private, At, Set, Start, Goto, Return,
            sharedVars, sessionVars, threadVars
<1>1. ~Begin(t)
  <2>1. ASSUME NEW what, NEW i \in Sessions \cup {None}, NewAdmit(t, what, i) PROVE FALSE
    BY <2>1 DEF NewAdmit
  <2>2. ASSUME NEW what \in {"fill", "take"},
               NullPointer(t, what) \/ \E h \in issued : Lookup(t, what, h)
        PROVE  FALSE
    BY <2>2 DEF NullPointer, Lookup
  <2>3. ASSUME NEW s \in Sessions, NEW what \in {"read_once", "obliviate", "is_consumed"},
               CallMethod(t, what, s)
        PROVE  FALSE
    BY <2>3 DEF CallMethod
  <2>4. ASSUME NEW s \in Sessions, ForeignRelease(t, s) PROVE FALSE
    BY <2>4 DEF ForeignRelease, LoseRef
  <2>5. ~(ClosureReads(t) \/ ClosureOpens(t) \/ CallBack(t))
    BY DEF ClosureReads, ClosureOpens, CallBack
  <2> QED
    BY <2>1, <2>2, <2>3, <2>4, <2>5 DEF Begin, FillCall, TakeCall
<1>2. ~\/ NestedNew(t) \/ NewFails(t) \/ \E h \in Draws : NewRedraw(t, h)
       \/ TakeOut(t) \/ PutBack(t) \/ TakeCopy(t)
  BY DEF NestedNew, NewFails, NewRedraw, Drawing, TakeOut, PutBack, Looks, TakeCopy
<1>3. ~\/ \E ok \in BOOLEAN : FillWrite(t, ok) \/ TakeFinish(t, ok)
       \/ \E error \in DOMAIN TakeCode : TakeRefused(t, error)
       \/ IsConsumed(t) \/ Obliviate(t)
  BY DEF FillWrite, TakeFinish, TakeRefused, IsConsumed, Obliviate
<1>4. ~\/ ReadLock(t) \/ ReadUnready(t) \/ CallBackLock(t)
       \/ \E ran, ok \in BOOLEAN : ReadBody(t, ran, ok)
  BY DEF ReadLock, ReadUnready, ReadError, CallBackLock, ReadBody
<1>5. ~\/ WrittenLock(t) \/ WrittenSeal(t) \/ WrittenFails(t)
       \/ Release(t) \/ Leave(t) \/ DropSession(t) \/ DropFields(t)
  BY DEF WrittenLock, WrittenSeal, WrittenFails, Release, LoseRef, Leave, DropSession,
         DropFields
<1>6. PICK h \in Draws, s \in Sessions : NewInsert(t, s, h)
  BY <1>1, <1>2, <1>3, <1>4, <1>5 DEF Step
<1>7. cur'[t] = s /\ refs' = [refs EXCEPT ![s] = {t}] /\ UNCHANGED issued
  BY <1>6 DEF NewInsert
<1> QED
  BY <1>6, <1>7

LEMMA FreshStep ==
  ASSUME SessInv, FreshInv, NEW t \in Threads, Begin(t) \/ Step(t)
  PROVE  FreshInv'
<1> DEFINE Fresh(u) ==
      /\ refs[cur[u]] = {u} /\ handle[cur[u]] \notin issued
      /\ state[cur[u]] = "Empty" /\ mutex[cur[u]] = None
<1>1. \A h \in issued' : \E s \in Sessions : handle'[s] = h
  <2>1. \A h \in issued : h \in Handles /\ \E s \in Sessions : handle'[s] = h
    BY HandlesStay, SessionAssumption DEF FreshInv, SessInv, RegInv, RegTypes
  <2>2. ASSUME NEW h \in Draws, NEW s \in Sessions, NewInsert(t, s, h) PROVE handle'[s] = h
    BY <2>2 DEF NewInsert, Set, SessInv, RegInv, RegTypes
  <2> QED
    BY <2>1, <2>2, IssuedBy
<1>2. ASSUME NEW u \in Threads \ {t}, Private(u)', ~Reused(cur[u])' PROVE Fresh(u)'
  <2>1. Private(u) /\ cur'[u] = cur[u]
    BY <1>2, OthersStay DEF SessInv, RegInv, CtlInv, Private, At
  <2> DEFINE s == cur[u]
  <2>2. s \in Sessions /\ u \in refs[s] /\ Live(s) /\ handle[s] # None
    BY <2>1, Worker DEF SessInv, RegInv, HoldInv, Private, At, Work, Live
  <2>3. handle'[s] = handle[s] /\ ~Reused(s)
    BY <1>2, <2>1, <2>2, HandlesStay DEF Reused
  <2>4. Fresh(u)
    BY <2>1, <2>3 DEF FreshInv
  <2>5. refs'[s] = refs[s]
    BY <2>2, <2>4, RefsStay
  <2>6. Untouched(s)
    BY <2>2, <2>4, AllKeep DEF Keeps, MayTouch
  <2>7. handle[s] \notin issued'
    <3>1. ASSUME WrittenSeal(t), cur[t] \in Sessions, t \in refs[cur[t]] PROVE handle[cur[t]] # handle[s]
      BY <2>2, <2>3, <2>4, <3>1, LiveDistinct DEF Live
    <3>2. ASSUME NEW h \in Draws, NEW r \in Sessions, NewInsert(t, r, h) PROVE h # handle[s]
      BY <2>2, <2>3, <3>2, UnusedIsNew DEF NewInsert, SessInv
    <3> QED
      BY <2>4, <3>1, <3>2, IssuedBy
  <2> QED
    BY <2>1, <2>3, <2>4, <2>5, <2>6, <2>7 DEF Untouched
<1>3. ASSUME Private(t)', ~Reused(cur[t])' PROVE Fresh(t)'
  <2>1. PICK h \in Draws, s \in Sessions :
          /\ NewInsert(t, s, h) /\ cur'[t] = s
          /\ refs' = [refs EXCEPT ![s] = {t}] /\ UNCHANGED issued
    BY <1>3, PrivateBy
  <2>2. /\ h \in Handles /\ registry[h] = None
        /\ \A r \in Sessions : Live(r) /\ ~Reused(r) => handle[r] # h
    BY <2>1, UnusedIsNew DEF NewInsert, SessInv
  <2>3. /\ state[s] = "none" /\ state'[s] = "Empty" /\ handle[s] = None /\ handle'[s] = h
        /\ ~Live(s) /\ refs'[s] = {t} /\ issued' = issued /\ mutex' = mutex
    BY <2>1 DEF NewInsert, Set, SessInv, RegInv, RegTypes, HandleInv, EntryInv
  <2>4. mutex[s] = None
    <3>1. ASSUME NEW u \in Threads PROVE mutex[s] # u
      BY <2>3, UserHolds DEF SessInv, SecretInv, UserOk, Uses
    <3> QED
      BY <3>1 DEF SessInv, SecretInv, SessionOk
  <2>5. h \notin issued
    <3>1. SUFFICES ASSUME NEW r \in Sessions, handle[r] = h PROVE FALSE
      BY DEF FreshInv
    <3>2. PICK q \in Sessions \ {s} : handle[q] = h /\ ~Live(q)
      BY <2>2, <2>3, <3>1, SessionAssumption DEF Reused
    <3>3. handle'[q] = h /\ ~Live(q)'
      BY <2>2, <3>2, HandlesStay, SessionAssumption
    <3> QED
      BY <1>3, <2>1, <2>3, <3>2, <3>3 DEF Reused
  <2> QED
    BY <2>1, <2>3, <2>4, <2>5
<1> QED
  BY <1>1, <1>2, <1>3 DEF FreshInv

(* "Unreachable: `session` is fresh and unshared": when new_written takes   *)
(* the siegel out of the session it has just registered, it is still empty  *)
(* and nobody has its mutex, unless the id it drew was that of a session    *)
(* given up before, whose handle somebody may still pass to siegel_fill.    *)
THEOREM FreshUnsharedHolds == Safety => []FreshUnshared
<1>1. Init => FreshInv
  BY DEF Init, FreshInv, Private, At
<1>2. SessInv /\ FreshInv /\ [Next]_vars => FreshInv'
  <2>1. CASE UNCHANGED vars
    BY <2>1 DEF vars, sharedVars, sessionVars, threadVars, FreshInv, Private, At, Reused, Live
  <2> QED
    BY <2>1, FreshStep DEF Next
<1>3. FreshInv => FreshUnshared
  BY DEF FreshInv, Private, FreshUnshared
<1> QED
  BY <1>1, <1>2, <1>3, SessInvariant, PTL DEF Safety

-------------------------------------------------------------------------------
(* Who drops a session.                                                     *)

(* Enough for a step: no session but live ones changes, and what is being   *)
(* dropped goes on being dropped.                                           *)
LEMMA OrphanBy ==
  ASSUME SessInv, OrphanIsDropped, NEW t \in Threads, Begin(t) \/ Step(t),
         pc[t] \notin {"drop", "drop_fields"},
         \A s \in Sessions : ~Live(s)' =>
           /\ ~Live(s) /\ state'[s] = state[s] /\ handle'[s] = handle[s]
           /\ handle[s] # None /\ registry'[handle[s]] = s => registry[handle[s]] = s
  PROVE  OrphanIsDropped'
<1>1. ASSUME NEW u \in Threads, pc[u] \in {"drop", "drop_fields"}
      PROVE  pc'[u] = pc[u] /\ cur'[u] = cur[u]
  BY <1>1, OthersStay DEF SessInv, RegInv, CtlInv
<1> QED
  BY <1>1, SessionAssumption DEF OrphanIsDropped

(* A reference is given back: the last one leaves its giver with the drop.  *)
LEMMA OrphanLost ==
  ASSUME SessInv, OrphanIsDropped, NEW t \in Threads, Begin(t) \/ Step(t),
         pc[t] \notin {"drop", "drop_fields"}, NEW who, NEW s \in Sessions, LoseRef(t, who, s),
         UNCHANGED <<state, handle, registry>>
  PROVE  OrphanIsDropped'
<1>1. ASSUME NEW u \in Threads, pc[u] \in {"drop", "drop_fields"}
      PROVE  pc'[u] = pc[u] /\ cur'[u] = cur[u]
  BY <1>1, OthersStay DEF SessInv, RegInv, CtlInv
<1>2. /\ refs' = [refs EXCEPT ![s] = @ \ {who}]
      /\ DOMAIN refs = Sessions /\ DOMAIN pc = Threads /\ DOMAIN cur = Threads
      /\ cur'[t] = s /\ pc'[t] = IF refs[s] = {who} THEN "drop" ELSE "release"
  BY DEF LoseRef, SessInv, RegInv, RegTypes, Set
<1>3. ASSUME NEW r \in Sessions, ~Live(r)', Live(r) PROVE pc'[t] = "drop" /\ cur'[t] = r
  <2>1. r = s /\ refs[s] = {who}
    BY <1>2, <1>3 DEF Live
  <2> QED
    BY <1>2, <2>1
<1> QED
  BY <1>1, <1>3 DEF OrphanIsDropped

LEMMA OrphanStep ==
  ASSUME SessInv, OrphanIsDropped, NEW t \in Threads, Begin(t) \/ Step(t)
  PROVE  OrphanIsDropped'
<1> DEFINE Safe ==
      /\ pc[t] \notin {"drop", "drop_fields"}
      /\ \A s \in Sessions : ~Live(s)' =>
           /\ ~Live(s) /\ state'[s] = state[s] /\ handle'[s] = handle[s]
           /\ handle[s] # None /\ registry'[handle[s]] = s => registry[handle[s]] = s
<1>0. /\ handle \in [Sessions -> Handles \cup {None}]
      /\ registry \in [Handles -> Sessions \cup {None}]
      /\ refs \in [Sessions -> SUBSET (Threads \cup {Foreign})] /\ DOMAIN state = Sessions
  BY DEF SessInv, RegInv, RegTypes
<1> USE <1>0 DEF At, Set, Start, Goto, Return, Live, sharedVars, sessionVars, threadVars
<1>1. ASSUME NEW what, NEW i \in Sessions \cup {None}, NewAdmit(t, what, i) PROVE Safe
  <2>1. \A h \in Handles : registry'[h] \in {registry[h], None}
    BY <1>1, PrunedKeeps DEF NewAdmit, SessInv
  <2> QED
    BY <1>1, <2>1, SessionAssumption DEF NewAdmit, Lend
<1>2. ASSUME NestedNew(t) \/ CallBack(t) \/ ClosureReads(t) \/ ClosureOpens(t) PROVE Safe
  <2>1. \A h \in Handles : registry'[h] \in {registry[h], None}
    BY <1>2, PrunedKeeps DEF NestedNew, CallBack, ClosureReads, ClosureOpens, SessInv
  <2> QED
    BY <1>2, <2>1, SessionAssumption DEF NestedNew, CallBack, ClosureReads, ClosureOpens
<1>3. ASSUME NEW what, NullPointer(t, what) \/ \E h \in issued : Lookup(t, what, h) PROVE Safe
  BY <1>3 DEF NullPointer, Lookup
<1>4. ASSUME NEW s \in Sessions, NEW what, CallMethod(t, what, s) PROVE Safe
  BY <1>4 DEF CallMethod
<1>5. ASSUME NEW s \in Sessions, ForeignRelease(t, s) PROVE OrphanIsDropped'
  BY <1>5, OrphanLost DEF ForeignRelease
<1>6. ASSUME NEW h \in Draws, NEW s \in Sessions, NewInsert(t, s, h) PROVE Safe
  <2>1. /\ refs'[s] # {} /\ \A r \in Sessions \ {s} : refs'[r] = refs[r]
        /\ state' = [state EXCEPT ![s] = "Empty"] /\ handle' = [handle EXCEPT ![s] = h]
        /\ registry' = [registry EXCEPT ![h] = s] /\ pc[t] \in {"alloc", "nested"}
    BY <1>6 DEF NewInsert, Drawing
  <2>2. h \in Handles /\ registry[h] = None
    BY <1>6, UnusedIsNew DEF NewInsert, SessInv
  <2> QED
    BY <2>1, <2>2
<1>7. ASSUME NewFails(t) \/ \E h \in Draws : NewRedraw(t, h) PROVE Safe
  BY <1>7 DEF NewFails, NewRedraw, Drawing
<1>8. ASSUME NEW ok \in BOOLEAN,
             TakeOut(t) \/ PutBack(t) \/ TakeCopy(t) \/ FillWrite(t, ok) \/ TakeFinish(t, ok)
      PROVE  Safe
  <2>1. pc[t] \in Work
    BY <1>8 DEF TakeOut, PutBack, TakeCopy, FillWrite, TakeFinish, Looks, Work
  <2>2. cur[t] \in Sessions /\ refs[cur[t]] # {}
    BY <2>1, Working
  <2> QED
    BY <1>8, <2>1, <2>2 DEF TakeOut, PutBack, TakeCopy, FillWrite, TakeFinish, Work
<1>9. ASSUME NEW error, TakeRefused(t, error) PROVE Safe
  BY <1>9 DEF TakeRefused
<1>10. ASSUME IsConsumed(t) \/ Obliviate(t) \/ ReadLock(t) \/ ReadUnready(t) \/ CallBackLock(t)
       PROVE  Safe
  <2>1. pc[t] \in Work /\ (pc[t] # "reenter" /\ ~Reads(t) => op[t] # "new_written")
    BY <1>10 DEF IsConsumed, Obliviate, ReadLock, ReadUnready, CallBackLock, Reads, Work
  <2>2. cur[t] \in Sessions /\ refs[cur[t]] # {}
    BY <2>1, Working
  <2>3. Reads(t) \/ pc[t] = "reenter" => Source(t) \in Sessions /\ refs[Source(t)] # {}
    BY <2>1, Working DEF Reads, Source
  <2> QED
    BY <1>10, <2>1, <2>2, <2>3
       DEF IsConsumed, Obliviate, ReadLock, ReadUnready, CallBackLock, ReadError, Wiped, Work
<1>11. ASSUME NEW ran \in BOOLEAN, NEW ok \in BOOLEAN, ReadBody(t, ran, ok) PROVE Safe
  BY <1>11 DEF ReadBody, ReadError
<1>12. ASSUME WrittenLock(t) \/ WrittenSeal(t) \/ WrittenFails(t) PROVE Safe
  <2>1. pc[t] \in Work
    BY <1>12 DEF WrittenLock, WrittenSeal, WrittenFails, Work
  <2>2. cur[t] \in Sessions /\ refs[cur[t]] # {}
    BY <2>1, Working
  <2> QED
    BY <1>12, <2>1, <2>2 DEF WrittenLock, WrittenSeal, WrittenFails, Work
<1>13. ASSUME Release(t) PROVE OrphanIsDropped'
  <2> DEFINE s == IF cur[t] \in Held(t) THEN cur[t] ELSE inp[t]
  <2>1. s \in Sessions /\ pc[t] = "release"
    BY <1>13 DEF Release, Held, SessInv, RegInv, HoldInv
  <2> QED
    BY <1>13, <2>1, OrphanLost DEF Release
<1>14. ASSUME Leave(t) PROVE Safe
  BY <1>14 DEF Leave
<1>15. ASSUME NEW u \in Threads \ {t}
       PROVE  pc'[u] = pc[u] /\ cur'[u] = cur[u]
  BY OthersStay DEF SessInv, RegInv, CtlInv
<1>16. ASSUME DropSession(t) PROVE OrphanIsDropped'
  <2>1. /\ pc[t] = "drop" /\ pc'[t] = "drop_fields" /\ cur' = cur
        /\ registry' = [registry EXCEPT ![handle[cur[t]]] = None]
        /\ UNCHANGED <<state, refs, handle>>
    BY <1>16 DEF DropSession, SessInv, RegInv, RegTypes
  <2>2. cur[t] \in Sessions /\ handle[cur[t]] # None
    BY <2>1 DEF SessInv, RegInv, HoldInv
  <2>3. ASSUME NEW s \in Sessions, handle[s] # None, registry'[handle[s]] = s
        PROVE  registry[handle[s]] = s
    BY <2>1, <2>2, <2>3, SessionAssumption
  <2>4. registry'[handle[cur[t]]] = None
    BY <2>1, <2>2
  <2> QED
    BY <1>15, <2>1, <2>2, <2>3, <2>4, SessionAssumption DEF OrphanIsDropped
<1>17. ASSUME DropFields(t) PROVE OrphanIsDropped'
  <2>1. /\ pc[t] = "drop_fields" /\ state' = [state EXCEPT ![cur[t]] = "Dropped"]
        /\ UNCHANGED <<refs, handle, registry>>
    BY <1>17 DEF DropFields
  <2>2. cur[t] \in Sessions
    BY <2>1 DEF SessInv, RegInv, HoldInv
  <2> QED
    BY <1>15, <2>1, <2>2 DEF OrphanIsDropped
<1>18. OrphanIsDropped' \/ Safe
  BY <1>1, <1>2, <1>3, <1>4, <1>5, <1>6, <1>7, <1>8, <1>9, <1>10, <1>11, <1>12, <1>13, <1>14,
     <1>16, <1>17 DEF Begin, Step, FillCall, TakeCall
<1> QED
  BY <1>18, OrphanBy

(* Nothing is left behind: a session that nobody holds is in the hands of   *)
(* the thread that gave the last reference back until its siegel is wiped,  *)
(* and its entry does not outlive it.                                       *)
THEOREM OrphanIsDroppedHolds == Safety => []OrphanIsDropped
<1>1. Init => OrphanIsDropped
  BY DEF Init, OrphanIsDropped
<1>2. SessInv /\ OrphanIsDropped /\ [Next]_vars => OrphanIsDropped'
  <2>1. CASE UNCHANGED vars
    BY <2>1 DEF vars, sharedVars, sessionVars, threadVars, OrphanIsDropped, Live
  <2> QED
    BY <2>1, OrphanStep DEF Next
<1> QED
  BY <1>1, <1>2, SessInvariant, PTL DEF Safety

-------------------------------------------------------------------------------
(* What callers are told.                                                   *)

(* Nobody brings back a siegel that is gone, or that its reader will wipe:  *)
(* a thread that will replace the state again has the mutex.                *)
Terminal(s) == state[s] \in {"Consumed", "Dropped"} /\ mutex[s] = None

ToldInv == told \subseteq Sessions /\ \A s \in told : Terminal(s)

LEMMA TerminalStays ==
  ASSUME SessInv, NEW t \in Threads, Begin(t) \/ Step(t), NEW s \in Sessions, Terminal(s)
  PROVE  Terminal(s)'
<1> USE DEF Terminal, Set, At, StateFree, sharedVars, sessionVars
<1>1. /\ DOMAIN state = Sessions /\ DOMAIN mutex = Sessions
      /\ \A r \in Sessions : r = cur[t] /\ Holds(t, r) => r # s
  BY SessionAssumption DEF SessInv, RegInv, RegTypes, SecretInv, UserOk
<1>2. CASE Begin(t)
  <2>1. state' = state /\ mutex' = mutex
    BY <1>2 DEF Begin, NewAdmit, FillCall, TakeCall, NullPointer, Lookup, ForeignRelease,
                CallMethod, ClosureReads, ClosureOpens, CallBack
  <2> QED
    BY <2>1
<1>3. ASSUME NEW h \in Draws, NEW r \in Sessions, NewInsert(t, r, h) PROVE Terminal(s)'
  BY <1>1, <1>3 DEF NewInsert
<1>4. CASE TakeOut(t) \/ WrittenLock(t)
  <2>1. CASE cur[t] = s
    <3>1. ~TakeOut(t)
      BY <2>1 DEF TakeOut, Wants
    <3>2. WrittenLock(t) => (state' = [state EXCEPT ![s] = "Consumed"] /\ mutex' = mutex) \/ state[s] = "Empty"
      BY <2>1 DEF WrittenLock
    <3> QED
      BY <1>1, <1>4, <3>1, <3>2
  <2>2. CASE cur[t] # s
    BY <1>1, <1>4, <2>2 DEF TakeOut, WrittenLock
  <2> QED
    BY <2>1, <2>2
<1>5. CASE WrittenSeal(t)
  <2>1. cur[t] # s
    BY <1>1, <1>5 DEF WrittenSeal, Holds
  <2> QED
    BY <1>1, <1>5, <2>1 DEF WrittenSeal
<1>6. ASSUME NEW ok \in BOOLEAN, FillWrite(t, ok) PROVE Terminal(s)'
  <2>1. cur[t] # s
    BY <1>1, <1>6 DEF FillWrite, Holds
  <2> QED
    BY <1>1, <1>6, <2>1 DEF FillWrite
<1>7. CASE \/ \E ok \in BOOLEAN : TakeFinish(t, ok)
           \/ \E error \in DOMAIN TakeCode : TakeRefused(t, error)
           \/ WrittenFails(t) \/ Obliviate(t) \/ ReadLock(t) \/ CallBackLock(t)
           \/ DropFields(t)
  BY <1>1, <1>7 DEF TakeFinish, TakeRefused, WrittenFails, Obliviate, ReadLock, CallBackLock,
                    Wiped, DropFields
<1>8. CASE \/ \E h \in Draws : NewRedraw(t, h)
           \/ NestedNew(t) \/ NewFails(t) \/ PutBack(t) \/ TakeCopy(t) \/ IsConsumed(t)
           \/ ReadUnready(t)
           \/ \E ran, ok \in BOOLEAN : ReadBody(t, ran, ok)
           \/ Release(t) \/ Leave(t) \/ DropSession(t)
  <2>1. state' = state /\ mutex' = mutex
    BY <1>8 DEF NewRedraw, NestedNew, NewFails, PutBack, TakeCopy, IsConsumed, ReadUnready,
                ReadBody, Release, Leave, DropSession
  <2> QED
    BY <2>1
<1> QED
  BY <1>2, <1>3, <1>4, <1>5, <1>6, <1>7, <1>8 DEF Step

LEMMA ToldStep ==
  ASSUME SessInv, ToldInv, NEW t \in Threads, Begin(t) \/ Step(t)
  PROVE  ToldInv'
<1>1. \/ told' = told
      \/ /\ told' \in {told, told \cup {cur[t]}} /\ IsConsumed(t)
         /\ state[cur[t]] # "Consumed" => told' = told
      \/ /\ told' \in {told, told \cup {Source(t)}} /\ ReadUnready(t)
         /\ state[Source(t)] # "Consumed" => told' = told
  <2>1. Begin(t) => told' = told
    BY DEF Begin, NewAdmit, FillCall, TakeCall, NullPointer, Lookup, ForeignRelease,
           CallMethod, ClosureReads, ClosureOpens, CallBack, sharedVars
  <2>2. CASE \/ NestedNew(t) \/ NewFails(t)
             \/ \E h \in Draws : NewRedraw(t, h) \/ \E s \in Sessions : NewInsert(t, s, h)
    BY <2>2 DEF NestedNew, NewFails, NewRedraw, NewInsert
  <2>3. CASE \/ TakeOut(t) \/ PutBack(t) \/ TakeCopy(t)
             \/ \E ok \in BOOLEAN : FillWrite(t, ok) \/ TakeFinish(t, ok)
             \/ \E error \in DOMAIN TakeCode : TakeRefused(t, error)
    BY <2>3 DEF TakeOut, PutBack, TakeCopy, FillWrite, TakeFinish, TakeRefused, sharedVars
  <2>4. CASE IsConsumed(t) \/ ReadUnready(t)
    BY <2>4 DEF IsConsumed, ReadUnready
  <2>5. CASE \/ Obliviate(t) \/ ReadLock(t) \/ CallBackLock(t)
             \/ \E ran, ok \in BOOLEAN : ReadBody(t, ran, ok)
             \/ WrittenLock(t) \/ WrittenSeal(t) \/ WrittenFails(t)
             \/ Release(t) \/ Leave(t) \/ DropSession(t) \/ DropFields(t)
    BY <2>5 DEF Obliviate, ReadLock, CallBackLock, ReadBody, WrittenLock, WrittenSeal,
                WrittenFails, Release, Leave, DropSession, DropFields, sharedVars
  <2> QED
    BY <2>1, <2>2, <2>3, <2>4, <2>5 DEF Step
<1>2. ASSUME IsConsumed(t) PROVE cur[t] \in Sessions /\ mutex[cur[t]] = None
  BY <1>2, Working DEF IsConsumed, At, StateFree, Work
<1>3. ASSUME ReadUnready(t) PROVE Source(t) \in Sessions /\ mutex[Source(t)] = None
  BY <1>3, Working DEF ReadUnready, Reads, At, StateFree, Source, Work
<1>4. \A s \in told' : s \in Sessions /\ Terminal(s)
  BY <1>1, <1>2, <1>3 DEF ToldInv, Terminal
<1> QED
  BY <1>4, TerminalStays DEF ToldInv

LEMMA ToldAlways == Safety => []ToldInv
<1>1. Init => ToldInv
  BY DEF Init, ToldInv
<1>2. SessInv /\ ToldInv /\ [Next]_vars => ToldInv'
  <2>1. CASE UNCHANGED vars
    BY <2>1 DEF vars, sharedVars, sessionVars, ToldInv, Terminal
  <2> QED
    BY <2>1, ToldStep DEF Next
<1> QED
  BY <1>1, <1>2, SessInvariant, PTL DEF Safety

(* A session that a caller was told is consumed stays so, even if it has    *)
(* been told by an error of read_once, while another call was at work.      *)
THEOREM TerminalIsFinalHolds == Safety => []TerminalIsFinal
<1>1. ToldInv => TerminalIsFinal
  BY DEF ToldInv, Terminal, TerminalIsFinal
<1> QED
  BY <1>1, ToldAlways, PTL

-------------------------------------------------------------------------------
(* The destination of a siegel_take.                                        *)

(* Untouched until the copy, which only Rust's secret gets into; at the end *)
(* the code tells which of the three it is.                                 *)
DstRow(t) ==
  /\ dst[t] \in {"untouched", "zeros", "rust"}
  /\ op[t] # "take" \/ pc[t] \in {"lock", "body"} => dst[t] = "untouched"
  /\ op[t] = "take" /\ pc[t] = "copied" => dst[t] = "rust"
  /\ op[t] = "take" /\ pc[t] \in Ending =>
       /\ rc[t] = "OK" => dst[t] = "rust"
       /\ rc[t] \in {"CANARY", "PROTECTION"} => dst[t] = "zeros"
       /\ rc[t] \notin {"OK", "CANARY", "PROTECTION"} => dst[t] = "untouched"

DstInv == \A t \in Threads : DstRow(t)

LEMMA DstStep ==
  ASSUME SessInv, DstInv, NEW t \in Threads, Begin(t) \/ Step(t)
  PROVE  DstInv'
<1> DEFINE Goal == DstRow(t)'
<1> USE DEF Start, Goto, Return, Set, At, sharedVars, sessionVars, threadVars, Ending
<1>1. /\ DOMAIN pc = Threads /\ DOMAIN op = Threads /\ DOMAIN rc = Threads
      /\ DOMAIN dst = Threads /\ CtlRow(t) /\ DstRow(t)
  BY DEF SessInv, RegInv, RegTypes, CtlInv, CtlTypes, DstInv
<1> USE <1>1 DEF DstRow, CtlRow, Pcs, Ops
<1>2. ASSUME NEW what \in {"new", "new_written"}, NEW i \in Sessions \cup {None},
             NewAdmit(t, what, i)
      PROVE  Goal
  BY <1>2 DEF NewAdmit
<1>3. ASSUME NestedNew(t) \/ CallBack(t) \/ ClosureReads(t) \/ ClosureOpens(t)
      PROVE  Goal
  BY <1>3 DEF NestedNew, CallBack, ClosureReads, ClosureOpens
<1>4. ASSUME NEW what \in {"fill", "take"}, NullPointer(t, what) PROVE Goal
  BY <1>4 DEF NullPointer
<1>5. ASSUME NEW what \in {"fill", "take"}, NEW h \in issued, Lookup(t, what, h) PROVE Goal
  BY <1>5 DEF Lookup
<1>6. ASSUME NEW s \in Sessions, NEW what \in {"read_once", "obliviate", "is_consumed"},
             CallMethod(t, what, s)
      PROVE  Goal
  BY <1>6 DEF CallMethod
<1>7. ASSUME NEW s \in Sessions, ForeignRelease(t, s) PROVE Goal
  BY <1>7 DEF ForeignRelease, LoseRef
<1>8. ASSUME NEW h \in Draws, NewRedraw(t, h) \/ \E s \in Sessions : NewInsert(t, s, h)
      PROVE  Goal
  BY <1>8 DEF NewRedraw, NewInsert
<1>9. ASSUME NewFails(t) \/ TakeOut(t) \/ PutBack(t)
      PROVE  Goal
  BY <1>9 DEF NewFails, TakeOut, PutBack, Looks
<1>10. ASSUME TakeCopy(t)
       PROVE  Goal
  <2>1. mem[cur[t]] = "rust"
    BY <1>10, Working DEF TakeCopy, Work, UserOk, Holds
  <2> QED
    BY <1>10, <2>1 DEF TakeCopy
<1>11. ASSUME NEW ok \in BOOLEAN, FillWrite(t, ok) PROVE Goal
  BY <1>11 DEF FillWrite
<1>12. ASSUME NEW ok \in BOOLEAN, TakeFinish(t, ok) PROVE Goal
  BY <1>12 DEF TakeFinish, TakeCode
<1>13. ASSUME NEW error \in DOMAIN TakeCode, TakeRefused(t, error) PROVE Goal
  BY <1>13 DEF TakeRefused, TakeCode
<1>14. ASSUME IsConsumed(t) \/ Obliviate(t) \/ ReadLock(t) \/ ReadUnready(t) \/ CallBackLock(t)
       PROVE  Goal
  BY <1>14 DEF IsConsumed, Obliviate, ReadLock, ReadUnready, Reads, ReadError, CallBackLock
<1>15. ASSUME NEW ran \in BOOLEAN, NEW ok \in BOOLEAN, ReadBody(t, ran, ok) PROVE Goal
  BY <1>15 DEF ReadBody, ReadError
<1>16. ASSUME WrittenLock(t) \/ WrittenSeal(t) \/ WrittenFails(t)
       PROVE  Goal
  BY <1>16 DEF WrittenLock, WrittenSeal, WrittenFails
<1>17. ASSUME Release(t) \/ Leave(t) \/ DropSession(t) \/ DropFields(t)
       PROVE  Goal
  BY <1>17 DEF Release, LoseRef, Leave, DropSession, DropFields
<1>18. Goal
  BY <1>2, <1>3, <1>4, <1>5, <1>6, <1>7, <1>8, <1>9, <1>10, <1>11, <1>12, <1>13,
     <1>14, <1>15, <1>16, <1>17 DEF Begin, Step, FillCall, TakeCall
<1>19. ASSUME NEW u \in Threads \ {t} PROVE DstRow(u)'
  BY OthersStay DEF SessInv, RegInv, CtlInv, DstInv
<1> QED
  BY <1>18, <1>19 DEF DstInv

LEMMA DstAlways == Safety => []DstInv
<1>1. Init => DstInv
  BY DEF Init, DstInv, DstRow, Ending
<1>2. SessInv /\ DstInv /\ [Next]_vars => DstInv'
  <2>1. CASE UNCHANGED vars
    BY <2>1 DEF vars, threadVars, DstInv, DstRow
  <2> QED
    BY <2>1, DstStep DEF Next
<1> QED
  BY <1>1, <1>2, SessInvariant, PTL DEF Safety

(* siegel_take hands over what Rust wrote, whole, or it leaves zeros behind *)
(* where the code says so and the buffer untouched everywhere else.         *)
THEOREM TakeOutcomeHolds == Safety => []TakeOutcome
<1>1. DstInv => TakeOutcome
  <2> SUFFICES ASSUME DstInv, NEW t \in Threads, At(t, "take", "release")
               PROVE  CASE rc[t] = "OK"                       -> dst[t] = "rust"
                        [] rc[t] \in {"CANARY", "PROTECTION"} -> dst[t] = "zeros"
                        [] OTHER                              -> dst[t] = "untouched"
    BY DEF TakeOutcome
  <2> QED
    BY DEF DstInv, DstRow, At, Ending
<1> QED
  BY <1>1, DstAlways, PTL

-------------------------------------------------------------------------------
(* Types: what the layers do not say is that the variables are functions.   *)

Maps ==
  /\ state = [s \in Sessions |-> state[s]] /\ mutex = [s \in Sessions |-> mutex[s]]
  /\ mem = [s \in Sessions |-> mem[s]] /\ given = [s \in Sessions |-> given[s]]
  /\ op = [t \in Threads |-> op[t]] /\ pc = [t \in Threads |-> pc[t]]
  /\ rc = [t \in Threads |-> rc[t]] /\ dst = [t \in Threads |-> dst[t]]

LEMMA SessionMapsStep ==
  ASSUME Maps, NEW t \in Threads, Begin(t) \/ Step(t)
  PROVE  /\ state' = [s \in Sessions |-> state'[s]] /\ mutex' = [s \in Sessions |-> mutex'[s]]
         /\ mem' = [s \in Sessions |-> mem'[s]] /\ given' = [s \in Sessions |-> given'[s]]
<1> DEFINE Goal ==
      /\ state' = [s \in Sessions |-> state'[s]] /\ mutex' = [s \in Sessions |-> mutex'[s]]
      /\ mem' = [s \in Sessions |-> mem'[s]] /\ given' = [s \in Sessions |-> given'[s]]
<1> USE DEF Maps, Set, sessionVars
<1>1. ASSUME Begin(t) PROVE Goal
  <2>1. state' = state /\ mutex' = mutex /\ mem' = mem /\ given' = given
    BY <1>1 DEF Begin, NewAdmit, FillCall, TakeCall, NullPointer, Lookup, ForeignRelease,
                CallMethod, ClosureReads, ClosureOpens, CallBack
  <2> QED
    BY <2>1
<1>2. ASSUME NestedNew(t) \/ NewFails(t) \/ PutBack(t) \/ IsConsumed(t) \/ ReadUnready(t) \/ Release(t)
               \/ Leave(t) \/ DropSession(t)
               \/ \E h \in Draws : NewRedraw(t, h)
      PROVE  Goal
  <2>1. state' = state /\ mutex' = mutex /\ mem' = mem /\ given' = given
    BY <1>2 DEF NestedNew, NewFails, PutBack, IsConsumed, ReadUnready, Release, Leave,
                DropSession, NewRedraw
  <2> QED
    BY <2>1
<1>3. ASSUME NEW h \in Draws, NEW s \in Sessions, NewInsert(t, s, h) PROVE Goal
  BY <1>3 DEF NewInsert
<1>4. ASSUME TakeOut(t) PROVE Goal
  BY <1>4 DEF TakeOut
<1>5. ASSUME TakeCopy(t) PROVE Goal
  BY <1>5 DEF TakeCopy
<1>6. ASSUME NEW ok \in BOOLEAN, FillWrite(t, ok) PROVE Goal
  BY <1>6 DEF FillWrite
<1>7. ASSUME NEW ok \in BOOLEAN, TakeFinish(t, ok) PROVE Goal
  BY <1>7 DEF TakeFinish
<1>8. ASSUME NEW error \in DOMAIN TakeCode, TakeRefused(t, error) PROVE Goal
  BY <1>8 DEF TakeRefused
<1>9. ASSUME Obliviate(t) PROVE Goal
  BY <1>9 DEF Obliviate, Wiped
<1>10. ASSUME ReadLock(t) PROVE Goal
  BY <1>10 DEF ReadLock
<1>11. ASSUME CallBackLock(t) PROVE Goal
  BY <1>11 DEF CallBackLock, Wiped
<1>12. ASSUME NEW ran \in BOOLEAN, NEW ok \in BOOLEAN, ReadBody(t, ran, ok) PROVE Goal
  BY <1>12 DEF ReadBody
<1>13. ASSUME WrittenLock(t) PROVE Goal
  BY <1>13 DEF WrittenLock
<1>14. ASSUME WrittenSeal(t) PROVE Goal
  BY <1>14 DEF WrittenSeal
<1>15. ASSUME WrittenFails(t) PROVE Goal
  BY <1>15 DEF WrittenFails
<1>16. ASSUME DropFields(t) PROVE Goal
  BY <1>16 DEF DropFields
<1> QED
  BY <1>1, <1>2, <1>3, <1>4, <1>5, <1>6, <1>7, <1>8, <1>9, <1>10, <1>11, <1>12, <1>13,
     <1>14, <1>15, <1>16 DEF Step

LEMMA ThreadMapsStep ==
  ASSUME Maps, NEW t \in Threads, Begin(t) \/ Step(t)
  PROVE  /\ op' = [u \in Threads |-> op'[u]] /\ pc' = [u \in Threads |-> pc'[u]]
         /\ rc' = [u \in Threads |-> rc'[u]] /\ dst' = [u \in Threads |-> dst'[u]]
<1> USE DEF Set, Start, Goto, Return, threadVars, Begin, Step, NewAdmit, FillCall, TakeCall,
            NullPointer, Lookup, ForeignRelease, LoseRef, CallMethod, NestedNew, CallBack,
            ClosureReads, ClosureOpens, NewRedraw, NewInsert, NewFails, TakeOut, PutBack, TakeCopy, FillWrite, TakeFinish,
            TakeRefused, IsConsumed, Obliviate, ReadLock, ReadUnready, ReadError, CallBackLock,
            ReadBody, WrittenLock, WrittenSeal, WrittenFails, Release, Leave, DropSession,
            DropFields
<1>1. \/ op' = op
      \/ \E v : op' = [op EXCEPT ![t] = v]
  OBVIOUS
<1>2. \/ pc' = pc
      \/ \E v : pc' = [pc EXCEPT ![t] = v]
  OBVIOUS
<1>3. \/ rc' = rc
      \/ \E v : rc' = [rc EXCEPT ![t] = v]
  OBVIOUS
<1>4. \/ dst' = dst
      \/ \E v : dst' = [dst EXCEPT ![t] = v]
  OBVIOUS
<1> HIDE DEF Begin, Step
<1> QED
  BY <1>1, <1>2, <1>3, <1>4 DEF Maps

(* Every variable has its type; in particular nothing but what Rust wrote   *)
(* ever reaches the destination of a siegel_take.                           *)
THEOREM SessionTypeOKHolds == Safety => []TypeOK
<1>1. Init => Maps
  BY DEF Init, Maps
<1>2. Maps /\ [Next]_vars => Maps'
  <2>1. CASE UNCHANGED vars
    BY <2>1 DEF vars, sessionVars, threadVars, Maps
  <2> QED
    BY <2>1, SessionMapsStep, ThreadMapsStep DEF Next, Maps
<1>3. SessInv /\ ToldInv /\ DstInv /\ Maps => TypeOK
  <2> SUFFICES ASSUME SessInv, ToldInv, DstInv, Maps PROVE TypeOK
    OBVIOUS
  <2>1. /\ regLock \in Threads \cup {None} /\ registry \in [Handles -> Sessions \cup {None}]
        /\ issued \subseteq Handles /\ told \subseteq Sessions
        /\ refs \in [Sessions -> SUBSET (Threads \cup {Foreign})]
        /\ handle \in [Sessions -> Handles \cup {None}]
        /\ cur \in [Threads -> Sessions \cup {None}] /\ inp \in [Threads -> Sessions \cup {None}]
        /\ draws \in 0..MaxHandleAllocRetries /\ calls \in 0..MaxCalls
    BY DEF SessInv, RegInv, RegTypes, CtlInv, CtlTypes, ToldInv
  <2>2. /\ state \in [Sessions -> SessionStates \cup {"none", "Dropped"}]
        /\ mutex \in [Sessions -> Threads \cup {None}]
        /\ mem \in [Sessions -> {"none", "blank"} \cup Secret]
    BY DEF Maps, SessInv, SecretInv, SessionOk
  <2>3. given \in [Sessions -> Seq({"rust", "foreign"} \X Secret)]
    <3>1. ASSUME NEW s \in Sessions PROVE given[s] \in Seq({"rust", "foreign"} \X Secret)
      <4>1. \/ given[s] = <<>>
            \/ \E to \in {"rust", "foreign"}, whose \in Secret : given[s] = <<<<to, whose>>>>
        BY DEF SessInv, SecretInv, SessionOk
      <4>2. ASSUME NEW e \in {"rust", "foreign"} \X Secret
            PROVE  <<e>> \in Seq({"rust", "foreign"} \X Secret)
        OBVIOUS
      <4>3. <<>> \in Seq({"rust", "foreign"} \X Secret)
        OBVIOUS
      <4> QED
        BY <4>1, <4>2, <4>3
    <3> QED
      BY <3>1 DEF Maps
  <2>4. /\ op \in [Threads -> Ops]
        /\ rc \in [Threads -> Codes]
        /\ dst \in [Threads -> {"untouched", "zeros", "rust"}]
    BY DEF Maps, SessInv, CtlInv, CtlRow, DstInv, DstRow
  <2>5. pc \in [Threads -> {"idle", "alloc", "lock", "body", "input", "open", "nested", "copied",
                            "read_body", "reenter", "seal", "failed", "release", "drop",
                            "drop_fields"}]
    BY DEF Maps, SessInv, CtlInv, CtlRow, Pcs, Ending, Ops
  <2> QED
    BY <2>1, <2>2, <2>3, <2>4, <2>5 DEF TypeOK, Ops, Codes
<1> QED
  BY <1>1, <1>2, <1>3, SessInvariant, ToldAlways, DstAlways, PTL DEF Safety

================================================================================
