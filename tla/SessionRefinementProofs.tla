------------------------ MODULE SessionRefinementProofs ------------------------
(***************************************************************************)
(* Proofs about SiegelSession: the sessions implement SessionTable.  Each  *)
(* step of a thread is one operation of the table on one session, or is    *)
(* not seen there: what a call does between taking a siegel out and        *)
(* putting its result back takes effect at one moment.                     *)
(***************************************************************************)
EXTENDS SessionSecretProofs

liveBar == {s \in Sessions : Live(s)}

(* A session that is left alone looks the same in the table.                *)
LEMMA BarFrame ==
  ASSUME NEW s \in Sessions, \A r \in Sessions \ {s} : Untouched(r),
         NEW p, NEW w, phaseBar'[s] = p, secretBar'[s] = w
  PROVE  phaseBar' = [phaseBar EXCEPT ![s] = p] /\ secretBar' = [secretBar EXCEPT ![s] = w]
<1>1. \A r \in Sessions \ {s} : phaseBar'[r] = phaseBar[r]
  BY DEF phaseBar, Untouched
<1>2. phaseBar' = [phaseBar EXCEPT ![s] = p]
  <2>1. /\ phaseBar = [r \in Sessions |-> phaseBar[r]]
        /\ phaseBar' = [r \in Sessions |-> phaseBar'[r]]
    BY DEF phaseBar
  <2> QED
    BY <1>1, <2>1
<1>3. \A r \in Sessions \ {s} : secretBar'[r] = secretBar[r]
  BY <1>1 DEF secretBar, Untouched
<1>4. secretBar' = [secretBar EXCEPT ![s] = w]
  BY <1>3 DEF secretBar
<1> QED
  BY <1>2, <1>4

(* Nor is a step seen that leaves the looks of every session as they were.  *)
LEMMA BarSame ==
  ASSUME \A s \in Sessions : phaseBar'[s] = phaseBar[s] /\ secretBar'[s] = secretBar[s],
         liveBar' = liveBar, given' = given
  PROVE  UNCHANGED Table!vars
<1>1. phaseBar' = phaseBar
  BY DEF phaseBar
<1>2. secretBar' = secretBar
  BY DEF secretBar
<1> QED
  BY <1>1, <1>2 DEF Table!vars, liveBar

LEMMA BarQuiet ==
  ASSUME state' = state, mutex' = mutex, mem' = mem, given' = given, liveBar' = liveBar
  PROVE  UNCHANGED Table!vars
<1>1. \A s \in Sessions : phaseBar'[s] = phaseBar[s]
  BY DEF phaseBar
<1>2. \A s \in Sessions : secretBar'[s] = secretBar[s]
  BY <1>1 DEF secretBar
<1> QED
  BY <1>1, <1>2, BarSame

LEMMA LiveExists ==
  ASSUME SessInv, NEW s \in Sessions, Live(s)
  PROVE  state[s] # "none" /\ SessionOk(s) /\ s \in liveBar
BY DEF SessInv, RegInv, HandleInv, EntryInv, SecretInv, liveBar

-------------------------------------------------------------------------------
(* Steps the table does not see.                                            *)

LEMMA UnseenBegin ==
  ASSUME SessInv, NEW t \in Threads, Begin(t)
  PROVE  UNCHANGED Table!vars \/ \E s \in Sessions : Table!Close(s)
<1> USE DEF SessInv, RegInv, RegTypes
<1>1. state' = state /\ mutex' = mutex /\ mem' = mem /\ given' = given
  BY DEF Begin, NewAdmit, FillCall, TakeCall, NullPointer, Lookup, ForeignRelease,
         CallMethod, ClosureReads, ClosureOpens, CallBack, sessionVars
<1>2. CASE \E s \in Sessions : ForeignRelease(t, s)
  <2>1. PICK s \in Sessions : refs' = [refs EXCEPT ![s] = @ \ {Foreign}] /\ Foreign \in refs[s]
    BY <1>2 DEF ForeignRelease, LoseRef
  <2>2. s \in liveBar /\ liveBar' \in {liveBar, liveBar \ {s}}
    BY <2>1 DEF liveBar, Live
  <2>3. CASE liveBar' = liveBar
    BY <1>1, <2>3, BarQuiet
  <2>4. CASE liveBar' = liveBar \ {s}
    <3>1. phaseBar' = phaseBar
      BY <1>1 DEF phaseBar
    <3>2. secretBar' = secretBar
      BY <1>1, <3>1 DEF secretBar
    <3> QED
      BY <1>1, <2>2, <2>4, <3>1, <3>2 DEF Table!Close, liveBar
  <2> QED
    BY <2>2, <2>3, <2>4
<1>3. ASSUME NEW what, NEW i \in Sessions \cup {None}, NewAdmit(t, what, i)
      PROVE  liveBar' = liveBar
  BY <1>3, SessionAssumption DEF NewAdmit, Lend, liveBar, Live
<1>4. ASSUME NEW s \in Sessions, NEW what, CallMethod(t, what, s) PROVE liveBar' = liveBar
  BY <1>4 DEF CallMethod, liveBar, Live
<1>5. ASSUME NEW what, NEW h \in issued, Lookup(t, what, h) PROVE liveBar' = liveBar
  BY <1>5 DEF Lookup, Resolves, liveBar, Live
<1>6. ASSUME \/ \E what \in {"fill", "take"} : NullPointer(t, what)
             \/ ClosureReads(t) \/ ClosureOpens(t) \/ CallBack(t)
      PROVE  liveBar' = liveBar
  BY <1>6 DEF NullPointer, ClosureReads, ClosureOpens, CallBack, sessionVars, liveBar, Live
<1> QED
  BY <1>1, <1>2, <1>3, <1>4, <1>5, <1>6, BarQuiet DEF Begin, FillCall, TakeCall

LEMMA UnseenReturn ==
  ASSUME SessInv, NEW t \in Threads,
         \/ NestedNew(t) \/ NewFails(t) \/ PutBack(t) \/ IsConsumed(t) \/ ReadUnready(t)
         \/ Release(t) \/ Leave(t) \/ DropSession(t) \/ \E h \in Draws : NewRedraw(t, h)
  PROVE  UNCHANGED Table!vars \/ \E s \in Sessions : Table!Close(s)
<1> USE DEF SessInv, RegInv, RegTypes
<1>1. state' = state /\ mutex' = mutex /\ mem' = mem /\ given' = given
  BY DEF NestedNew, NewFails, PutBack, IsConsumed, ReadUnready, Release, Leave, DropSession,
         NewRedraw, sessionVars
<1>2. CASE Release(t)
  <2>1. PICK s \in Sessions : refs' = [refs EXCEPT ![s] = @ \ {t}] /\ t \in refs[s]
    <3> DEFINE r == IF cur[t] \in Held(t) THEN cur[t] ELSE inp[t]
    <3>1. r \in Sessions /\ t \in refs[r]
      BY <1>2 DEF Release, Held, HoldInv
    <3>2. refs' = [refs EXCEPT ![r] = @ \ {t}]
      BY <1>2 DEF Release, LoseRef
    <3> QED
      BY <3>1, <3>2
  <2>2. s \in liveBar /\ liveBar' \in {liveBar, liveBar \ {s}}
    BY <2>1 DEF liveBar, Live
  <2>3. CASE liveBar' = liveBar
    BY <1>1, <2>3, BarQuiet
  <2>4. CASE liveBar' = liveBar \ {s}
    <3>1. phaseBar' = phaseBar
      BY <1>1 DEF phaseBar
    <3>2. secretBar' = secretBar
      BY <1>1, <3>1 DEF secretBar
    <3> QED
      BY <1>1, <2>2, <2>4, <3>1, <3>2 DEF Table!Close, liveBar
  <2> QED
    BY <2>2, <2>3, <2>4
<1>3. CASE \/ NestedNew(t) \/ NewFails(t) \/ PutBack(t) \/ IsConsumed(t) \/ ReadUnready(t)
           \/ Leave(t) \/ DropSession(t) \/ \E h \in Draws : NewRedraw(t, h)
  <2>1. refs' = refs
    BY <1>3 DEF NestedNew, NewFails, PutBack, IsConsumed, ReadUnready, Leave, DropSession,
                NewRedraw, sessionVars
  <2> QED
    BY <1>1, <2>1, BarQuiet DEF liveBar, Live
<1> QED
  BY <1>2, <1>3

(* A siegel that is out, its mutex held, looks as it did in the state.      *)
LEMMA UnseenHold ==
  ASSUME SessInv, NEW t \in Threads,
         \/ TakeOut(t) \/ (WrittenLock(t) /\ state[cur[t]] = "Empty") \/ CallBackLock(t)
         \/ \E ok \in BOOLEAN : TakeFinish(t, ok)
  PROVE  UNCHANGED Table!vars
<1> USE DEF Set, At
<1>1. /\ pc[t] \in Work /\ refs' = refs /\ given' = given
      /\ DOMAIN state = Sessions /\ DOMAIN mem = Sessions /\ DOMAIN mutex = Sessions
  BY DEF TakeOut, Looks, WrittenLock, CallBackLock, TakeFinish, Work, SessInv, RegInv, RegTypes,
         SecretInv
<1>2. PICK s \in Sessions :
        /\ s = IF CallBackLock(t) THEN Source(t) ELSE cur[t]
        /\ Live(s) /\ UserOk(t, s)
  BY <1>1, Working DEF CallBackLock, Source
<1>3. state[s] # "none" /\ SessionOk(s) /\ liveBar' = liveBar
  BY <1>1, <1>2, LiveExists DEF liveBar, Live
<1>4. \A r \in Sessions \ {s} : Untouched(r)
  BY <1>1, <1>2 DEF TakeOut, WrittenLock, CallBackLock, Wiped, TakeFinish, Untouched
<1>5. phaseBar'[s] = phaseBar[s] /\ secretBar'[s] = secretBar[s]
  <2>1. CASE CallBackLock(t)
    <3>1. state[s] = "Consumed"
      BY <1>2, <2>1 DEF CallBackLock, UserOk, Uses, Reading
    <3>2. state'[s] = state[s] /\ mutex' = mutex /\ mem' = mem
      BY <1>1, <1>2, <2>1, <3>1 DEF CallBackLock, Wiped
    <3> QED
      BY <1>1, <3>2 DEF phaseBar, secretBar
  <2>2. CASE TakeOut(t) \/ WrittenLock(t)
    <3>1. s = cur[t]
      BY <1>2, <2>2 DEF TakeOut, Looks, WrittenLock, CallBackLock
    <3>2. WrittenLock(t) => state[s] = "Empty"
      BY <3>1 DEF WrittenLock, TakeOut, Looks, CallBackLock, TakeFinish
    <3>3. /\ state'[s] = "Consumed" /\ mutex'[s] = t /\ mem' = mem
          /\ state[s] \in {"Empty", "Written"}
      BY <1>1, <2>2, <3>1, <3>2 DEF TakeOut, Wants, WrittenLock
    <3>4. t # None
      BY SessionAssumption
    <3>5. phaseBar'[s] = phaseBar[s]
      BY <1>1, <1>3, <3>3, <3>4 DEF phaseBar, SessionOk
    <3> QED
      BY <3>3, <3>5 DEF secretBar
  <2>3. ASSUME NEW ok \in BOOLEAN, TakeFinish(t, ok)
        PROVE  phaseBar'[s] = phaseBar[s] /\ secretBar'[s] = secretBar[s]
    <3>1. s = cur[t]
      BY <1>2, <2>3 DEF TakeFinish, CallBackLock
    <3>2. given[s] # <<>> /\ state' = state
      BY <1>2, <2>3, <3>1 DEF TakeFinish, UserOk, Holds
    <3> QED
      BY <1>1, <1>3, <3>2 DEF phaseBar, secretBar
  <2> QED
    BY <2>1, <2>2, <2>3
<1>6. \A r \in Sessions : phaseBar'[r] = phaseBar[r] /\ secretBar'[r] = secretBar[r]
  BY <1>4, <1>5 DEF phaseBar, secretBar, Untouched
<1> QED
  BY <1>1, <1>3, <1>6, BarSame

-------------------------------------------------------------------------------
(* Steps that are operations of the table.                                  *)

(* NewInsert opens a session.                                               *)
LEMMA Opens ==
  ASSUME SessInv, NEW t \in Threads, NEW h \in Draws, NEW s \in Sessions, NewInsert(t, s, h)
  PROVE  Table!Open(s)
<1> USE DEF Set
<1>1. state[s] = "none" /\ ~Live(s) /\ SessionOk(s)
  BY DEF NewInsert, SessInv, RegInv, HandleInv, EntryInv, SecretInv
<1>2. /\ DOMAIN state = Sessions /\ DOMAIN mem = Sessions
      /\ refs \in [Sessions -> SUBSET (Threads \cup {Foreign})]
  BY DEF SessInv, RegInv, RegTypes, SecretInv
<1>3. /\ state'[s] = "Empty" /\ mem'[s] = "blank" /\ mutex' = mutex /\ given' = given
      /\ \A r \in Sessions \ {s} : Untouched(r)
      /\ \E who \in {t, Foreign} : refs' = [refs EXCEPT ![s] = {who}]
  BY <1>2 DEF NewInsert, Untouched
<1>4. given[s] = <<>>
  BY <1>1 DEF SessionOk
<1>5. phaseBar[s] = "absent" /\ phaseBar'[s] = "empty" /\ secretBar'[s] = "none"
  BY <1>1, <1>3, <1>4 DEF phaseBar, secretBar
<1>6. liveBar' = liveBar \cup {s}
  BY <1>2, <1>3 DEF liveBar, Live
<1>7. Table!Become(s, "empty", "none")
  BY <1>3, <1>5, BarFrame DEF Table!Become
<1> QED
  BY <1>3, <1>5, <1>6, <1>7 DEF Table!Open, liveBar

(* A fill or a new_written loads the session it has taken the siegel of, or *)
(* discards it.                                                             *)
LEMMA Loads ==
  ASSUME SessInv, NEW t \in Threads,
         \/ \E ok \in BOOLEAN : FillWrite(t, ok)
         \/ WrittenSeal(t) \/ WrittenFails(t)
  PROVE  \E s \in Sessions :
           Table!Discard(s) \/ \E whose \in Table!Owners : Table!Load(s, whose)
<1> USE DEF Set, At
<1>1. /\ pc[t] \in Work /\ given' = given
      /\ DOMAIN state = Sessions /\ DOMAIN mem = Sessions /\ DOMAIN mutex = Sessions
      /\ refs \in [Sessions -> SUBSET (Threads \cup {Foreign})]
  BY DEF FillWrite, WrittenSeal, WrittenFails, Work, SessInv, RegInv, RegTypes, SecretInv
<1>2. PICK s \in Sessions : s = cur[t] /\ t \in refs[s] /\ Live(s) /\ UserOk(t, s)
  BY <1>1, Working
<1>3. state[s] # "none" /\ s \in liveBar
  BY <1>2, LiveExists
<1>4. Holds(t, s) /\ op[t] \in {"fill", "new_written"} /\ pc[t] # "copied"
  BY <1>2 DEF FillWrite, WrittenSeal, WrittenFails, Holds
<1>5. mem[s] = "blank" /\ given[s] = <<>>
  BY <1>2, <1>4 DEF UserOk
<1>6. phaseBar[s] = "empty"
  BY <1>3, <1>5 DEF phaseBar
<1>7. liveBar' = liveBar
  <2>1. CASE WrittenSeal(t)
    BY <1>1, <1>2, <2>1 DEF WrittenSeal, liveBar, Live
  <2>2. CASE ~WrittenSeal(t)
    BY <2>2 DEF FillWrite, WrittenFails, liveBar, Live
  <2> QED
    BY <2>1, <2>2
<1>8. \A r \in Sessions \ {s} : Untouched(r)
  BY <1>1, <1>2 DEF FillWrite, WrittenSeal, WrittenFails, Untouched
<1>9. \/ mem'[s] = "none" /\ state'[s] # "none"
      \/ /\ mem'[s] \in Secret /\ state'[s] \in {"Filled", "Written"}
  BY <1>1, <1>2, <1>3 DEF FillWrite, WrittenSeal, WrittenFails, Secret
<1>10. CASE mem'[s] = "none" /\ state'[s] # "none"
  <2>1. phaseBar'[s] = "consumed" /\ secretBar'[s] = "none"
    BY <1>10 DEF phaseBar, secretBar
  <2> QED
    BY <1>1, <1>6, <1>7, <1>8, <2>1, BarFrame DEF Table!Discard, Table!Become, liveBar
<1>11. ASSUME NEW whose \in Secret, mem'[s] = whose, state'[s] \in {"Filled", "Written"}
       PROVE  Table!Load(s, whose)
  <2>1. phaseBar'[s] = "loaded" /\ secretBar'[s] = whose
    BY <1>1, <1>5, <1>11 DEF phaseBar, secretBar, Secret
  <2> QED
    BY <1>1, <1>3, <1>6, <1>7, <1>8, <2>1, BarFrame DEF Table!Load, Table!Become, liveBar
<1> QED
  BY <1>9, <1>10, <1>11 DEF Table!Owners, Secret

(* The copy of a siegel_take is where it takes effect, or its refusal.      *)
LEMMA Takes ==
  ASSUME SessInv, NEW t \in Threads,
         TakeCopy(t) \/ \E error \in DOMAIN TakeCode : TakeRefused(t, error)
  PROVE  \E s \in Sessions : Table!Take(s) \/ Table!Discard(s)
<1> USE DEF Set, At
<1>1. /\ pc[t] \in Work /\ refs' = refs /\ state' = state
      /\ DOMAIN mem = Sessions /\ DOMAIN given = Sessions /\ DOMAIN mutex = Sessions
  BY DEF TakeCopy, TakeRefused, Work, SessInv, SecretInv
<1>2. PICK s \in Sessions : s = cur[t] /\ Live(s) /\ UserOk(t, s)
  BY <1>1, Working
<1>3. state[s] # "none" /\ s \in liveBar /\ liveBar' = liveBar
  BY <1>1, <1>2, LiveExists DEF liveBar, Live
<1>4. Holds(t, s) /\ op[t] = "take" /\ pc[t] = "body"
  BY <1>2 DEF TakeCopy, TakeRefused, Holds
<1>5. mem[s] = "rust" /\ given[s] = <<>> /\ mutex[s] = t
  BY <1>2, <1>4 DEF UserOk
<1>6. phaseBar[s] = "loaded" /\ secretBar[s] = "rust"
  BY <1>3, <1>5, SessionAssumption DEF phaseBar, secretBar
<1>7. \A r \in Sessions \ {s} : Untouched(r)
  BY <1>1, <1>2 DEF TakeCopy, TakeRefused, Untouched
<1>8. CASE TakeCopy(t)
  <2>1. given' = [given EXCEPT ![s] = Append(@, <<"foreign", secretBar[s]>>)]
    BY <1>1, <1>2, <1>5, <1>6, <1>8 DEF TakeCopy
  <2>2. given'[s] # <<>>
    BY <1>1, <1>5, <2>1
  <2>3. phaseBar'[s] = "consumed" /\ secretBar'[s] = "none"
    BY <1>1, <1>3, <2>2 DEF phaseBar, secretBar
  <2>4. Table!Become(s, "consumed", "none")
    BY <1>7, <2>3, BarFrame DEF Table!Become
  <2>5. Table!Give(s, "foreign")
    BY <2>1 DEF Table!Give
  <2> QED
    BY <1>3, <1>6, <2>4, <2>5 DEF Table!Take, liveBar
<1>9. CASE \E error \in DOMAIN TakeCode : TakeRefused(t, error)
  <2>1. mem'[s] = "none" /\ given' = given
    BY <1>1, <1>2, <1>9 DEF TakeRefused
  <2>2. phaseBar'[s] = "consumed" /\ secretBar'[s] = "none"
    BY <1>1, <1>3, <2>1 DEF phaseBar, secretBar
  <2> QED
    BY <1>3, <1>6, <1>7, <2>1, <2>2, BarFrame DEF Table!Discard, Table!Become, liveBar
<1> QED
  BY <1>8, <1>9

(* A reader claims the siegel under the mutex and reads it without.         *)
LEMMA Claims ==
  ASSUME SessInv, NEW t \in Threads, ReadLock(t)
  PROVE  \E s \in Sessions : Table!Claim(s)
<1> USE DEF Set, At
<1>1. /\ pc[t] \in Work /\ refs' = refs /\ mutex' = mutex /\ mem' = mem /\ given' = given
      /\ DOMAIN state = Sessions
  BY DEF ReadLock, Reads, Work, SessInv, RegInv, RegTypes
<1>2. PICK s \in Sessions : s = Source(t) /\ Live(s)
  BY <1>1, Working DEF ReadLock, Reads, Source
<1>3. SessionOk(s) /\ s \in liveBar /\ liveBar' = liveBar
  BY <1>1, <1>2, LiveExists DEF liveBar, Live
<1>4. /\ mutex[s] = None /\ state[s] \in {"Filled", "Written"} /\ state'[s] = "Consumed"
      /\ \A r \in Sessions \ {s} : Untouched(r)
  BY <1>1, <1>2 DEF ReadLock, StateFree, Untouched
<1>5. mem[s] \in {"foreign", "rust"} /\ given[s] = <<>>
  BY <1>3, <1>4 DEF SessionOk
<1>6. phaseBar[s] = "loaded" /\ secretBar[s] = mem[s]
  BY <1>4, <1>5 DEF phaseBar, secretBar
<1>7. phaseBar'[s] = "claimed" /\ secretBar'[s] = secretBar[s]
  BY <1>1, <1>4, <1>5, <1>6 DEF phaseBar, secretBar
<1> QED
  BY <1>1, <1>3, <1>4, <1>6, <1>7, BarFrame DEF Table!Claim, Table!Become, liveBar

LEMMA Readings ==
  ASSUME SessInv, NEW t \in Threads, NEW ran \in BOOLEAN, NEW ok \in BOOLEAN,
         ReadBody(t, ran, ok)
  PROVE  \E s \in Sessions : Table!Read(s) \/ Table!Discard(s)
<1> USE DEF Set
<1>1. /\ pc[t] = "read_body" /\ refs' = refs /\ mutex' = mutex /\ state' = state
      /\ DOMAIN mem = Sessions /\ DOMAIN given = Sessions
  BY DEF ReadBody, SessInv, SecretInv
<1>2. PICK s \in Sessions : s = Source(t) /\ Live(s) /\ UserOk(t, s)
  BY <1>1, Working DEF Work, Source
<1>3. state[s] # "none" /\ s \in liveBar /\ liveBar' = liveBar
  BY <1>1, <1>2, LiveExists DEF liveBar, Live
<1>4. /\ state[s] = "Consumed" /\ mutex[s] = None /\ mem[s] \in {"foreign", "rust"}
      /\ given[s] = <<>>
  BY <1>1, <1>2 DEF UserOk, Uses, Reading, Secret
<1>5. phaseBar[s] = "claimed" /\ secretBar[s] = mem[s]
  BY <1>4 DEF phaseBar, secretBar
<1>6. mem'[s] = "none" /\ \A r \in Sessions \ {s} : Untouched(r)
  BY <1>1, <1>2 DEF ReadBody, Untouched
<1>7. phaseBar'[s] = "consumed" /\ secretBar'[s] = "none"
  BY <1>1, <1>3, <1>6 DEF phaseBar, secretBar
<1>8. Table!Become(s, "consumed", "none")
  BY <1>6, <1>7, BarFrame DEF Table!Become
<1>9. CASE ran
  <2>1. given' = [given EXCEPT ![s] = Append(@, <<"rust", secretBar[s]>>)]
    BY <1>1, <1>2, <1>5, <1>9 DEF ReadBody
  <2>2. Table!Give(s, "rust")
    BY <2>1 DEF Table!Give
  <2> QED
    BY <1>3, <1>5, <1>8, <2>2 DEF Table!Read, liveBar
<1>10. CASE ~ran
  <2>1. given' = given
    BY <1>10 DEF ReadBody
  <2> QED
    BY <1>3, <1>5, <1>8, <2>1 DEF Table!Discard, liveBar
<1> QED
  BY <1>9, <1>10

(* What is still in the pages of a session is discarded by an obliviate, by *)
(* the drop of the session, or by a new_written that finds it was filled.   *)
LEMMA Discards ==
  ASSUME SessInv, NEW t \in Threads,
         Obliviate(t) \/ DropFields(t) \/ (WrittenLock(t) /\ state[cur[t]] # "Empty")
  PROVE  UNCHANGED Table!vars \/ \E s \in Sessions : Table!Discard(s)
<1> USE DEF Set, At
<1>1. /\ refs' = refs /\ mutex' = mutex /\ given' = given
      /\ DOMAIN state = Sessions /\ DOMAIN mem = Sessions
  BY DEF Obliviate, DropFields, WrittenLock, SessInv, RegInv, RegTypes, SecretInv
<1>2. PICK s \in Sessions : s = cur[t] /\ state[s] # "none" /\ SessionOk(s)
  <2>1. CASE Obliviate(t) \/ WrittenLock(t)
    BY <2>1, Working, LiveExists DEF Obliviate, WrittenLock, Work
  <2>2. CASE DropFields(t)
    BY <2>2 DEF DropFields, SessInv, RegInv, HoldInv, HandleInv, SecretInv
  <2> QED
    BY <2>1, <2>2
<1>3. liveBar' = liveBar /\ \A r \in Sessions \ {s} : Untouched(r)
  BY <1>1, <1>2 DEF Obliviate, DropFields, WrittenLock, Wiped, Untouched, liveBar, Live
<1>4. CASE (Obliviate(t) \/ WrittenLock(t)) /\ state[s] = "Consumed"
  <2>1. mem' = mem /\ state'[s] = state[s]
    BY <1>1, <1>2, <1>4 DEF Obliviate, WrittenLock, Wiped
  <2>2. \A r \in Sessions : phaseBar'[r] = phaseBar[r] /\ secretBar'[r] = secretBar[r]
    BY <1>1, <1>3, <2>1 DEF phaseBar, secretBar, Untouched
  <2> QED
    BY <1>1, <1>3, <2>2, BarSame
<1>5. CASE DropFields(t) \/ state[s] # "Consumed"
  <2>1. mem'[s] = "none" /\ state'[s] # "none"
    BY <1>1, <1>2, <1>5 DEF Obliviate, DropFields, WrittenLock, Wiped
  <2>2. phaseBar'[s] = "consumed" /\ secretBar'[s] = "none"
    BY <2>1 DEF phaseBar, secretBar
  <2>3. CASE phaseBar[s] \in {"empty", "loaded", "claimed"}
    BY <1>1, <1>3, <2>2, <2>3, BarFrame DEF Table!Discard, Table!Become, liveBar
  <2>4. CASE phaseBar[s] \notin {"empty", "loaded", "claimed"}
    <3>1. phaseBar[s] = "consumed" /\ secretBar[s] = "none"
      BY <1>2, <2>4 DEF phaseBar, secretBar
    <3>2. \A r \in Sessions : phaseBar'[r] = phaseBar[r] /\ secretBar'[r] = secretBar[r]
      BY <1>1, <1>3, <2>2, <3>1 DEF phaseBar, secretBar, Untouched
    <3> QED
      BY <1>1, <1>3, <3>2, BarSame
  <2> QED
    BY <2>3, <2>4
<1> QED
  BY <1>4, <1>5

-------------------------------------------------------------------------------
(* All of them.                                                             *)

LEMMA TableStep ==
  ASSUME SessInv, NEW t \in Threads, Begin(t) \/ Step(t)
  PROVE  [Table!Next]_(Table!vars)
<1>1. CASE Begin(t)
  BY <1>1, UnseenBegin DEF Table!Next
<1>2. CASE \E h \in Draws, s \in Sessions : NewInsert(t, s, h)
  BY <1>2, Opens DEF Table!Next
<1>3. CASE \/ NestedNew(t) \/ NewFails(t) \/ PutBack(t) \/ IsConsumed(t) \/ ReadUnready(t)
           \/ Release(t) \/ Leave(t) \/ DropSession(t) \/ \E h \in Draws : NewRedraw(t, h)
  BY <1>3, UnseenReturn DEF Table!Next
<1>4. CASE \/ TakeOut(t) \/ CallBackLock(t)
           \/ \E ok \in BOOLEAN : TakeFinish(t, ok)
  <2>1. \/ TakeOut(t) \/ (WrittenLock(t) /\ state[cur[t]] = "Empty") \/ CallBackLock(t)
        \/ \E ok \in BOOLEAN : TakeFinish(t, ok)
    BY <1>4
  <2> QED
    BY <2>1, UnseenHold
<1>5. CASE \/ \E ok \in BOOLEAN : FillWrite(t, ok)
           \/ WrittenSeal(t) \/ WrittenFails(t)
  BY <1>5, Loads DEF Table!Next
<1>6. CASE TakeCopy(t) \/ \E error \in DOMAIN TakeCode : TakeRefused(t, error)
  BY <1>6, Takes DEF Table!Next
<1>7. CASE ReadLock(t)
  BY <1>7, Claims DEF Table!Next
<1>8. CASE \E ran, ok \in BOOLEAN : ReadBody(t, ran, ok)
  BY <1>8, Readings DEF Table!Next
<1>9. CASE Obliviate(t) \/ DropFields(t)
  <2>1. Obliviate(t) \/ DropFields(t) \/ (WrittenLock(t) /\ state[cur[t]] # "Empty")
    BY <1>9
  <2> QED
    BY <2>1, Discards DEF Table!Next
<1>10. CASE WrittenLock(t)
  <2>1. CASE state[cur[t]] = "Empty"
    BY <1>10, <2>1, UnseenHold
  <2>2. CASE state[cur[t]] # "Empty"
    BY <1>10, <2>2, Discards DEF Table!Next
  <2> QED
    BY <2>1, <2>2
<1> QED
  BY <1>1, <1>2, <1>3, <1>4, <1>5, <1>6, <1>7, <1>8, <1>9, <1>10 DEF Step

LEMMA TableStutter == UNCHANGED vars => UNCHANGED Table!vars
BY BarQuiet DEF vars, sharedVars, sessionVars, liveBar, Live

(* Whatever threads do to the sessions, and wherever they are interrupted,  *)
(* is what SessionTable allows: sessions that each are a secret loaded once,*)
(* that one reader or one taker gets; whatever ids are drawn.               *)
THEOREM ImplementsTableHolds == Safety => ImplementsTable
<1>1. Init => Table!Init
  <2> SUFFICES ASSUME Init PROVE Table!Init
    OBVIOUS
  <2>1. \A s \in Sessions : phaseBar[s] = "absent" /\ secretBar[s] = "none"
    BY DEF Init, phaseBar, secretBar
  <2>2. phaseBar = [s \in Sessions |-> "absent"]
    BY <2>1 DEF phaseBar
  <2>3. secretBar = [s \in Sessions |-> "none"]
    BY <2>1 DEF secretBar
  <2>4. liveBar = {} /\ given = [s \in Sessions |-> <<>>]
    BY DEF Init, liveBar, Live
  <2> QED
    BY <2>2, <2>3, <2>4 DEF Table!Init, liveBar
<1>2. SessInv /\ [Next]_vars => [Table!Next]_(Table!vars)
  BY TableStep, TableStutter DEF Next
<1> QED
  BY <1>1, <1>2, SessInvariant, PTL DEF Safety, ImplementsTable, Table!Spec

================================================================================
