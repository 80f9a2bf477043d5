------------------------------ MODULE SessionProofs ------------------------------
(***************************************************************************)
(* Proofs about SiegelSession: the registry.  A session somebody holds is  *)
(* found under its handle, and never more of them are live than the cap    *)
(* allows, for any number of threads, sessions, handles and calls and      *)
(* whatever ids are drawn, except where an id drawn again lets the Drop of *)
(* the session that had it first take away an entry that is not its own.   *)
(***************************************************************************)
EXTENDS SiegelSession, FiniteSetTheorems, TLAPS

(* What the registry's invariant needs of the types.                        *)
RegTypes ==
  /\ regLock \in Threads \cup {None}
  /\ registry \in [Handles -> Sessions \cup {None}]
  /\ handle \in [Sessions -> Handles \cup {None}] /\ issued \subseteq Handles
  /\ refs \in [Sessions -> SUBSET (Threads \cup {Foreign})]
  /\ DOMAIN state = Sessions /\ DOMAIN pc = Threads /\ DOMAIN op = Threads
  /\ cur \in [Threads -> Sessions \cup {None}]
  /\ inp \in [Threads -> Sessions \cup {None}]

(* Where a thread works on the session `cur`.                               *)
Work ==
  {"lock", "body", "input", "open", "nested", "copied", "read_body", "reenter", "seal", "failed"}

(* The registry lock is held exactly in the second half of `new`.           *)
LockInv == \A t \in Threads : pc[t] \in {"alloc", "nested"} <=> regLock = t

(* A session has a handle from the moment it exists, and an entry of the    *)
(* registry names a session that has its handle.                            *)
HandleInv ==
  /\ \A s \in Sessions : handle[s] = None <=> state[s] = "none"
  /\ \A h \in Handles : registry[h] # None => handle[registry[h]] = h

(* A live session has its entry, unless one that was given up had its id.   *)
EntryInv ==
  \A s \in Sessions : Live(s) =>
    handle[s] # None /\ (~Reused(s) => registry[handle[s]] = s)

(* A thread holds the sessions it works on and no others, between calls     *)
(* none; the session it drops is held by nobody.                            *)
HoldInv ==
  \A t \in Threads :
    /\ \A s \in Sessions : t \in refs[s] => s \in {cur[t], inp[t]} /\ pc[t] # "idle"
    /\ pc[t] = "alloc" => cur[t] = None
    /\ pc[t] \in {"open", "nested"} => inp[t] = None
    /\ pc[t] \in Work => cur[t] \in Sessions /\ t \in refs[cur[t]]
    /\ pc[t] \in Work \cup {"alloc"} /\ inp[t] # None => t \in refs[inp[t]]
    /\ pc[t] = "input" => inp[t] # None
    /\ pc[t] \in {"read_body", "reenter"} => Source(t) # None
    /\ pc[t] \in {"drop", "drop_fields"} =>
         cur[t] \in Sessions /\ ~Live(cur[t]) /\ handle[cur[t]] # None

RegInv == RegTypes /\ LockInv /\ HandleInv /\ EntryInv /\ HoldInv

LiveSet == {s \in Sessions : Live(s) /\ ~Reused(s)}

(* Who has the registry lock has found room for one more.                   *)
CapInv ==
  /\ Cardinality(LiveSet) <= MaxActiveSessions
  /\ regLock # None => Cardinality(LiveSet) < MaxActiveSessions

-------------------------------------------------------------------------------
(* Steps inside a call that leave registry, handles and references alone.   *)

Quiet(t) ==
  /\ UNCHANGED <<regLock, registry, issued, refs, handle, op, cur, inp>>
  /\ DOMAIN state' = Sessions
  /\ \A s \in Sessions : state'[s] = "none" <=> state[s] = "none"
  /\ pc[t] \in Work \ {"nested"}
  /\ \E p \in (Work \ {"nested"}) \cup {"release"} :
       /\ pc' = [pc EXCEPT ![t] = p]
       /\ p \in {"read_body", "reenter"} => Source(t) # None
       /\ p = "open" => inp[t] = None
       /\ p = "input" => inp[t] # None

(* What nobody holds nobody will: an id that was given up stays so.         *)
LEMMA ReusedStays ==
  ASSUME RegInv, UNCHANGED handle, \A s \in Sessions : Live(s)' => Live(s)
  PROVE  \A s \in Sessions : Reused(s) => Reused(s)'
BY DEF Reused

(* Enough for a step to keep EntryInv.                                      *)
LEMMA EntryKept ==
  ASSUME RegInv, UNCHANGED handle, \A s \in Sessions : Live(s)' => Live(s),
         \A s \in Sessions : Live(s) /\ ~Reused(s) => registry'[handle[s]] = registry[handle[s]]
  PROVE  EntryInv'
BY ReusedStays DEF RegInv, EntryInv

LEMMA QuietStep ==
  ASSUME RegInv, NEW t \in Threads, Quiet(t)
  PROVE  RegInv'
<1> USE DEF RegInv, RegTypes, LockInv, HandleInv, EntryInv, HoldInv, Quiet, Work, Live, Source
<1>1. PICK p \in (Work \ {"nested"}) \cup {"release"} :
        /\ pc' = [pc EXCEPT ![t] = p]
        /\ p \in {"read_body", "reenter"} => Source(t) # None
        /\ p = "open" => inp[t] = None
        /\ p = "input" => inp[t] # None
  OBVIOUS
<1>2. (RegTypes /\ LockInv)'
  BY <1>1, SessionAssumption
<1>3. HandleInv'
  OBVIOUS
<1>4. EntryInv'
  <2> HIDE DEF RegInv
  <2> QED
    BY EntryKept
<1>5. HoldInv'
  BY <1>1
<1> QED
  BY <1>2, <1>3, <1>4, <1>5

(* Enough for a step to be quiet: a session that exists may change state.   *)
LEMMA QuietBy ==
  ASSUME RegInv, NEW t \in Threads, NEW p \in (Work \ {"nested"}) \cup {"release"},
         UNCHANGED <<regLock, registry, issued, refs, handle, op, cur, inp>>,
         pc[t] \in Work \ {"nested"}, pc' = Set(pc, t, p),
         p \in {"read_body", "reenter"} => Source(t) # None,
         p = "open" => inp[t] = None, p = "input" => inp[t] # None,
         \/ state' = state
         \/ \E s \in Sessions, what \in SessionStates :
              handle[s] # None /\ state' = Set(state, s, what)
  PROVE  Quiet(t)
<1>1. /\ DOMAIN state' = Sessions
      /\ \A r \in Sessions : state'[r] = "none" <=> state[r] = "none"
  BY DEF RegInv, RegTypes, HandleInv, Set, SessionStates
<1> QED
  BY <1>1 DEF Quiet, Set

LEMMA Worker ==
  ASSUME RegInv, NEW t \in Threads, pc[t] \in Work
  PROVE  /\ cur[t] \in Sessions /\ handle[cur[t]] # None
         /\ inp[t] # None => inp[t] \in Sessions /\ handle[inp[t]] # None
BY DEF RegInv, RegTypes, HoldInv, EntryInv, Live

LEMMA QuietSteps ==
  ASSUME RegInv, NEW t \in Threads,
         \/ TakeOut(t) \/ PutBack(t) \/ TakeCopy(t)
         \/ \E ok \in BOOLEAN : FillWrite(t, ok) \/ TakeFinish(t, ok)
         \/ \E error \in DOMAIN TakeCode : TakeRefused(t, error)
         \/ IsConsumed(t) \/ Obliviate(t)
         \/ ReadLock(t) \/ ReadUnready(t) \/ CallBack(t) \/ CallBackLock(t)
         \/ \E ran, ok \in BOOLEAN : ReadBody(t, ran, ok)
         \/ WrittenLock(t) \/ WrittenFails(t) \/ ClosureReads(t) \/ ClosureOpens(t)
  PROVE  Quiet(t)
<1>0. "Consumed" \in SessionStates /\ "Filled" \in SessionStates
  BY DEF SessionStates
<1>1. ASSUME TakeOut(t) PROVE Quiet(t)
  <2>1. pc[t] = "lock" /\ pc' = Set(pc, t, "body") /\ state' = Set(state, cur[t], "Consumed")
    BY <1>1 DEF TakeOut, Looks, At, Goto, Return
  <2>2. UNCHANGED <<regLock, registry, issued, refs, handle, op, cur, inp>>
    BY <1>1 DEF TakeOut, Looks, Goto, Return, sharedVars, sessionVars, threadVars
  <2> QED
    BY <2>1, <2>2, Worker, QuietBy DEF Work, SessionStates
<1>2. ASSUME PutBack(t) PROVE Quiet(t)
  <2>1. pc[t] = "lock" /\ pc' = Set(pc, t, "release") /\ state' = state
    BY <1>2 DEF PutBack, Looks, sessionVars, At, Goto, Return
  <2>2. UNCHANGED <<regLock, registry, issued, refs, handle, op, cur, inp>>
    BY <1>2 DEF PutBack, Looks, sessionVars, Goto, Return, sharedVars, sessionVars, threadVars
  <2> QED
    BY <2>1, <2>2, Worker, QuietBy DEF Work, SessionStates
<1>3. ASSUME TakeCopy(t) PROVE Quiet(t)
  <2>1. pc[t] = "body" /\ pc' = Set(pc, t, "copied") /\ state' = state
    BY <1>3 DEF TakeCopy, At, Goto, Return
  <2>2. UNCHANGED <<regLock, registry, issued, refs, handle, op, cur, inp>>
    BY <1>3 DEF TakeCopy, Goto, Return, sharedVars, sessionVars, threadVars
  <2> QED
    BY <2>1, <2>2, Worker, QuietBy DEF Work, SessionStates
<1>4. ASSUME NEW ok \in BOOLEAN, FillWrite(t, ok) PROVE Quiet(t)
  <2>1. pc[t] = "body" /\ pc' = Set(pc, t, "release") /\ (state' = state \/ state' = Set(state, cur[t], "Filled"))
    BY <1>4 DEF FillWrite, At, Goto, Return
  <2>2. UNCHANGED <<regLock, registry, issued, refs, handle, op, cur, inp>>
    BY <1>4 DEF FillWrite, Goto, Return, sharedVars, sessionVars, threadVars
  <2> QED
    BY <2>1, <2>2, Worker, QuietBy DEF Work, SessionStates
<1>5. ASSUME NEW ok \in BOOLEAN, TakeFinish(t, ok) PROVE Quiet(t)
  <2>1. pc[t] = "copied" /\ pc' = Set(pc, t, "release") /\ state' = state
    BY <1>5 DEF TakeFinish, At, Goto, Return
  <2>2. UNCHANGED <<regLock, registry, issued, refs, handle, op, cur, inp>>
    BY <1>5 DEF TakeFinish, Goto, Return, sharedVars, sessionVars, threadVars
  <2> QED
    BY <2>1, <2>2, Worker, QuietBy DEF Work, SessionStates
<1>6. ASSUME NEW error \in DOMAIN TakeCode, TakeRefused(t, error) PROVE Quiet(t)
  <2>1. pc[t] = "body" /\ pc' = Set(pc, t, "release") /\ state' = state
    BY <1>6 DEF TakeRefused, At, Goto, Return
  <2>2. UNCHANGED <<regLock, registry, issued, refs, handle, op, cur, inp>>
    BY <1>6 DEF TakeRefused, Goto, Return, sharedVars, sessionVars, threadVars
  <2> QED
    BY <2>1, <2>2, Worker, QuietBy DEF Work, SessionStates
<1>7. ASSUME IsConsumed(t) PROVE Quiet(t)
  <2>1. pc[t] = "lock" /\ pc' = Set(pc, t, "release") /\ state' = state
    BY <1>7 DEF IsConsumed, sessionVars, At, Goto, Return
  <2>2. UNCHANGED <<regLock, registry, issued, refs, handle, op, cur, inp>>
    BY <1>7 DEF IsConsumed, sessionVars, Goto, Return, sharedVars, sessionVars, threadVars
  <2> QED
    BY <2>1, <2>2, Worker, QuietBy DEF Work, SessionStates
<1>8. ASSUME Obliviate(t) PROVE Quiet(t)
  <2>1. pc[t] = "lock" /\ pc' = Set(pc, t, "release") /\ state' = Set(state, cur[t], "Consumed")
    BY <1>8 DEF Obliviate, Wiped, At, Goto, Return
  <2>2. UNCHANGED <<regLock, registry, issued, refs, handle, op, cur, inp>>
    BY <1>8 DEF Obliviate, Wiped, Goto, Return, sharedVars, sessionVars, threadVars
  <2> QED
    BY <2>1, <2>2, Worker, QuietBy DEF Work, SessionStates
<1>9. ASSUME ReadLock(t) PROVE Quiet(t)
  <2>1. pc[t] \in {"lock", "input"} /\ pc' = Set(pc, t, "read_body")
    BY <1>9 DEF ReadLock, Reads, At, Goto
  <2>2. state' = Set(state, Source(t), "Consumed")
    BY <1>9 DEF ReadLock
  <2>3. UNCHANGED <<regLock, registry, issued, refs, handle, op, cur, inp>>
    BY <1>9 DEF ReadLock, Goto, sharedVars
  <2>4. Source(t) # None /\ Source(t) \in {cur[t], inp[t]}
    BY <1>9, <2>1, Worker, SessionAssumption DEF ReadLock, Reads, At, Source, Work, RegInv, HoldInv
  <2>5. Source(t) \in Sessions /\ handle[Source(t)] # None
    BY <2>1, <2>4, Worker DEF Work
  <2> QED
    BY <1>0, <2>1, <2>2, <2>3, <2>4, <2>5, QuietBy DEF Work
<1>10. ASSUME ReadUnready(t) PROVE Quiet(t)
  <2>1. pc[t] \in {"lock", "input"} /\ state' = state
    BY <1>10 DEF ReadUnready, Reads, At, sessionVars
  <2>2. PICK p \in {"release", "failed"} : pc' = Set(pc, t, p)
    BY <1>10 DEF ReadUnready, ReadError, Goto, Return
  <2>3. UNCHANGED <<regLock, registry, issued, refs, handle, op, cur, inp>>
    BY <1>10 DEF ReadUnready, ReadError, Goto, Return, sessionVars
  <2> QED
    BY <2>1, <2>2, <2>3, QuietBy DEF Work
<1>11. ASSUME CallBack(t) PROVE Quiet(t)
  <2>1. pc[t] = "read_body" /\ pc' = Set(pc, t, "reenter") /\ state' = state
    BY <1>11 DEF CallBack, sessionVars
  <2>2. UNCHANGED <<regLock, registry, issued, refs, handle, op, cur, inp>>
    BY <1>11 DEF CallBack, sharedVars, sessionVars
  <2>3. Source(t) # None
    BY <2>1 DEF RegInv, HoldInv
  <2> QED
    BY <2>1, <2>2, <2>3, QuietBy DEF Work
<1>12. ASSUME CallBackLock(t) PROVE Quiet(t)
  <2>1. /\ pc[t] = "reenter" /\ pc' = Set(pc, t, "read_body")
        /\ state' = Set(state, Source(t), "Consumed")
    BY <1>12 DEF CallBackLock, Wiped, Goto
  <2>2. UNCHANGED <<regLock, registry, issued, refs, handle, op, cur, inp>>
    BY <1>12 DEF CallBackLock, Goto, sharedVars
  <2>3. Source(t) # None /\ Source(t) \in {cur[t], inp[t]}
    BY <2>1 DEF RegInv, HoldInv, Source
  <2>4. Source(t) \in Sessions /\ handle[Source(t)] # None
    BY <2>1, <2>3, Worker DEF Work
  <2> QED
    BY <1>0, <2>1, <2>2, <2>3, <2>4, QuietBy DEF Work
<1>13. ASSUME NEW ran \in BOOLEAN, NEW ok \in BOOLEAN, ReadBody(t, ran, ok) PROVE Quiet(t)
  <2>1. pc[t] = "read_body" /\ state' = state
    BY <1>13 DEF ReadBody
  <2>2. PICK p \in {"release", "failed", "seal"} : pc' = Set(pc, t, p)
    BY <1>13 DEF ReadBody, ReadError, Goto, Return
  <2>3. UNCHANGED <<regLock, registry, issued, refs, handle, op, cur, inp>>
    BY <1>13 DEF ReadBody, ReadError, Goto, Return, sharedVars
  <2> QED
    BY <2>1, <2>2, <2>3, QuietBy DEF Work
<1>14. ASSUME WrittenLock(t) PROVE Quiet(t)
  <2>1. pc[t] = "lock" /\ state' = Set(state, cur[t], "Consumed")
    BY <1>14 DEF WrittenLock, At
  <2>2. PICK p \in {"release", "body"} : pc' = Set(pc, t, p)
    BY <1>14 DEF WrittenLock, Goto, Return
  <2>3. UNCHANGED <<regLock, registry, issued, refs, handle, op, cur, inp>>
    BY <1>14 DEF WrittenLock, Goto, Return, sharedVars
  <2> QED
    BY <1>0, <2>1, <2>2, <2>3, Worker, QuietBy DEF Work
<1>15. ASSUME WrittenFails(t) PROVE Quiet(t)
  <2>1. pc[t] \in {"body", "seal", "failed"} /\ pc' = Set(pc, t, "release") /\ state' = state
    BY <1>15 DEF WrittenFails, Return
  <2>2. UNCHANGED <<regLock, registry, issued, refs, handle, op, cur, inp>>
    BY <1>15 DEF WrittenFails, Return, sharedVars
  <2> QED
    BY <2>1, <2>2, QuietBy DEF Work
<1>16. ASSUME ClosureReads(t) \/ ClosureOpens(t) PROVE Quiet(t)
  <2>1. pc[t] = "body" /\ state' = state
    BY <1>16 DEF ClosureReads, ClosureOpens, At, sessionVars
  <2>2. PICK p \in {"input", "open"} :
          pc' = Set(pc, t, p) /\ (p = "open" => inp[t] = None) /\ (p = "input" => inp[t] # None)
    BY <1>16 DEF ClosureReads, ClosureOpens, Goto
  <2>3. UNCHANGED <<regLock, registry, issued, refs, handle, op, cur, inp>>
    BY <1>16 DEF ClosureReads, ClosureOpens, Goto, sharedVars, sessionVars
  <2> QED
    BY <2>1, <2>2, <2>3, QuietBy DEF Work
<1> QED
  BY <1>1, <1>2, <1>3, <1>4, <1>5, <1>6, <1>7, <1>8, <1>9, <1>10, <1>11, <1>12, <1>13,
     <1>14, <1>15, <1>16

-------------------------------------------------------------------------------
(* The other steps.                                                         *)

LEMMA RegInit == Init => RegInv
BY SessionAssumption
   DEF Init, RegInv, RegTypes, LockInv, HandleInv, EntryInv, HoldInv, Live, Work

(* Pruning keeps the entry of every live session that has one.              *)
LEMMA PrunedKeeps ==
  ASSUME RegInv
  PROVE  /\ Pruned \in [Handles -> Sessions \cup {None}]
         /\ \A h \in Handles : Pruned[h] \in {registry[h], None}
         /\ \A s \in Sessions : Live(s) /\ ~Reused(s) => Pruned[handle[s]] = s
BY SessionAssumption DEF RegInv, RegTypes, EntryInv, HandleInv, Pruned, Resolves, Live

LEMMA AdmitStep ==
  ASSUME RegInv, NEW t \in Threads, NEW i \in Sessions \cup {None}, NEW what,
         NewAdmit(t, what, i)
  PROVE  RegInv'
<1> USE DEF RegInv, RegTypes, Start, Set
<1>1. /\ pc[t] = "idle" /\ regLock = None /\ registry' = Pruned
      /\ cur' = [cur EXCEPT ![t] = None] /\ inp' = [inp EXCEPT ![t] = i]
      /\ op' = [op EXCEPT ![t] = what]
      /\ UNCHANGED <<state, handle, issued>>
  BY DEF NewAdmit, RegistryFree
<1>2. \/ pc' = [pc EXCEPT ![t] = "release"] /\ regLock' = None
      \/ pc' = [pc EXCEPT ![t] = "alloc"] /\ regLock' = t
  BY DEF NewAdmit, RegistryFree
<1>3. /\ refs' \in [Sessions -> SUBSET (Threads \cup {Foreign})]
      /\ \A s \in Sessions :
           /\ refs[s] \subseteq refs'[s] /\ refs'[s] \subseteq refs[s] \cup {t}
           /\ t \in refs'[s] \ refs[s] => s = i
           /\ s = i => t \in refs'[s]
           /\ Live(s) <=> Live(s)'
  BY SessionAssumption DEF NewAdmit, Lend, Live
<1>4. RegTypes'
  BY <1>1, <1>2, <1>3, PrunedKeeps
<1>5. LockInv'
  BY <1>1, <1>2, SessionAssumption DEF LockInv
<1>6. HandleInv'
  BY <1>1, PrunedKeeps DEF HandleInv
<1>7. EntryInv'
  BY <1>1, <1>3, PrunedKeeps, EntryKept DEF EntryInv
<1>8. HoldInv'
  <2> SUFFICES ASSUME NEW r \in Threads
               PROVE  /\ \A s \in Sessions : r \in refs'[s] => s \in {cur'[r], inp'[r]} /\ pc'[r] # "idle"
                      /\ pc'[r] = "alloc" => cur'[r] = None
                      /\ pc'[r] \in {"open", "nested"} => inp'[r] = None
                      /\ pc'[r] \in Work => cur'[r] \in Sessions /\ r \in refs'[cur'[r]]
                      /\ pc'[r] \in Work \cup {"alloc"} /\ inp'[r] # None => r \in refs'[inp'[r]]
                      /\ pc'[r] = "input" => inp'[r] # None
                      /\ pc'[r] \in {"read_body", "reenter"} => Source(r)' # None
                      /\ pc'[r] \in {"drop", "drop_fields"} =>
                           cur'[r] \in Sessions /\ ~Live(cur[r])' /\ handle'[cur'[r]] # None
    BY DEF HoldInv
  <2>1. CASE r = t
    BY <1>1, <1>2, <1>3, <2>1, SessionAssumption DEF HoldInv, Work
  <2>2. CASE r # t
    <3>1. /\ pc'[r] = pc[r] /\ cur'[r] = cur[r] /\ inp'[r] = inp[r] /\ op'[r] = op[r]
          /\ handle' = handle
      BY <1>1, <1>2, <2>2
    <3>2. \A s \in Sessions : r \in refs'[s] <=> r \in refs[s]
      BY <1>3, <2>2
    <3>3. Source(r)' = Source(r)
      BY <3>1 DEF Source
    <3>4. cur[r] \in Sessions => (Live(cur[r])' <=> Live(cur[r]))
      BY <1>3, <3>1 DEF Live
    <3> QED
      BY <3>1, <3>2, <3>3, <3>4 DEF HoldInv
  <2> QED
    BY <2>1, <2>2
<1> QED
  BY <1>4, <1>5, <1>6, <1>7, <1>8

LEMMA NestedStep ==
  ASSUME RegInv, NEW t \in Threads, NestedNew(t)
  PROVE  RegInv'
<1> USE DEF RegInv, RegTypes, Set
<1>1. /\ pc[t] = "open" /\ inp[t] = None /\ regLock = None /\ registry' = Pruned
      /\ UNCHANGED <<state, issued, handle, refs, op, cur, inp>>
  BY DEF NestedNew, RegistryFree, At, Goto, sessionVars, HoldInv
<1>2. \/ pc' = [pc EXCEPT ![t] = "failed"] /\ regLock' = None
      \/ pc' = [pc EXCEPT ![t] = "nested"] /\ regLock' = t
  BY DEF NestedNew, RegistryFree, Goto
<1>3. RegTypes' /\ LockInv'
  BY <1>1, <1>2, PrunedKeeps, SessionAssumption DEF LockInv
<1>4. HandleInv' /\ EntryInv'
  BY <1>1, PrunedKeeps, EntryKept DEF HandleInv, EntryInv, Live
<1>5. HoldInv'
  BY <1>1, <1>2 DEF HoldInv, Work, Source, Live
<1> QED
  BY <1>3, <1>4, <1>5

(* The id of a new session is that of no other one that still has its entry.*)
LEMMA UnusedIsNew ==
  ASSUME RegInv, NEW h \in Draws, Unused(h)
  PROVE  /\ h \in Handles /\ registry[h] = None /\ h # None
         /\ \A s \in Sessions : Live(s) /\ ~Reused(s) => handle[s] # h
BY SessionAssumption DEF Draws, Unused, RegInv, RegTypes, EntryInv

LEMMA InsertStep ==
  ASSUME RegInv, NEW t \in Threads, NEW s \in Sessions, NEW h \in Draws, NewInsert(t, s, h)
  PROVE  RegInv'
<1> USE DEF RegInv, RegTypes, Set
<1>1. /\ h \in Handles /\ registry[h] = None /\ h # None
      /\ \A r \in Sessions : Live(r) /\ ~Reused(r) => handle[r] # h
  <2> HIDE DEF RegInv
  <2> QED
    BY UnusedIsNew DEF NewInsert
<1>2. /\ pc[t] \in {"alloc", "nested"} /\ regLock = t /\ regLock' = None
      /\ state' = [state EXCEPT ![s] = "Empty"]
      /\ handle' = [handle EXCEPT ![s] = h] /\ registry' = [registry EXCEPT ![h] = s]
  BY DEF NewInsert, Drawing, LockInv
<1>3. handle[s] = None /\ refs[s] = {}
  BY DEF NewInsert, HandleInv, EntryInv, Live
<1>4. \/ /\ refs' = [refs EXCEPT ![s] = {Foreign}] /\ UNCHANGED <<cur, inp>>
         /\ pc' = [pc EXCEPT ![t] = "release"]
      \/ /\ refs' = [refs EXCEPT ![s] = {t}] /\ UNCHANGED inp /\ pc[t] = "alloc"
         /\ pc' = [pc EXCEPT ![t] = "lock"] /\ cur' = [cur EXCEPT ![t] = s]
      \/ /\ refs' = [refs EXCEPT ![s] = {t}] /\ UNCHANGED cur /\ pc[t] = "nested"
         /\ pc' = [pc EXCEPT ![t] = "body"] /\ inp' = [inp EXCEPT ![t] = s]
  BY DEF NewInsert, Return
<1>5. UNCHANGED op /\ issued' \subseteq issued \cup {h}
  BY DEF NewInsert, Return
<1>6. RegTypes'
  BY <1>1, <1>2, <1>4, <1>5
<1>7. LockInv'
  BY <1>2, <1>4, SessionAssumption DEF LockInv
<1>8. HandleInv'
  BY <1>1, <1>2, <1>3, SessionAssumption DEF HandleInv
<1>9. EntryInv'
  <2> SUFFICES ASSUME NEW r \in Sessions, Live(r)'
               PROVE  handle'[r] # None /\ (~Reused(r)' => registry'[handle'[r]] = r)
    BY DEF EntryInv
  <2>1. CASE r = s
    BY <1>1, <1>2, <2>1
  <2>2. CASE r # s
    <3>1. Live(r) /\ handle'[r] = handle[r] /\ handle[r] # None
      BY <1>2, <1>4, <2>2 DEF Live, EntryInv
    <3>2. Reused(r) => Reused(r)'
      BY <1>2, <1>3, <1>4, <2>2, <3>1 DEF Reused, Live
    <3> QED
      BY <1>1, <1>2, <3>1, <3>2 DEF EntryInv
  <2> QED
    BY <2>1, <2>2
<1>10. HoldInv'
  BY <1>1, <1>2, <1>3, <1>4, <1>5, SessionAssumption DEF HoldInv, Work, Source, Live
<1> QED
  BY <1>6, <1>7, <1>8, <1>9, <1>10

(* What only moves a thread out of `new`, or not at all.                    *)
LEMMA DrawStep ==
  ASSUME RegInv, NEW t \in Threads, (\E h \in Draws : NewRedraw(t, h)) \/ NewFails(t)
  PROVE  RegInv'
<1> USE DEF RegInv, RegTypes, Set
<1>1. CASE \E h \in Draws : NewRedraw(t, h)
  BY <1>1, EntryKept DEF NewRedraw, sessionVars, threadVars, LockInv, HandleInv, HoldInv, Live,
     Source
<1>2. CASE NewFails(t)
  <2>1. /\ pc[t] \in {"alloc", "nested"} /\ regLock = t /\ regLock' = None
        /\ UNCHANGED <<registry, issued, handle, state, refs, op, cur, inp>>
    BY <1>2 DEF NewFails, Goto, Return, sessionVars, LockInv
  <2>2. \/ pc' = [pc EXCEPT ![t] = "release"]
        \/ pc[t] = "nested" /\ pc' = [pc EXCEPT ![t] = "failed"]
    BY <1>2 DEF NewFails, Goto, Return
  <2>3. (RegTypes /\ LockInv)'
    BY <2>1, <2>2, SessionAssumption DEF LockInv
  <2>4. (HandleInv /\ EntryInv)'
    BY <2>1, EntryKept DEF HandleInv, Live
  <2>5. HoldInv'
    BY <2>1, <2>2 DEF HoldInv, Work, Source, Live
  <2> QED
    BY <2>3, <2>4, <2>5
<1> QED
  BY <1>1, <1>2

(* A call begins on one session at most, of which t becomes a holder only   *)
(* if somebody else is one.                                                 *)
LEMMA BeginStep ==
  ASSUME RegInv, NEW t \in Threads, NEW s \in Sessions \cup {None}, NEW what,
         NEW where \in {"lock", "release"},
         Start(t, what, where, s, None),
         \/ s = None /\ where = "release" /\ UNCHANGED refs
         \/ s \in Sessions /\ Live(s) /\ refs' = [refs EXCEPT ![s] = @ \cup {t}],
         UNCHANGED <<regLock, registry, issued, state, handle>>
  PROVE  RegInv'
<1> USE DEF RegInv, RegTypes, Start, Set
<1>1. /\ pc[t] = "idle" /\ pc' = [pc EXCEPT ![t] = where]
      /\ cur' = [cur EXCEPT ![t] = s] /\ inp' = [inp EXCEPT ![t] = None]
      /\ op' = [op EXCEPT ![t] = what]
  OBVIOUS
<1>2. /\ refs' \in [Sessions -> SUBSET (Threads \cup {Foreign})]
      /\ \A r \in Sessions :
           /\ refs[r] \subseteq refs'[r] /\ refs'[r] \subseteq refs[r] \cup {t}
           /\ t \in refs'[r] \ refs[r] => r = s
           /\ r = s => t \in refs'[r]
           /\ Live(r) <=> Live(r)'
  BY SessionAssumption DEF Live
<1>3. (RegTypes /\ LockInv /\ HandleInv /\ EntryInv)'
  BY <1>1, <1>2, EntryKept, SessionAssumption DEF LockInv, HandleInv
<1>4. HoldInv'
  <2> SUFFICES ASSUME NEW r \in Threads
               PROVE  /\ \A q \in Sessions : r \in refs'[q] => q \in {cur'[r], inp'[r]} /\ pc'[r] # "idle"
                      /\ pc'[r] = "alloc" => cur'[r] = None
                      /\ pc'[r] \in {"open", "nested"} => inp'[r] = None
                      /\ pc'[r] \in Work => cur'[r] \in Sessions /\ r \in refs'[cur'[r]]
                      /\ pc'[r] \in Work \cup {"alloc"} /\ inp'[r] # None => r \in refs'[inp'[r]]
                      /\ pc'[r] = "input" => inp'[r] # None
                      /\ pc'[r] \in {"read_body", "reenter"} => Source(r)' # None
                      /\ pc'[r] \in {"drop", "drop_fields"} =>
                           cur'[r] \in Sessions /\ ~Live(cur[r])' /\ handle'[cur'[r]] # None
    BY DEF HoldInv
  <2>1. CASE r = t
    BY <1>1, <1>2, <2>1, SessionAssumption DEF HoldInv, Work
  <2>2. CASE r # t
    <3>1. /\ pc'[r] = pc[r] /\ cur'[r] = cur[r] /\ inp'[r] = inp[r] /\ op'[r] = op[r]
          /\ handle' = handle
      BY <1>1, <2>2
    <3>2. \A q \in Sessions : r \in refs'[q] <=> r \in refs[q]
      BY <1>2, <2>2
    <3>3. Source(r)' = Source(r)
      BY <3>1 DEF Source
    <3>4. cur[r] \in Sessions => (Live(cur[r])' <=> Live(cur[r]))
      BY <1>2, <3>1 DEF Live
    <3> QED
      BY <3>1, <3>2, <3>3, <3>4 DEF HoldInv
  <2> QED
    BY <2>1, <2>2
<1> QED
  BY <1>3, <1>4

LEMMA CallSteps ==
  ASSUME RegInv, NEW t \in Threads,
         \/ FillCall(t) \/ TakeCall(t)
         \/ \E s \in Sessions, what \in {"read_once", "obliviate", "is_consumed"} :
              CallMethod(t, what, s)
  PROVE  RegInv'
<1>1. ASSUME NEW what, NullPointer(t, what) PROVE RegInv'
  BY <1>1, BeginStep DEF NullPointer, sharedVars, sessionVars
<1>2. ASSUME NEW what, NEW h \in issued, Lookup(t, what, h) PROVE RegInv'
  <2>1. UNCHANGED <<regLock, registry, issued, state, handle>>
    BY <1>2 DEF Lookup, sharedVars
  <2>2. CASE /\ Resolves(h) /\ Start(t, what, "lock", registry[h], None)
             /\ refs' = [refs EXCEPT ![registry[h]] = @ \cup {t}]
    <3>1. registry[h] \in Sessions /\ Live(registry[h])
      BY <1>2, <2>2 DEF Resolves, RegInv, RegTypes, Lookup
    <3> QED
      BY <2>1, <2>2, <3>1, BeginStep
  <2>3. CASE Start(t, what, "release", None, None) /\ UNCHANGED refs
    BY <2>1, <2>3, BeginStep
  <2> QED
    BY <1>2, <2>2, <2>3 DEF Lookup
<1>3. ASSUME NEW s \in Sessions, NEW what, CallMethod(t, what, s) PROVE RegInv'
  <2>1. Live(s)
    BY <1>3 DEF CallMethod, Live
  <2> QED
    BY <1>3, <2>1, BeginStep DEF CallMethod, sharedVars
<1> QED
  BY <1>1, <1>2, <1>3 DEF FillCall, TakeCall

-------------------------------------------------------------------------------
(* References change hands or are given back.                               *)

LEMMA SealStep ==
  ASSUME RegInv, NEW t \in Threads, WrittenSeal(t)
  PROVE  RegInv'
<1> USE DEF RegInv, RegTypes, Set
<1> DEFINE s == cur[t]
<1>1. /\ pc[t] \in {"body", "seal"} /\ pc' = [pc EXCEPT ![t] = "release"]
      /\ state' = [state EXCEPT ![s] = "Written"]
      /\ refs' = [refs EXCEPT ![s] = (@ \ {t}) \cup {Foreign}]
      /\ issued' = issued \cup {handle[s]}
      /\ UNCHANGED <<regLock, registry, handle, op, cur, inp>>
  BY DEF WrittenSeal, Return
<1>2. s \in Sessions /\ t \in refs[s] /\ handle[s] # None
  BY <1>1 DEF HoldInv, EntryInv, Live, Work
<1>3. RegTypes' /\ LockInv'
  BY <1>1, <1>2, SessionAssumption DEF LockInv
<1>4. \A r \in Sessions : Live(r) <=> Live(r)'
  BY <1>1, <1>2 DEF Live
<1>5. HandleInv' /\ EntryInv'
  BY <1>1, <1>2, <1>4, EntryKept DEF HandleInv
<1>6. HoldInv'
  BY <1>1, <1>2, <1>4, SessionAssumption DEF HoldInv, Work, Source
<1> QED
  BY <1>3, <1>5, <1>6

LEMMA LoseStep ==
  ASSUME RegInv, NEW t \in Threads, NEW s \in Sessions, NEW who \in {t, Foreign},
         who \in refs[s], LoseRef(t, who, s),
         \/ who = Foreign /\ pc[t] = "idle"
         \/ who = t /\ pc[t] = "release" /\ UNCHANGED op
            /\ s = IF cur[t] \in Held(t) THEN cur[t] ELSE inp[t],
         UNCHANGED <<regLock, registry, issued, state, handle, inp>>,
         DOMAIN op' = Threads /\ \A r \in Threads \ {t} : op'[r] = op[r]
  PROVE  RegInv'
<1> USE DEF RegInv, RegTypes, Set
<1>1. /\ refs' = [refs EXCEPT ![s] = @ \ {who}] /\ cur' = [cur EXCEPT ![t] = s]
      /\ pc' = [pc EXCEPT ![t] = IF refs[s] = {who} THEN "drop" ELSE "release"]
  BY DEF LoseRef
<1>2. Live(s) /\ handle[s] # None
  BY DEF Live, EntryInv
<1>3. RegTypes' /\ LockInv'
  BY <1>1, SessionAssumption DEF LockInv
<1>4. HandleInv' /\ EntryInv'
  BY <1>1, EntryKept DEF HandleInv, Live
<1>5. HoldInv'
  <2> SUFFICES ASSUME NEW r \in Threads
               PROVE  /\ \A q \in Sessions : r \in refs'[q] => q \in {cur'[r], inp'[r]} /\ pc'[r] # "idle"
                      /\ pc'[r] = "alloc" => cur'[r] = None
                      /\ pc'[r] \in {"open", "nested"} => inp'[r] = None
                      /\ pc'[r] \in Work => cur'[r] \in Sessions /\ r \in refs'[cur'[r]]
                      /\ pc'[r] \in Work \cup {"alloc"} /\ inp'[r] # None => r \in refs'[inp'[r]]
                      /\ pc'[r] = "input" => inp'[r] # None
                      /\ pc'[r] \in {"read_body", "reenter"} => Source(r)' # None
                      /\ pc'[r] \in {"drop", "drop_fields"} =>
                           cur'[r] \in Sessions /\ ~Live(cur[r])' /\ handle'[cur'[r]] # None
    BY DEF HoldInv
  <2>1. CASE r = t
    <3>1. pc'[t] \in {"drop", "release"} /\ cur'[t] = s /\ inp'[t] = inp[t]
      BY <1>1
    <3>2. pc'[t] = "drop" => refs'[s] = {}
      BY <1>1
    <3>3. ASSUME NEW q \in Sessions, t \in refs'[q] PROVE q \in {s, inp[t]}
      BY <1>1, <3>3, SessionAssumption DEF HoldInv, Held
    <3> QED
      BY <1>2, <2>1, <3>1, <3>2, <3>3 DEF Work, Live
  <2>2. CASE r # t
    <3>1. /\ pc'[r] = pc[r] /\ cur'[r] = cur[r] /\ inp'[r] = inp[r] /\ op'[r] = op[r]
          /\ handle' = handle
      BY <1>1, <2>2
    <3>2. \A q \in Sessions : r \in refs'[q] <=> r \in refs[q]
      BY <1>1, <2>2, SessionAssumption
    <3>3. Source(r)' = Source(r)
      BY <3>1 DEF Source
    <3>4. cur[r] \in Sessions /\ ~Live(cur[r]) => ~Live(cur[r])'
      BY <1>1, <3>1 DEF Live
    <3> QED
      BY <3>1, <3>2, <3>3, <3>4 DEF HoldInv
  <2> QED
    BY <2>1, <2>2
<1> QED
  BY <1>3, <1>4, <1>5

LEMMA ReturnSteps ==
  ASSUME RegInv, NEW t \in Threads,
         Release(t) \/ Leave(t) \/ \E s \in Sessions : ForeignRelease(t, s)
  PROVE  RegInv'
<1> USE DEF RegInv, RegTypes
<1>1. CASE Release(t)
  <2> DEFINE s == IF cur[t] \in Held(t) THEN cur[t] ELSE inp[t]
  <2>1. s \in Sessions /\ t \in refs[s]
    BY <1>1 DEF Release, Held, HoldInv
  <2> HIDE DEF RegInv
  <2> QED
    BY <1>1, <2>1, LoseStep DEF Release, sharedVars, RegInv
<1>2. CASE Leave(t)
  <2>1. /\ pc[t] = "release" /\ Held(t) = {} /\ pc' = [pc EXCEPT ![t] = "idle"]
        /\ op' = [op EXCEPT ![t] = "none"]
        /\ cur' = [cur EXCEPT ![t] = None] /\ inp' = [inp EXCEPT ![t] = None]
        /\ UNCHANGED <<regLock, registry, issued, state, handle, refs>>
    BY <1>2 DEF Leave, Set, sharedVars, sessionVars
  <2>2. (RegTypes /\ LockInv)'
    BY <2>1, SessionAssumption DEF LockInv
  <2>3. (HandleInv /\ EntryInv)'
    BY <2>1, EntryKept DEF HandleInv, Live
  <2>4. HoldInv'
    BY <2>1 DEF HoldInv, Held, Work, Source, Live
  <2> QED
    BY <2>2, <2>3, <2>4
<1>3. ASSUME NEW s \in Sessions, ForeignRelease(t, s) PROVE RegInv'
  <2>1. /\ pc[t] = "idle" /\ Foreign \in refs[s] /\ LoseRef(t, Foreign, s)
        /\ op' = [op EXCEPT ![t] = "release"]
        /\ UNCHANGED <<regLock, registry, issued, state, handle, inp>>
    BY <1>3 DEF ForeignRelease, Set, sharedVars
  <2> HIDE DEF RegInv
  <2> QED
    BY <2>1, LoseStep DEF RegInv
<1> QED
  BY <1>1, <1>2, <1>3

LEMMA DropSteps ==
  ASSUME RegInv, NEW t \in Threads, DropSession(t) \/ DropFields(t)
  PROVE  RegInv'
<1> USE DEF RegInv, RegTypes, Set
<1> DEFINE s == cur[t]
<1>1. CASE DropSession(t)
  <2>1. /\ pc[t] = "drop" /\ pc' = [pc EXCEPT ![t] = "drop_fields"]
        /\ registry' = [registry EXCEPT ![handle[s]] = None]
        /\ UNCHANGED <<regLock, issued, state, handle, refs, op, cur, inp>>
    BY <1>1 DEF DropSession, Goto, sessionVars
  <2>2. s \in Sessions /\ ~Live(s) /\ handle[s] # None
    BY <2>1 DEF HoldInv
  <2>3. (RegTypes /\ LockInv)'
    BY <2>1, SessionAssumption DEF LockInv
  <2>4. (HandleInv /\ EntryInv)'
    <3>1. \A r \in Sessions : Live(r) /\ ~Reused(r) => handle[r] # handle[s]
      BY <2>2 DEF Reused
    <3> QED
      BY <2>1, <2>2, <3>1, EntryKept DEF HandleInv, Live
  <2>5. HoldInv'
    BY <2>1, <2>2 DEF HoldInv, Work, Source, Live
  <2> QED
    BY <2>3, <2>4, <2>5
<1>2. CASE DropFields(t)
  <2>1. /\ pc[t] = "drop_fields" /\ pc' = [pc EXCEPT ![t] = "release"]
        /\ state' = [state EXCEPT ![s] = "Dropped"]
        /\ UNCHANGED <<regLock, registry, issued, handle, refs, op, cur, inp>>
    BY <1>2 DEF DropFields, Goto, sharedVars
  <2>2. s \in Sessions /\ ~Live(s) /\ handle[s] # None
    BY <2>1 DEF HoldInv
  <2>3. (RegTypes /\ LockInv)'
    BY <2>1, SessionAssumption DEF LockInv
  <2>4. (HandleInv /\ EntryInv)'
    BY <2>1, <2>2, EntryKept DEF HandleInv, Live
  <2>5. HoldInv'
    BY <2>1, <2>2 DEF HoldInv, Work, Source, Live
  <2> QED
    BY <2>3, <2>4, <2>5
<1> QED
  BY <1>1, <1>2

-------------------------------------------------------------------------------
(* All of them.                                                             *)

LEMMA RegNext == RegInv /\ [Next]_vars => RegInv'
<1> SUFFICES ASSUME RegInv, [Next]_vars PROVE RegInv'
  OBVIOUS
<1>1. ASSUME NEW t \in Threads, Begin(t) PROVE RegInv'
  <2>1. ASSUME NEW what, NEW i \in Sessions \cup {None}, NewAdmit(t, what, i) PROVE RegInv'
    BY <2>1, AdmitStep
  <2>2. CASE ClosureReads(t) \/ ClosureOpens(t) \/ CallBack(t)
    BY <2>2, QuietSteps, QuietStep
  <2>4. CASE \E s \in Sessions : ForeignRelease(t, s)
    BY <2>4, ReturnSteps
  <2>5. CASE \/ FillCall(t) \/ TakeCall(t)
             \/ \E s \in Sessions, what \in {"read_once", "obliviate", "is_consumed"} :
                  CallMethod(t, what, s)
    BY <2>5, CallSteps
  <2> QED
    BY <1>1, <2>1, <2>2, <2>4, <2>5 DEF Begin
<1>2. ASSUME NEW t \in Threads, Step(t) PROVE RegInv'
  <2>1. CASE (\E h \in Draws : NewRedraw(t, h)) \/ NewFails(t)
    BY <2>1, DrawStep
  <2>2. CASE \E h \in Draws, s \in Sessions : NewInsert(t, s, h)
    BY <2>2, InsertStep
  <2>7. CASE NestedNew(t)
    BY <2>7, NestedStep
  <2>3. CASE WrittenSeal(t)
    BY <2>3, SealStep
  <2>4. CASE Release(t) \/ Leave(t)
    BY <2>4, ReturnSteps
  <2>5. CASE DropSession(t) \/ DropFields(t)
    BY <2>5, DropSteps
  <2>6. CASE \/ TakeOut(t) \/ PutBack(t) \/ TakeCopy(t)
             \/ \E ok \in BOOLEAN : FillWrite(t, ok) \/ TakeFinish(t, ok)
             \/ \E error \in DOMAIN TakeCode : TakeRefused(t, error)
             \/ IsConsumed(t) \/ Obliviate(t)
             \/ ReadLock(t) \/ ReadUnready(t) \/ CallBackLock(t)
             \/ \E ran, ok \in BOOLEAN : ReadBody(t, ran, ok)
             \/ WrittenLock(t) \/ WrittenFails(t)
    BY <2>6, QuietSteps, QuietStep
  <2> QED
    BY <1>2, <2>1, <2>2, <2>3, <2>4, <2>5, <2>6, <2>7 DEF Step
<1>3. CASE UNCHANGED vars
  BY <1>3 DEF vars, sharedVars, sessionVars, threadVars, RegInv, RegTypes, LockInv, HandleInv,
              EntryInv, HoldInv, Live, Reused, Work, Source
<1> QED
  BY <1>1, <1>2, <1>3 DEF Next

(* The registry, the handles, the references and where each thread is agree *)
(* with each other, whatever the interleaving: who is in the second half of *)
(* `new` has the lock, an entry names a session that has its handle, a live *)
(* session has its entry unless its id recurred after the session that had  *)
(* it was given up, and a thread's strong references are those it took.     *)
THEOREM RegInvariant == Safety => []RegInv
BY RegInit, RegNext, PTL DEF Safety

(* As long as somebody holds a session its handle reaches it, whatever is   *)
(* pruned, dropped, drawn and inserted meanwhile, unless its own id recurred*)
(* after the session that had it was given up: a Drop that is late can then *)
(* take the entry, and that is the only way to lose it.                     *)
THEOREM LiveIsRegisteredHolds == Safety => []LiveIsRegistered
<1>1. RegInv => LiveIsRegistered
  BY DEF RegInv, EntryInv, LiveIsRegistered
<1> QED
  BY <1>1, RegInvariant, PTL

-------------------------------------------------------------------------------
(* The cap.                                                                 *)

LEMMA LiveFinite ==
  /\ IsFiniteSet(LiveSet) /\ Cardinality(LiveSet) \in Nat
  /\ IsFiniteSet(LiveSet') /\ Cardinality(LiveSet') \in Nat
<1>1. LiveSet \in SUBSET Sessions /\ LiveSet' \in SUBSET Sessions
  BY DEF LiveSet
<1>2. IsFiniteSet(LiveSet) /\ IsFiniteSet(LiveSet')
  BY <1>1, FS_Subset, SessionAssumption
<1> QED
  BY <1>2, FS_CardinalityType

(* Below the cap after pruning, there is room: no two sessions that count   *)
(* are found under one entry.                                               *)
LEMMA RoomBelowCap ==
  ASSUME RegInv, ~AtCap
  PROVE  Cardinality(LiveSet) < MaxActiveSessions
<1> DEFINE E == Registered(Pruned)
           f == [s \in LiveSet |-> handle[s]]
<1>1. \A s \in LiveSet : s \in Sessions /\ handle[s] \in E
  BY PrunedKeeps, SessionAssumption DEF RegInv, RegTypes, EntryInv, LiveSet, Registered
<1>2. f \in [LiveSet -> E]
  BY <1>1
<1>3. \A r, s \in LiveSet : f[r] = f[s] => r = s
  BY <1>1, PrunedKeeps DEF LiveSet
<1> HIDE DEF f, E
<1>4. f \in Injection(LiveSet, E)
  <2>1. DOMAIN f = LiveSet
    BY <1>2
  <2> QED
    BY <1>2, <1>3, <2>1 DEF Injection, IsInjective
<1>5. IsFiniteSet(E) /\ Cardinality(E) \in Nat
  <2> DEFINE g == [h \in E |-> Pruned[h]]
  <2>1. \A h \in E : Pruned[h] \in Sessions /\ handle[Pruned[h]] = h
    BY PrunedKeeps DEF E, Registered, RegInv, HandleInv
  <2>2. g \in [E -> Sessions]
    BY <2>1
  <2>3. \A h, k \in E : g[h] = g[k] => h = k
    BY <2>1
  <2> HIDE DEF g
  <2>4. g \in Injection(E, Sessions)
    <3>1. DOMAIN g = E
      BY <2>2
    <3> QED
      BY <2>2, <2>3, <3>1 DEF Injection, IsInjective
  <2> QED
    BY <2>4, FS_Injection, FS_CardinalityType, SessionAssumption
<1>6. Cardinality(LiveSet) <= Cardinality(E)
  BY <1>4, <1>5, FS_Injection, LiveFinite
<1> QED
  BY <1>5, <1>6, LiveFinite, SessionAssumption DEF AtCap, E

(* Enough for a step to respect the cap: no session comes to life, and the  *)
(* lock goes to nobody who has not found room.                              *)
LEMMA NoNewLive ==
  ASSUME RegInv, CapInv, UNCHANGED handle, \A s \in Sessions : Live(s)' => Live(s),
         regLock' # None => regLock # None \/ ~AtCap
  PROVE  CapInv'
<1>1. LiveSet' \in SUBSET LiveSet
  BY ReusedStays DEF LiveSet
<1>2. Cardinality(LiveSet') <= Cardinality(LiveSet)
  BY <1>1, FS_Subset, LiveFinite
<1>3. ~AtCap => Cardinality(LiveSet) < MaxActiveSessions
  BY RoomBelowCap
<1> QED
  BY <1>2, <1>3, LiveFinite, SessionAssumption DEF CapInv

LEMMA CapInsert ==
  ASSUME RegInv, CapInv, NEW t \in Threads, NEW s \in Sessions, NEW h \in Draws,
         NewInsert(t, s, h)
  PROVE  CapInv'
<1>1. regLock = t /\ regLock' = None
  BY DEF NewInsert, Drawing, RegInv, LockInv
<1>2. \A r \in Sessions \ {s} : refs'[r] = refs[r]
  BY DEF NewInsert, Set, RegInv, RegTypes
<1>3. LiveSet' \in SUBSET (LiveSet \cup {s})
  <2> SUFFICES ASSUME NEW r \in Sessions \ {s}, Live(r)', ~Reused(r)' PROVE Live(r) /\ ~Reused(r)
    BY DEF LiveSet
  <2>1. Live(r) /\ handle[r] # None
    BY <1>2 DEF Live, RegInv, EntryInv
  <2>2. handle[s] = None /\ \A q \in Sessions \ {s} : handle'[q] = handle[q]
    BY DEF NewInsert, Set, RegInv, RegTypes, HandleInv
  <2>3. Reused(r) => Reused(r)'
    BY <1>2, <2>1, <2>2 DEF Reused, Live
  <2> QED
    BY <2>1, <2>3
<1>4. /\ IsFiniteSet(LiveSet \cup {s})
      /\ Cardinality(LiveSet \cup {s}) <= Cardinality(LiveSet) + 1
  <2>1. /\ IsFiniteSet(LiveSet \cup {s})
        /\ Cardinality(LiveSet \cup {s})
             = IF s \in LiveSet THEN Cardinality(LiveSet) ELSE Cardinality(LiveSet) + 1
    <3>1. IsFiniteSet(LiveSet)
      BY LiveFinite
    <3> QED
      BY <3>1, FS_AddElement
  <2> QED
    BY <2>1, LiveFinite
<1>5. Cardinality(LiveSet \cup {s}) \in Nat
  BY <1>4, FS_CardinalityType
<1>6. Cardinality(LiveSet') <= Cardinality(LiveSet \cup {s})
  BY <1>3, <1>4, FS_Subset
<1>7. Cardinality(LiveSet) < MaxActiveSessions
  BY <1>1, SessionAssumption DEF CapInv
<1> QED
  BY <1>1, <1>4, <1>5, <1>6, <1>7, LiveFinite, SessionAssumption DEF CapInv

(* A call begins on a session that foreign code holds, or whose entry still *)
(* resolves.                                                                *)
LEMMA CapBegin ==
  ASSUME RegInv, CapInv, NEW t \in Threads, Begin(t)
  PROVE  CapInv'
<1> USE DEF RegInv, RegTypes, Live
<1>1. ASSUME NEW what, NEW i \in Sessions \cup {None}, NewAdmit(t, what, i) PROVE CapInv'
  <2>1. \A s \in Sessions : Live(s)' => Live(s)
    BY <1>1, SessionAssumption DEF NewAdmit, Lend
  <2>2. regLock' # None => ~AtCap
    BY <1>1 DEF NewAdmit, RegistryFree
  <2>3. UNCHANGED handle
    BY <1>1 DEF NewAdmit
  <2> QED
    BY <2>1, <2>2, <2>3, NoNewLive
<1>3. CASE ClosureReads(t) \/ ClosureOpens(t) \/ CallBack(t)
  BY <1>3, NoNewLive DEF ClosureReads, ClosureOpens, CallBack, sharedVars, sessionVars
<1>4. ASSUME NEW s \in Sessions, ForeignRelease(t, s) PROVE CapInv'
  BY <1>4, NoNewLive DEF ForeignRelease, LoseRef, sharedVars
<1>5. ASSUME NEW s \in Sessions, NEW what, CallMethod(t, what, s) PROVE CapInv'
  BY <1>5, NoNewLive DEF CallMethod, sharedVars
<1>6. ASSUME NEW what, NullPointer(t, what) PROVE CapInv'
  BY <1>6, NoNewLive DEF NullPointer, sharedVars, sessionVars
<1>7. ASSUME NEW what, NEW h \in issued, Lookup(t, what, h) PROVE CapInv'
  <2>1. UNCHANGED <<regLock, handle>>
    BY <1>7 DEF Lookup, sharedVars
  <2>2. \A s \in Sessions : Live(s)' => Live(s)
    BY <1>7 DEF Lookup, Resolves
  <2> QED
    BY <2>1, <2>2, NoNewLive
<1> QED
  BY <1>1, <1>3, <1>4, <1>5, <1>6, <1>7 DEF Begin, FillCall, TakeCall

LEMMA CapSteps ==
  ASSUME RegInv, CapInv, NEW t \in Threads, Step(t)
  PROVE  CapInv'
<1> USE DEF RegInv, RegTypes, Live, Set
<1>1. CASE (\E h \in Draws : NewRedraw(t, h)) \/ NewFails(t)
  BY <1>1, NoNewLive DEF NewRedraw, NewFails, sessionVars
<1>1a. CASE NestedNew(t)
  BY <1>1a, NoNewLive DEF NestedNew, RegistryFree, sessionVars
<1>2. CASE \E h \in Draws, s \in Sessions : NewInsert(t, s, h)
  BY <1>2, CapInsert
<1>3. CASE WrittenSeal(t)
  <2>1. cur[t] \in Sessions /\ t \in refs[cur[t]]
    BY <1>3 DEF WrittenSeal, HoldInv, Work
  <2>2. UNCHANGED <<regLock, handle>> /\ refs' = [refs EXCEPT ![cur[t]] = (@ \ {t}) \cup {Foreign}]
    BY <1>3 DEF WrittenSeal
  <2> QED
    BY <2>1, <2>2, NoNewLive
<1>4. CASE Release(t) \/ Leave(t)
  BY <1>4, NoNewLive DEF Release, Leave, LoseRef, sharedVars, sessionVars
<1>5. CASE DropSession(t) \/ DropFields(t)
  BY <1>5, NoNewLive DEF DropSession, DropFields, sharedVars, sessionVars
<1>6. CASE \/ TakeOut(t) \/ PutBack(t) \/ TakeCopy(t)
           \/ \E ok \in BOOLEAN : FillWrite(t, ok) \/ TakeFinish(t, ok)
           \/ \E error \in DOMAIN TakeCode : TakeRefused(t, error)
           \/ IsConsumed(t) \/ Obliviate(t)
           \/ ReadLock(t) \/ ReadUnready(t) \/ CallBackLock(t)
           \/ \E ran, ok \in BOOLEAN : ReadBody(t, ran, ok)
           \/ WrittenLock(t) \/ WrittenFails(t)
  <2>1. Quiet(t)
    BY <1>6, QuietSteps
  <2> QED
    BY <2>1, NoNewLive DEF Quiet
<1> QED
  BY <1>1, <1>1a, <1>2, <1>3, <1>4, <1>5, <1>6 DEF Step

(* The registry lock is the right to one more session.                      *)
LEMMA CapAlways == Safety => []CapInv
<1>1. Init => CapInv
  <2> SUFFICES ASSUME Init PROVE CapInv
    OBVIOUS
  <2>1. LiveSet = {} /\ regLock = None
    BY DEF Init, LiveSet, Live
  <2>2. Cardinality(LiveSet) = 0
    BY <2>1, FS_EmptySet, Zenon
  <2> QED
    BY <2>1, <2>2, SessionAssumption DEF CapInv
<1>2. RegInv /\ CapInv /\ [Next]_vars => CapInv'
  <2>1. CASE UNCHANGED vars
    BY <2>1 DEF vars, sharedVars, sessionVars, CapInv, LiveSet, Live, Reused
  <2> QED
    BY <2>1, CapBegin, CapSteps DEF Next
<1> QED
  BY <1>1, <1>2, RegInvariant, PTL DEF Safety

(* Never more sessions are alive than the cap allows, although `new` looks  *)
(* at the registry long before its session is in it: the lock it keeps in   *)
(* between is what the room it found belongs to.  Left out of the count are *)
(* those whose id was that of a session given up before: `new` may miss one.*)
THEOREM CapRespectedHolds == Safety => []CapRespected
<1>1. CapInv => CapRespected
  BY DEF CapInv, LiveSet, CapRespected
<1> QED
  BY <1>1, CapAlways, PTL

================================================================================
