----------------------- MODULE SessionOverSiegelProofs -----------------------
(***************************************************************************)
(* Proofs about SessionOverSiegel, for any sizes, contents and number of   *)
(* refused system calls.  Every step of a session is a step of its Siegel  *)
(* or leaves it alone, so SInv holds throughout; OverInv ties the session's*)
(* own variables to it.  From both follow what a SessionState tells of the *)
(* siegel, what siegel_take hands over, and that SessionTable is           *)
(* implemented down to the system calls.                                   *)
(***************************************************************************)
EXTENDS SessionOverSiegel, SiegelProofs

(* The size of a region that exists is one a caller asked for.              *)
SizeInv == pc = "absent" \/ size \in Sizes

(* Before there is a session: its siegel does not exist yet, is waiting for *)
(* a handle, or goes away because there was none.                           *)
NoneOk ==
  /\ state = "none" =>
       \/ siegel = "none" /\ (pc = "absent" <=> op = "none")
            /\ op \in {"none", "new", "new_written"}
       \/ siegel = "Empty" /\ pc = "idle" /\ op \in {"new", "new_written"} /\ seen = <<>>
       \/ siegel = "Dropping" /\ op \in {"new", "new_written"}
       \/ siegel = "Dropped" /\ op = "none"
  /\ siegel = "none" => state = "none"

(* The siegel is in the state, at rest, or the state says Consumed while a  *)
(* call works on it.                                                        *)
HasOk ==
  /\ state = "Empty" =>
       siegel = "Empty" /\ pc = "idle" /\ op \in {"none", "new_written", "release"}
  /\ state \in {"Filled", "Written"} =>
       /\ siegel = "Loaded" /\ pc = "idle" /\ op \in {"none", "release"} /\ seen = <<>>
       /\ owner = IF state = "Filled" THEN "foreign" ELSE "rust"
  /\ siegel = "Empty" /\ state \notin {"none", "Empty"} =>
       op \in {"fill", "new_written"} /\ pc # "idle"
  /\ siegel = "Loaded" /\ state \notin {"Filled", "Written"} =>
       op \in {"take", "read_once"} /\ pc # "idle"

GoneOk ==
  /\ siegel = "Dropping" => op # "none" /\ state \in {"none", "Consumed", "gone"}
  /\ siegel = "Dropped" =>
       \/ op = "none" /\ state \in {"none", "Consumed", "gone"}
       \/ op = "release" /\ state = "Consumed"
  /\ state = "Consumed" /\ op \in {"none", "release"} => siegel = "Dropped"
  /\ state = "gone" => siegel = "Dropped" \/ (siegel = "Dropping" /\ op = "release")
  /\ op = "obliviate" => state = "Consumed" /\ siegel = "Dropping"

(* A reader's siegel holds what was put in by whom the state said; the      *)
(* destination of a siegel_take is what its closure was given.              *)
ReaderOk ==
  /\ op \in {"take", "read_once"} =>
       call = "read_once" /\ owner \in {"foreign", "rust"} /\ siegel \in {"Loaded", "Dropping"}
  /\ op = "take" => owner = "rust" /\ ((seen = <<>> /\ dst = NoSecret) \/ seen = <<dst>>)

OverInv ==
  /\ state \in {"none", "Empty", "Filled", "Written", "Consumed", "gone"}
  /\ op \in {"none", "new", "new_written", "fill", "take", "read_once", "obliviate", "release"}
  /\ SizeInv /\ NoneOk /\ HasOk /\ GoneOk /\ ReaderOk /\ TakeHandsOver

-------------------------------------------------------------------------------
(* The siegel's invariant carries over.                                     *)

LEMMA BelowStep ==
  ASSUME Below
  PROVE  SiegelNext /\ UNCHANGED stateVars
BY DEF Below, SiegelNext, InCall

LEMMA SessionStep ==
  ASSUME SizeInv, SessionNext
  PROVE  [SiegelNext]_allVars
<1>1. CASE (\E what \in {"new", "new_written"} : OpenSession(what)) \/ Opening
  BY <1>1 DEF OpenSession, Opening, New, NewReturn, NewSeal, SiegelNext, InCall
<1>2. CASE NoHandle \/ FieldsDropped
  BY <1>2 DEF NoHandle, FieldsDropped, SiegelNext
<1>3. ASSUME NEW ok \in BOOLEAN, Fill(ok) PROVE SiegelNext
  <2>1. pc = "idle" /\ Write(size, ok)
    BY <1>3 DEF Fill, Write, Idle
  <2>2. size \in Sizes
    BY <2>1 DEF SizeInv
  <2> QED
    BY <2>1, <2>2 DEF SiegelNext
<1>4. ASSUME NEW ok \in BOOLEAN, Written(ok) \/ Stored(ok) PROVE SiegelNext
  BY <1>4 DEF Written, Stored, SiegelNext, InCall
<1>5. ASSUME NEW what, NEW ok \in BOOLEAN, Read(what, ok) PROVE SiegelNext
  BY <1>5 DEF Read, SiegelNext
<1>6. ASSUME NEW panics \in BOOLEAN, Give(panics) PROVE SiegelNext
  BY <1>6 DEF Give, SiegelNext, InCall
<1>7. CASE Obliviated \/ Dropped
  BY <1>7 DEF Obliviated, Dropped, SiegelNext, InCall
<1>8. CASE Below
  BY <1>8, BelowStep
<1>9. ASSUME NEW why, Opened \/ Released \/ Rejected(why) PROVE UNCHANGED allVars
  BY <1>9 DEF Opened, Released, Rejected
<1> QED
  BY <1>1, <1>2, <1>3, <1>4, <1>5, <1>6, <1>7, <1>8, <1>9 DEF SessionNext

LEMMA SizeStep ==
  ASSUME SizeInv, [SiegelNext]_allVars
  PROVE  SizeInv'
<1>1. [Next]_vars
  BY RegionStep DEF allVars, vars, memory
<1> USE DEF SizeInv, memory, Return
<1>2. ASSUME NEW n \in Sizes, NewMmap(n) \/ NewRejected(n) PROVE SizeInv'
  BY <1>2 DEF NewMmap, NewRejected
<1>3. CASE NewOpen \/ NewLock \/ NewSeal \/ NewAbandoned
  BY <1>3 DEF NewOpen, NewLock, NewSeal, NewAbandoned
<1>4. ASSUME NEW ok \in BOOLEAN,
             \/ VerifyCanary(ok) \/ SealBadCanary(ok) \/ OpenWrite(ok) \/ Finish(ok)
             \/ GuardDrop(ok)
      PROVE  SizeInv'
  BY <1>4 DEF VerifyCanary, SealBadCanary, OpenWrite, Finish, GuardDrop
<1>5. ASSUME NEW panics \in BOOLEAN,
             ReadClosure(panics) \/ \E v \in Contents : WriteClosure(v, panics)
      PROVE  SizeInv'
  BY <1>5 DEF ReadClosure, WriteClosure
<1>6. ASSUME NEW off \in size..DataPagesLen(size), StrayWrite(off) PROVE SizeInv'
  BY <1>6 DEF StrayWrite
<1>7. CASE Zeroize \/ Drop \/ Munmap
  BY <1>7 DEF Zeroize, Drop, Munmap
<1>8. CASE UNCHANGED vars
  BY <1>8 DEF vars
<1> QED
  BY <1>1, <1>2, <1>3, <1>4, <1>5, <1>6, <1>7, <1>8 DEF Next

-------------------------------------------------------------------------------
(* OverInv is inductive.                                                    *)

LEMMA OverStep ==
  ASSUME SInv, SInv', OverInv, SessionNext
  PROVE  OverInv'
<1> DEFINE Goal == /\ state' \in {"none", "Empty", "Filled", "Written", "Consumed", "gone"}
                   /\ op' \in {"none", "new", "new_written", "fill", "take", "read_once",
                              "obliviate", "release"}
                   /\ (NoneOk /\ HasOk /\ GoneOk /\ ReaderOk /\ TakeHandsOver)'
<1>1. SizeInv'
  BY SessionStep, SizeStep DEF OverInv
<1> SUFFICES Goal
  BY <1>1 DEF OverInv
<1> USE DEF SInv, SiegelTypeOK, SiegelErrors, NoneInv, EmptyInv, LoadedInv, GoneInv,
            OutcomeTellsUse, Writing, OverInv, NoneOk, HasOk, GoneOk, ReaderOk, TakeHandsOver,
            siegelVars, stateVars, memory, Idle, Drops, Return, Begins, Ends
<1>2. ASSUME NEW what \in {"new", "new_written"}, OpenSession(what) PROVE Goal
  <2>1. /\ siegel = "none" /\ siegel' = "none" /\ seen' = seen /\ call' = call
        /\ op = "none" /\ state = "none" /\ state' = "none" /\ dst' = dst /\ owner' = owner
        /\ \/ pc' = "absent" /\ op' = "none" /\ rc' = outcome'
           \/ pc' # "absent" /\ op' = what /\ rc' = rc
    BY <1>2 DEF OpenSession, New
  <2> QED
    BY <2>1
<1>3. ASSUME Opening PROVE Goal
  <2>1. /\ siegel = "none" /\ seen' = seen /\ call' = call
        /\ state = "none" /\ state' = "none" /\ dst' = dst /\ owner' = owner
        /\ pc # "absent" /\ op \in {"new", "new_written"}
        /\ \/ pc' = "absent" /\ op' = "none" /\ rc' = outcome'
           \/ pc' # "absent" /\ op' = op /\ rc' = rc
        /\ siegel' = "none" \/ (siegel' = "Empty" /\ pc' = "idle")
    BY <1>3 DEF Opening, New, NewReturn, NewSeal
  <2> QED
    BY <2>1
<1>4. ASSUME Opened PROVE Goal
  <2>1. UNCHANGED <<pc, siegel, seen, call, dst, owner>>
    BY <1>4 DEF Opened, allVars, vars
  <2> QED
    BY <1>4, <2>1 DEF Opened
<1>4a. ASSUME NoHandle PROVE Goal
  <2>1. /\ siegel = "Empty" /\ siegel' = "Dropping" /\ UNCHANGED <<seen, stateVars>>
        /\ state = "none"
    BY <1>4a DEF NoHandle, Obliviate
  <2> QED
    BY <2>1
<1>4b. ASSUME Released PROVE Goal
  <2>1. UNCHANGED <<pc, siegel, seen, call, dst, owner>>
    BY <1>4b DEF Released, allVars, vars
  <2> QED
    BY <1>4b, <2>1 DEF Released
<1>4c. ASSUME FieldsDropped PROVE Goal
  <2>1. /\ op = "release" /\ state' = "gone" /\ UNCHANGED <<seen, dst, owner>>
        /\ \/ siegel \in {"Empty", "Loaded"} /\ siegel' = "Dropping" /\ op' = op /\ rc' = rc
           \/ /\ state = "Consumed" /\ op' = "none" /\ rc' = "ok"
              /\ UNCHANGED <<pc, siegel, call>>
    BY <1>4c DEF FieldsDropped, Obliviate, allVars, vars
  <2> QED
    BY <2>1
<1>5. ASSUME NEW ok \in BOOLEAN, Fill(ok) PROVE Goal
  BY <1>5 DEF Fill, Write, OpenWrite
<1>6. ASSUME NEW ok \in BOOLEAN, Written(ok) PROVE Goal
  BY <1>6 DEF Written, WriteWith, OpenWrite
<1>7. ASSUME NEW ok \in BOOLEAN, Stored(ok) PROVE Goal
  <2>1. /\ siegel = "Empty" /\ seen = <<>> /\ pc = "guard"
        /\ pc' = "idle" /\ seen' = seen /\ dst' = dst
    BY <1>7 DEF Stored, WriteReturn, GuardDrop
  <2>2. state = "Consumed" /\ op \in {"fill", "new_written"}
    BY <2>1
  <2>3. \/ siegel' = "Loaded"
        \/ siegel' = "Dropping" /\ state' = state /\ owner' = owner /\ op' = op /\ rc' = rc
    BY <1>7 DEF Stored, WriteReturn
  <2>4. CASE siegel' = "Loaded"
    <3>1. /\ state' = (IF op = "fill" THEN "Filled" ELSE "Written")
          /\ owner' = (IF op = "fill" THEN "foreign" ELSE "rust")
          /\ op' = "none" /\ rc' \in {"FILL_OK", "ok"}
      BY <1>7, <2>2, <2>4 DEF Stored, Answer, FillAnswer
    <3> QED
      BY <2>1, <2>2, <2>4, <3>1
  <2> QED
    BY <2>1, <2>2, <2>3, <2>4
<1>8. ASSUME NEW what \in {"take", "read_once"}, NEW ok \in BOOLEAN, Read(what, ok) PROVE Goal
  <2>1. /\ state \in {"Filled", "Written"} /\ (what = "take" => state = "Written")
        /\ op = "none" /\ op' = what /\ state' = "Consumed" /\ call' = "read_once"
        /\ seen' = seen /\ owner' = owner /\ rc' = rc
        /\ what = "take" => dst' = NoSecret
    BY <1>8 DEF Read, Readable, ReadOnce
  <2>2. \/ siegel' = "Loaded" /\ pc' # "idle"
        \/ siegel' = "Dropping"
    BY <1>8 DEF Read, ReadOnce, VerifyCanary
  <2> QED
    BY <2>1, <2>2
<1>9. ASSUME NEW panics \in BOOLEAN, Give(panics) PROVE Goal
  <2>1. /\ pc = "reading" /\ pc' # "idle" /\ pc' # "absent" /\ siegel' = siegel /\ call' = call
        /\ state' = state /\ op' = op /\ rc' = rc /\ owner' = owner
        /\ op = "take" => dst' = data
    BY <1>9 DEF Give, ReadBody, ReadClosure, LeaveClosure
  <2>2. siegel = "Loaded" /\ seen = <<>>
    BY <2>1
  <2>3. seen' = Append(<<>>, data)
    BY <1>9, <2>2 DEF Give, ReadBody
  <2>4. seen' = <<data>>
    BY <2>3
  <2> QED
    BY <2>1, <2>2, <2>4
<1>10. ASSUME Obliviated PROVE Goal
  BY <1>10 DEF Obliviated, Obliviate, Drop, Wipe
<1>11. ASSUME Below PROVE Goal
  <2>0. UNCHANGED stateVars
    BY <1>11 DEF Below
  <2> DEFINE Under == /\ pc \notin {"absent", "open", "lock", "seal"}
                      /\ siegel \in {"Empty", "Loaded", "Dropping"}
                      /\ (pc = "idle" => siegel = "Dropping")
                      /\ (siegel' = siegel /\ pc' # "idle") \/ siegel' = "Dropping"
                      /\ seen' = seen /\ call' = call
  <2>1. ASSUME NEW v \in Contents, NEW how \in {"ok", "err", "panic"}, WriteBody(v, how)
        PROVE  Under
    BY <2>1 DEF WriteBody, WriteClosure, LeaveClosure
  <2>2. ASSUME NEW off \in size..DataPagesLen(size), Overrun(off) PROVE Under
    BY <2>2 DEF Overrun, StrayWrite
  <2>3. ASSUME NEW ok \in BOOLEAN, Reseal(ok) PROVE Under
    BY <2>3 DEF Reseal, Finish
  <2>4. ASSUME NEW ok \in BOOLEAN, ReadRefused(ok) PROVE Under
    BY <2>4 DEF ReadRefused, SealBadCanary
  <2>5. ASSUME NEW ok \in BOOLEAN, ReadReturn(ok) PROVE Under
    BY <2>5 DEF ReadReturn, GuardDrop
  <2>6. ASSUME DropRegion PROVE Under
    BY <2>6 DEF DropRegion, Drop, Wipe
  <2>7. Under
    BY <1>11, <2>1, <2>2, <2>3, <2>4, <2>5, <2>6 DEF Below
  <2>8. op # "none" /\ state \in {"none", "Consumed", "gone"}
    BY <2>7
  <2> QED
    BY <2>0, <2>7, <2>8
<1>12. ASSUME Dropped PROVE Goal
  <2>1. /\ siegel = "Dropping" /\ siegel' = "Dropped" /\ pc' = "absent" /\ call' = "none"
        /\ seen' = seen /\ op' = "none" /\ owner' = owner
        /\ rc' = (IF state = "none" THEN "HandleAllocationFailed" ELSE Answer(op, outcome))
        /\ state' = (IF op = "new_written" /\ state # "none" THEN "gone" ELSE state)
    BY <1>12 DEF Dropped, Unmap, Munmap
  <2>2. op # "none" /\ state \in {"none", "Consumed", "gone"}
    BY <2>1
  <2>3. TakeHandsOver'
    <3>1. CASE op = "take"
      <4>1. call = "read_once" /\ (seen = <<>> \/ seen = <<dst>>)
        BY <3>1
      <4>2. rc' \in {"TAKE_OK", "TAKE_ERR_CANARY", "TAKE_ERR_PROTECTION"}
              /\ (rc' = "TAKE_OK" <=> outcome = "ok")
        BY <2>1, <3>1 DEF Answer, TakeAnswer
      <4>3. outcome # "ok" => dst' = Zero
        BY <1>12, <3>1 DEF Dropped
      <4>4. outcome = "ok" => dst' = dst /\ seen = <<dst>>
        BY <1>12, <2>1, <3>1, <4>1 DEF Dropped
      <4> QED
        BY <2>1, <4>2, <4>3, <4>4
    <3>2. CASE op # "take"
      <4>1. rc' \notin {"TAKE_OK", "TAKE_ERR_CANARY", "TAKE_ERR_PROTECTION",
                        "TAKE_ERR_WRONG_STATE", "TAKE_ERR_LEN_MISMATCH"}
        BY <2>1, <3>2 DEF Answer, FillAnswer
      <4> QED
        BY <4>1
    <3> QED
      BY <3>1, <3>2
  <2> QED
    BY <2>1, <2>2, <2>3
<1>13. ASSUME NEW why \in Rejections, Rejected(why) PROVE Goal
  BY <1>13 DEF Rejected, Rejections, allVars, vars
<1> QED
  BY <1>2, <1>3, <1>4, <1>4a, <1>4b, <1>4c, <1>5, <1>6, <1>7, <1>8, <1>9, <1>10, <1>11,
     <1>12, <1>13 DEF SessionNext

-------------------------------------------------------------------------------
(* Both invariants of a session over its siegel, in every behaviour.        *)

LEMMA OverInit == SessionInit => SInv /\ OverInv
<1> SUFFICES ASSUME SessionInit PROVE SInv /\ OverInv
  OBVIOUS
<1>1. SInv
  BY SInvInit DEF SessionInit
<1>2. pc = "absent" /\ siegel = "none" /\ seen = <<>> /\ call = "none"
  BY DEF SessionInit, SiegelInit, Init
<1> QED
  BY <1>1, <1>2 DEF SessionInit, OverInv, SizeInv, NoneOk, HasOk, GoneOk, ReaderOk, TakeHandsOver

LEMMA OverStutter ==
  ASSUME OverInv, UNCHANGED everything
  PROVE  OverInv'
BY DEF everything, allVars, vars, siegelVars, stateVars, memory, OverInv, SizeInv, NoneOk, HasOk,
       GoneOk, ReaderOk, TakeHandsOver

LEMMA OverNext == SInv /\ OverInv /\ [SessionNext]_everything => (SInv /\ OverInv)'
<1> SUFFICES ASSUME SInv, OverInv, [SessionNext]_everything PROVE (SInv /\ OverInv)'
  OBVIOUS
<1>1. [SiegelNext]_allVars
  BY SessionStep DEF OverInv, everything
<1>2. SInv'
  BY <1>1, SInvNext
<1>3. OverInv'
  BY <1>2, OverStep, OverStutter
<1> QED
  BY <1>2, <1>3

(* A session and the siegel it holds agree, step by step, in whatever order *)
(* the calls come and wherever the kernel, a closure or the canary fails.   *)
THEOREM OverInvariant == SessionSafety => [](SInv /\ OverInv)
BY OverInit, OverNext, PTL DEF SessionSafety

(* Between calls the SessionState tells the truth about the siegel and its  *)
(* mapping; a session left Consumed, dropped or never made has neither.     *)
THEOREM StateOwnsSiegelHolds == SessionSafety => []StateOwnsSiegel
<1>1. SInv /\ OverInv => StateOwnsSiegel
  <2> SUFFICES ASSUME SInv, OverInv, op = "none" PROVE StateOwnsSiegel
    BY DEF StateOwnsSiegel
  <2> USE DEF OverInv, NoneOk, HasOk, GoneOk
  <2>1. CASE state = "Empty"
    BY <2>1 DEF StateOwnsSiegel
  <2>2. CASE state \in {"Filled", "Written"}
    <3>1. siegel = "Loaded" /\ ~Exposed
      BY <2>2 DEF SInv, LoadedInv
    <3> QED
      BY <2>2, <3>1 DEF StateOwnsSiegel
  <2>3. CASE state \in {"Consumed", "gone"}
    <3>1. siegel = "Dropped" /\ pages = "Unmapped"
      BY <2>3 DEF SInv, GoneInv, IInv, PagesAtPc
    <3> QED
      BY <2>3, <3>1 DEF StateOwnsSiegel
  <2>4. CASE state = "none"
    <3>1. siegel \in {"none", "Dropped"} /\ pages = "Unmapped"
      BY <2>4 DEF SInv, NoneInv, GoneInv, IInv, PagesAtPc
    <3> QED
      BY <2>4, <3>1 DEF StateOwnsSiegel
  <2> QED
    BY <2>1, <2>2, <2>3, <2>4
<1> QED
  BY <1>1, OverInvariant, PTL

(* siegel_take reports what became of its destination: the secret its       *)
(* closure was given, zeros after any failure in the siegel, or untouched.  *)
THEOREM TakeHandsOverHolds == SessionSafety => []TakeHandsOver
<1>1. OverInv => TakeHandsOver
  BY DEF OverInv
<1> QED
  BY <1>1, OverInvariant, PTL

-------------------------------------------------------------------------------
(* SessionTable, implemented down to the system calls.                      *)

liveOf   == IF state \in {"none", "gone"} \/ op = "release" THEN {} ELSE {"it"}
secretOf == IF phaseOf \in {"loaded", "claimed"} THEN owner ELSE "none"

(* A step of the table, told by what becomes of the one session in it.      *)
LEMMA TableStutter ==
  ASSUME UNCHANGED <<liveOf, phaseOf, secretOf, given>>
  PROVE  UNCHANGED OneSession!vars
BY DEF OneSession!vars, liveOf, secretOf

LEMMA BecomeIt ==
  ASSUME NEW where, NEW whose, phaseOf' = where, secretOf' = whose
  PROVE  OneSession!Become("it", where, whose)
BY DEF OneSession!Become, secretOf

LEMMA DiscardIt ==
  ASSUME phaseOf \in {"empty", "loaded", "claimed"}, phaseOf' = "consumed",
         liveOf' = liveOf, given' = given
  PROVE  OneSession!Next
<1>1. secretOf' = "none"
  BY DEF secretOf
<1>2. OneSession!Become("it", "consumed", "none")
  BY <1>1, BecomeIt
<1>3. OneSession!Discard("it")
  BY <1>2 DEF OneSession!Discard, liveOf
<1> QED
  BY <1>3 DEF OneSession!Next

LEMMA OpenIt ==
  ASSUME phaseOf = "absent", phaseOf' = "empty", liveOf = {}, liveOf' = {"it"}, given' = given
  PROVE  OneSession!Next
<1>1. secretOf' = "none"
  BY DEF secretOf
<1>2. OneSession!Become("it", "empty", "none")
  BY <1>1, BecomeIt
<1>3. OneSession!Open("it")
  BY <1>2 DEF OneSession!Open, liveOf
<1> QED
  BY <1>3 DEF OneSession!Next

LEMMA LoadIt ==
  ASSUME phaseOf = "empty", phaseOf' = "loaded", owner' \in {"foreign", "rust"},
         liveOf = {"it"}, liveOf' = liveOf, given' = given
  PROVE  OneSession!Next
<1>1. secretOf' = owner'
  BY DEF secretOf
<1>2. OneSession!Become("it", "loaded", owner')
  BY <1>1, BecomeIt
<1>3. OneSession!Load("it", owner')
  BY <1>2 DEF OneSession!Load, liveOf
<1> QED
  BY <1>3 DEF OneSession!Next, OneSession!Owners

LEMMA ClaimIt ==
  ASSUME phaseOf = "loaded", phaseOf' = "claimed", owner' = owner,
         liveOf = {"it"}, liveOf' = liveOf, given' = given
  PROVE  OneSession!Next
<1>1. secretOf' = secretOf
  BY DEF secretOf
<1>2. OneSession!Become("it", "claimed", secretOf)
  BY <1>1, BecomeIt
<1>3. OneSession!Claim("it")
  BY <1>2 DEF OneSession!Claim, liveOf, secretOf
<1> QED
  BY <1>3 DEF OneSession!Next

LEMMA GiveIt ==
  ASSUME \/ phaseOf = "claimed" /\ given' = Append(given, <<"rust", owner>>)
         \/ phaseOf = "loaded" /\ owner = "rust" /\ given' = Append(given, <<"foreign", owner>>),
         phaseOf' = "consumed", liveOf = {"it"}, liveOf' = liveOf
  PROVE  OneSession!Next
<1>1. secretOf' = "none" /\ secretOf = owner
  BY DEF secretOf
<1>2. OneSession!Become("it", "consumed", "none")
  BY <1>1, BecomeIt
<1>3. OneSession!Read("it") \/ OneSession!Take("it")
  BY <1>1, <1>2 DEF OneSession!Read, OneSession!Take, OneSession!Give, liveOf, secretOf
<1> QED
  BY <1>3 DEF OneSession!Next

LEMMA CloseIt ==
  ASSUME liveOf = {"it"}, liveOf' = {}, phaseOf' = phaseOf, secretOf' = secretOf, given' = given
  PROVE  OneSession!Next
<1>1. OneSession!Close("it")
  BY DEF OneSession!Close, liveOf, secretOf
<1> QED
  BY <1>1 DEF OneSession!Next

(* Every step of the session is one step of the table or none.              *)
LEMMA OverTableStep ==
  ASSUME SInv, SInv', OverInv, OverInv', SessionNext
  PROVE  [OneSession!Next]_(OneSession!vars)
<1> DEFINE Goal == OneSession!Next \/ UNCHANGED <<liveOf, phaseOf, secretOf, given>>
<1> SUFFICES Goal
  BY TableStutter
<1> USE DEF SInv, SiegelTypeOK, NoneInv, EmptyInv, LoadedInv, GoneInv, Writing, OverInv, NoneOk,
            HasOk, GoneOk, ReaderOk, stateVars, siegelVars, memory, Idle, Drops, Return, Begins,
            Ends, phaseOf, liveOf, secretOf
<1>1. ASSUME (\E what \in {"new", "new_written"} : OpenSession(what)) \/ Opening \/ NoHandle
      PROVE  Goal
  <2>1. state = "none" /\ state' = "none" /\ given' = given
    BY <1>1 DEF OpenSession, Opening, NoHandle
  <2> QED
    BY <2>1
<1>2. ASSUME Opened PROVE Goal
  <2>1. siegel = "Empty" /\ siegel' = "Empty" /\ seen = <<>> /\ seen' = <<>>
          /\ state = "none" /\ state' = "Empty" /\ given' = given /\ op' # "release"
    BY <1>2 DEF Opened, allVars
  <2>2. phaseOf = "absent" /\ phaseOf' = "empty" /\ liveOf = {} /\ liveOf' = {"it"}
    BY <2>1
  <2> QED
    BY <2>1, <2>2, OpenIt
<1>2a. ASSUME Released PROVE Goal
  <2>1. /\ state \in {"Empty", "Filled", "Written", "Consumed"} /\ op = "none"
        /\ op' = "release" /\ UNCHANGED <<siegel, seen, state, owner, given>>
    BY <1>2a DEF Released, allVars
  <2>2. liveOf = {"it"} /\ liveOf' = {} /\ phaseOf' = phaseOf /\ secretOf' = secretOf
    BY <2>1
  <2> QED
    BY <2>1, <2>2, CloseIt
<1>2b. ASSUME FieldsDropped PROVE Goal
  <2>1. /\ op = "release" /\ state' = "gone" /\ given' = given
        /\ \/ siegel \in {"Empty", "Loaded"} /\ siegel' = "Dropping"
           \/ state = "Consumed" /\ siegel' = siegel
    BY <1>2b DEF FieldsDropped, Obliviate, allVars
  <2>2. liveOf = {} /\ liveOf' = {}
    BY <2>1
  <2>3. CASE siegel \in {"Empty", "Loaded"} /\ siegel' = "Dropping"
    <3>1. phaseOf \in {"empty", "loaded"} /\ phaseOf' = "consumed"
      BY <2>1, <2>3
    <3> QED
      BY <2>1, <2>2, <3>1, DiscardIt
  <2>4. CASE state = "Consumed" /\ siegel' = siegel
    BY <2>1, <2>2, <2>4
  <2> QED
    BY <2>1, <2>3, <2>4
<1>3. ASSUME NEW ok \in BOOLEAN, Fill(ok) \/ Written(ok) PROVE Goal
  <2>1. siegel = "Empty" /\ state = "Empty" /\ state' = "Consumed" /\ seen = <<>> /\ seen' = <<>>
          /\ owner' = owner /\ given' = given /\ siegel' \in {"Empty", "Dropping"}
          /\ op \in {"none", "new_written"} /\ op' \in {"fill", "new_written"}
    BY <1>3 DEF Fill, Written, Write, WriteWith
  <2>2. phaseOf = "empty" /\ liveOf = {"it"} /\ liveOf' = liveOf
    BY <2>1
  <2>3. CASE siegel' = "Empty"
    BY <2>1, <2>3
  <2>4. CASE siegel' = "Dropping"
    <3>1. phaseOf' = "consumed"
      BY <2>1, <2>4
    <3> QED
      BY <2>1, <2>2, <3>1, DiscardIt
  <2> QED
    BY <2>1, <2>3, <2>4
<1>4. ASSUME NEW ok \in BOOLEAN, Stored(ok) PROVE Goal
  <2>1. /\ siegel = "Empty" /\ seen = <<>> /\ seen' = <<>> /\ given' = given /\ pc = "guard"
        /\ \/ siegel' = "Loaded" /\ state' \in {"Filled", "Written"} /\ op' = "none"
                /\ owner' \in {"foreign", "rust"}
           \/ siegel' = "Dropping" /\ state' = state
    BY <1>4 DEF Stored, WriteReturn, GuardDrop
  <2>2. state = "Consumed"
    BY <2>1
  <2>3. phaseOf = "empty" /\ liveOf = {"it"} /\ liveOf' = liveOf
    BY <2>1, <2>2
  <2>4. CASE siegel' = "Loaded"
    <3>1. phaseOf' = "loaded" /\ owner' \in {"foreign", "rust"}
      BY <2>1, <2>4
    <3> QED
      BY <2>1, <2>3, <3>1, LoadIt
  <2>5. CASE siegel' = "Dropping"
    <3>1. phaseOf' = "consumed"
      BY <2>1, <2>2, <2>5
    <3> QED
      BY <2>1, <2>3, <3>1, DiscardIt
  <2> QED
    BY <2>1, <2>4, <2>5
<1>5. ASSUME NEW what \in {"take", "read_once"}, NEW ok \in BOOLEAN, Read(what, ok) PROVE Goal
  <2>1. /\ state \in {"Filled", "Written"} /\ state' = "Consumed" /\ op = "none" /\ op' = what
        /\ seen' = seen /\ owner' = owner /\ given' = given /\ siegel' \in {"Loaded", "Dropping"}
    BY <1>5 DEF Read, Readable, ReadOnce
  <2>2. siegel = "Loaded" /\ seen = <<>>
    BY <2>1
  <2>3. phaseOf = "loaded" /\ liveOf = {"it"} /\ liveOf' = liveOf
    BY <2>1, <2>2
  <2>4. CASE siegel' = "Dropping"
    <3>1. phaseOf' = "consumed"
      BY <2>1, <2>4
    <3> QED
      BY <2>1, <2>3, <3>1, DiscardIt
  <2>5. CASE siegel' = "Loaded" /\ what = "take"
    BY <2>1, <2>2, <2>5
  <2>6. CASE siegel' = "Loaded" /\ what = "read_once"
    <3>1. phaseOf' = "claimed"
      BY <2>1, <2>2, <2>6
    <3> QED
      BY <2>1, <2>3, <3>1, ClaimIt
  <2> QED
    BY <2>1, <2>4, <2>5, <2>6
<1>6. ASSUME NEW panics \in BOOLEAN, Give(panics) PROVE Goal
  <2>1. /\ pc = "reading" /\ state' = state /\ siegel' = siegel
        /\ given' = Append(given, <<IF op = "take" THEN "foreign" ELSE "rust", owner>>)
    BY <1>6 DEF Give, ReadBody, ReadClosure
  <2>2. siegel = "Loaded" /\ seen = <<>>
    BY <2>1
  <2>3. seen' # <<>>
    <3>1. pc' \in {"finish", "guard"}
      BY <1>6 DEF Give, ReadBody, ReadClosure, LeaveClosure
    <3> QED
      BY <2>1, <2>2, <3>1
  <2>4. state = "Consumed" /\ op \in {"take", "read_once"}
    BY <2>1, <2>2
  <2>5. phaseOf' = "consumed" /\ liveOf = {"it"} /\ liveOf' = liveOf
    BY <2>1, <2>3, <2>4
  <2>6. CASE op = "take"
    <3>1. owner = "rust" /\ phaseOf = "loaded" /\ given' = Append(given, <<"foreign", owner>>)
      BY <2>1, <2>2, <2>4, <2>6
    <3> QED
      BY <2>5, <3>1, GiveIt
  <2>7. CASE op = "read_once"
    <3>1. phaseOf = "claimed" /\ given' = Append(given, <<"rust", owner>>)
      BY <2>1, <2>2, <2>4, <2>7
    <3> QED
      BY <2>5, <3>1, GiveIt
  <2> QED
    BY <2>4, <2>6, <2>7
<1>7. ASSUME Obliviated PROVE Goal
  <2>1. /\ state \in {"Empty", "Filled", "Written"} /\ op = "none" /\ state' = "Consumed"
        /\ siegel' = "Dropping" /\ given' = given
    BY <1>7 DEF Obliviated, Obliviate
  <2>2. siegel \in {"Empty", "Loaded"} /\ seen = <<>>
    BY <2>1
  <2>3. phaseOf \in {"empty", "loaded"} /\ phaseOf' = "consumed" /\ liveOf' = liveOf
    BY <2>1, <2>2
  <2> QED
    BY <2>1, <2>3, DiscardIt
<1>8. ASSUME Below PROVE Goal
  <2>0. UNCHANGED stateVars
    BY <1>8 DEF Below
  <2>1. ASSUME NEW v \in Contents, NEW how \in {"ok", "err", "panic"}, WriteBody(v, how)
        PROVE  Goal
    BY <2>0, <2>1 DEF WriteBody
  <2>2. ASSUME NEW off \in size..DataPagesLen(size), Overrun(off) PROVE Goal
    BY <2>0, <2>2 DEF Overrun
  <2>3. ASSUME NEW ok \in BOOLEAN, Reseal(ok) PROVE Goal
    BY <2>0, <2>3 DEF Reseal
  <2>4. ASSUME NEW ok \in BOOLEAN, ReadRefused(ok) PROVE Goal
    <3>1. pc = "bad_canary" /\ siegel' = "Dropping"
      BY <2>4 DEF ReadRefused, SealBadCanary
    <3>2. siegel = "Loaded" /\ seen = <<>>
      BY <3>1
    <3>3. state = "Consumed" /\ op \in {"take", "read_once"}
      BY <3>1, <3>2
    <3>4. phaseOf \in {"loaded", "claimed"} /\ phaseOf' = "consumed" /\ liveOf' = liveOf
            /\ given' = given
      BY <2>0, <3>1, <3>2, <3>3
    <3> QED
      BY <3>4, DiscardIt
  <2>5. ASSUME NEW ok \in BOOLEAN, ReadReturn(ok) PROVE Goal
    <3>1. pc = "guard" /\ call = "read_once" /\ siegel' = "Dropping" /\ seen' = seen
      BY <2>5 DEF ReadReturn, GuardDrop
    <3>2. siegel = "Loaded" /\ seen # <<>>
      BY <3>1
    <3>3. state = "Consumed" /\ state' = "Consumed"
      BY <2>0, <3>1, <3>2
    <3>4. phaseOf = "consumed" /\ phaseOf' = "consumed"
      BY <3>1, <3>2, <3>3
    <3> QED
      BY <2>0, <3>4
  <2>6. ASSUME DropRegion PROVE Goal
    BY <2>0, <2>6 DEF DropRegion
  <2> QED
    BY <1>8, <2>1, <2>2, <2>3, <2>4, <2>5, <2>6 DEF Below
<1>9. ASSUME Dropped PROVE Goal
  <2>1. /\ siegel = "Dropping" /\ siegel' = "Dropped" /\ given' = given
        /\ state' = (IF op = "new_written" /\ state # "none" THEN "gone" ELSE state)
        /\ op' = "none" /\ state \in {"none", "Consumed", "gone"}
    BY <1>9 DEF Dropped, Unmap
  <2>2. state = "gone" => op = "release"
    BY <2>1
  <2>3. phaseOf' = phaseOf /\ secretOf = "none" /\ secretOf' = "none"
    BY <2>1
  <2>4. CASE op = "new_written" /\ state # "none"
    <3>1. liveOf = {"it"} /\ liveOf' = {}
      BY <2>1, <2>2, <2>4
    <3> QED
      BY <2>1, <2>3, <3>1, CloseIt
  <2>5. CASE op # "new_written" \/ state = "none"
    <3>1. liveOf' = liveOf
      BY <2>1, <2>2, <2>5
    <3> QED
      BY <2>1, <2>3, <3>1
  <2> QED
    BY <2>4, <2>5
<1>10. ASSUME NEW why, Rejected(why) PROVE Goal
  <2>1. op = "none" /\ op' = "none" /\ UNCHANGED <<siegel, seen, state, owner, given>>
    BY <1>10 DEF Rejected, allVars
  <2> QED
    BY <2>1
<1> QED
  BY <1>1, <1>2, <1>2a, <1>2b, <1>3, <1>4, <1>5, <1>6, <1>7, <1>8, <1>9, <1>10 DEF SessionNext

(* The session keeps the promise of SessionTable although a call takes many *)
(* steps and any of them may fail: the system calls of one call add up to   *)
(* one step of the table.                                                   *)
THEOREM KeepsTableHolds == SessionSafety => KeepsTable
<1>1. SessionInit => OneSession!Init
  BY DEF SessionInit, SiegelInit, OneSession!Init, phaseOf
<1>2. SInv /\ OverInv /\ (SInv /\ OverInv)' /\ [SessionNext]_everything
        => [OneSession!Next]_(OneSession!vars)
  <2>1. ASSUME UNCHANGED everything PROVE UNCHANGED OneSession!vars
    BY <2>1 DEF everything, allVars, siegelVars, stateVars, OneSession!vars, phaseOf
  <2> QED
    BY <2>1, OverTableStep
<1> QED
  BY <1>1, <1>2, OverInvariant, PTL DEF SessionSafety, KeepsTable, OneSession!Spec

================================================================================
