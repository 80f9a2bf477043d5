---------------------------- MODULE SessionOverSiegel ----------------------------
(***************************************************************************)
(* One SiegelSession (siegel-uniffi/src/session.rs) over the steps of the  *)
(* Siegel it holds, down to system calls: where SiegelSession lets a       *)
(* Siegel call succeed or fail as a whole, here the kernel refuses, the    *)
(* closure panics or the canary goes bad in the middle of it.  Whoever has *)
(* taken the siegel out of the state has it alone, so calls run one at a   *)
(* time.                                                                   *)
(***************************************************************************)
EXTENDS Siegel

VARIABLES
  state,  (* the SessionState; "none" before the session exists, then "gone" *)
  op,     (* the call in progress, or "none"                                 *)
  rc,     (* what the last call returned                                     *)
  dst,    (* the last siegel_take's destination; NoSecret while untouched    *)
  owner,  (* history: who put the secret in                                  *)
  given   (* history: to whom it was given, and whose it was                 *)

stateVars   == <<state, op, rc, dst, owner, given>>
everything  == <<allVars, stateVars>>

Begins(what) == op = "none" /\ op' = what

Ends(code) == op' = "none" /\ rc' = code

(* What a call that had the siegel returns: siegel_fill and siegel_take     *)
(* have codes of their own; every other SiegelError becomes the SessionError*)
(* of its name, and what a closure returned or threw is passed on.          *)
FillAnswer(why) == IF why = "ok" THEN "FILL_OK" ELSE "FILL_ERR_PROTECTION"

TakeAnswer(why) ==
  CASE why = "ok"              -> "TAKE_OK"
    [] why = "CanaryCorrupted" -> "TAKE_ERR_CANARY"
    [] OTHER                   -> "TAKE_ERR_PROTECTION"

Answer(what, why) ==
  CASE what = "fill" -> FillAnswer(why)
    [] what = "take" -> TakeAnswer(why)
    [] OTHER         -> why

-------------------------------------------------------------------------------
(* new, and the new that begins a new_written.                              *)
OpenSession(what) ==
  /\ state = "none" /\ pc = "absent"
  /\ New
  /\ IF pc' = "absent" THEN op = "none" /\ Ends(outcome') ELSE Begins(what) /\ UNCHANGED rc
  /\ UNCHANGED <<state, dst, owner, given>>

Opening ==
  /\ state = "none" /\ pc # "absent"
  /\ New \/ NewReturn
  /\ IF pc' = "absent" THEN Ends(outcome') ELSE UNCHANGED <<op, rc>>
  /\ UNCHANGED <<state, dst, owner, given>>

(* Siegel::new is done.  allocate_handle_id fails, and the siegel is dropped*)
(* before there was a session; or a session is made of it and registered.   *)
NoHandle == state = "none" /\ Obliviate /\ UNCHANGED stateVars

Opened ==
  /\ state = "none" /\ Idle("Empty")
  /\ state' = "Empty"
  /\ IF op = "new" THEN Ends("ok") ELSE UNCHANGED <<op, rc>>
  /\ UNCHANGED <<allVars, dst, owner, given>>

-------------------------------------------------------------------------------
(* siegel_fill and the rest of new_written: `Consumed` stays in the state   *)
(* unless a loaded siegel comes back.                                       *)
Fill(ok) ==
  /\ state = "Empty"
  /\ Begins("fill") /\ Write(size, ok)
  /\ state' = "Consumed"
  /\ UNCHANGED <<rc, dst, owner, given>>

Written(ok) ==
  /\ op = "new_written" /\ state = "Empty"
  /\ WriteWith(ok)
  /\ state' = "Consumed"
  /\ UNCHANGED <<op, rc, dst, owner, given>>

(* Mutant of Stored: the state is set whatever write_with returned.         *)
StoredAnyway(ok) ==
  /\ WriteReturn(ok)
  /\ state' = (IF op = "fill" THEN "Filled" ELSE "Written")
  /\ owner' = (IF op = "fill" THEN "foreign" ELSE "rust")
  /\ IF siegel' = "Loaded" THEN Ends(Answer(op, "ok")) ELSE UNCHANGED <<op, rc>>
  /\ UNCHANGED <<dst, given>>

Stored(ok) ==
  /\ WriteReturn(ok)
  /\ IF siegel' = "Loaded"
     THEN /\ state' = (IF op = "fill" THEN "Filled" ELSE "Written")
          /\ owner' = (IF op = "fill" THEN "foreign" ELSE "rust")
          /\ Ends(Answer(op, "ok"))
     ELSE UNCHANGED <<state, owner, op, rc>>
  /\ UNCHANGED <<dst, given>>

-------------------------------------------------------------------------------
(* siegel_take and read_once.                                               *)
(* Mutant of Readable: siegel_take accepts a session foreign code filled.   *)
ReadableAny(what) == {"Filled", "Written"}

Readable(what) == IF what = "take" THEN {"Written"} ELSE {"Filled", "Written"}

Read(what, ok) ==
  /\ state \in Readable(what)
  /\ Begins(what) /\ ReadOnce(ok)
  /\ state' = "Consumed"
  /\ dst' = IF what = "take" THEN NoSecret ELSE dst
  /\ UNCHANGED <<rc, owner, given>>

(* The closure of siegel_take is the copy to dst; it does not panic.        *)
Give(panics) ==
  /\ op = "take" => ~panics
  /\ ReadBody(panics)
  /\ dst' = IF op = "take" THEN data ELSE dst
  /\ given' = Append(given, <<IF op = "take" THEN "foreign" ELSE "rust", owner>>)
  /\ UNCHANGED <<state, op, rc, owner>>

Obliviated ==
  /\ state \in {"Empty", "Filled", "Written"}
  /\ Begins("obliviate") /\ Obliviate
  /\ state' = "Consumed"
  /\ UNCHANGED <<rc, dst, owner, given>>

(* A call that finds the siegel in a state it has no use for, or, in        *)
(* siegel_fill and siegel_take, of another size: it puts back what it took  *)
(* out and returns at once.  obliviate has nothing to do then.              *)
Rejections ==
  CASE state = "Empty"    -> {"FILL_ERR_LEN_MISMATCH", "TAKE_ERR_WRONG_STATE", "InvalidState"}
    [] state = "Filled"   -> {"FILL_ERR_WRONG_STATE", "TAKE_ERR_WRONG_STATE"}
    [] state = "Written"  -> {"FILL_ERR_WRONG_STATE", "TAKE_ERR_LEN_MISMATCH"}
    [] state = "Consumed" -> {"FILL_ERR_WRONG_STATE", "TAKE_ERR_WRONG_STATE",
                              "Consumed", "done"}
    [] OTHER              -> {}

Rejected(why) ==
  /\ op = "none" /\ why \in Rejections
  /\ Ends(why)
  /\ dst' = IF why \in {"TAKE_ERR_WRONG_STATE", "TAKE_ERR_LEN_MISMATCH"} THEN NoSecret ELSE dst
  /\ UNCHANGED <<allVars, state, owner, given>>

-------------------------------------------------------------------------------
(* The last Arc goes: the Drop of the session, which takes its entry out of *)
(* the registry, and then the drop of its fields.                           *)
Released ==
  /\ state \in {"Empty", "Filled", "Written", "Consumed"}
  /\ Begins("release")
  /\ UNCHANGED <<allVars, state, rc, dst, owner, given>>

FieldsDropped ==
  /\ op = "release" /\ state' = "gone"
  /\ \/ Obliviate /\ UNCHANGED <<op, rc>>
     \/ state = "Consumed" /\ Ends("ok") /\ UNCHANGED allVars
  /\ UNCHANGED <<dst, owner, given>>

-------------------------------------------------------------------------------
(* What goes on below the session, and the end of a siegel that a call has  *)
(* dropped, after which the call returns.                                   *)
Below ==
  /\ \/ \E v \in Contents, how \in {"ok", "err", "panic"} : WriteBody(v, how)
     \/ \E off \in size..DataPagesLen(size) : Overrun(off)
     \/ \E ok \in BOOLEAN : Reseal(ok) \/ ReadRefused(ok) \/ ReadReturn(ok)
     \/ DropRegion
  /\ UNCHANGED stateVars

(* Mutant of Dropped: siegel_take wipes dst only if the canary was bad.     *)
DroppedLeavesCopy ==
  /\ Unmap
  /\ Ends(IF state = "none" THEN "HandleAllocationFailed" ELSE Answer(op, outcome))
  /\ dst' = IF op = "take" /\ outcome = "CanaryCorrupted" THEN Zero ELSE dst
  /\ state' = IF op = "new_written" /\ state # "none" THEN "gone" ELSE state
  /\ UNCHANGED <<owner, given>>

(* siegel_take wipes dst on an error; a failed new_written drops the        *)
(* session, whose fields hold no siegel any more.                           *)
Dropped ==
  /\ Unmap
  /\ Ends(IF state = "none" THEN "HandleAllocationFailed" ELSE Answer(op, outcome))
  /\ dst' = IF op = "take" /\ outcome # "ok" THEN Zero ELSE dst
  /\ state' = IF op = "new_written" /\ state # "none" THEN "gone" ELSE state
  /\ UNCHANGED <<owner, given>>

-------------------------------------------------------------------------------
SessionInit ==
  /\ SiegelInit
  /\ state = "none" /\ op = "none" /\ rc = "none" /\ dst = NoSecret
  /\ owner = "none" /\ given = <<>>

SessionNext ==
  \/ \E what \in {"new", "new_written"} : OpenSession(what)
  \/ Opening \/ NoHandle \/ Opened
  \/ \E ok \in BOOLEAN : Fill(ok) \/ Written(ok) \/ Stored(ok)
  \/ \E what \in {"take", "read_once"}, ok \in BOOLEAN : Read(what, ok)
  \/ \E panics \in BOOLEAN : Give(panics)
  \/ Obliviated \/ Released \/ FieldsDropped
  \/ \E why \in Rejections : Rejected(why)
  \/ Below \/ Dropped

SessionSafety == SessionInit /\ [][SessionNext]_everything

-------------------------------------------------------------------------------
(* Properties.                                                              *)

(* Between calls the SessionState tells the truth about the siegel and its  *)
(* mapping; in particular a session left Consumed, on whatever path, has    *)
(* neither, and so has one that was dropped or that never came to be: every *)
(* error dropped the siegel and the drop unmapped it.                       *)
StateOwnsSiegel ==
  op = "none" =>
    CASE state = "Empty"                 -> siegel = "Empty"
      [] state \in {"Filled", "Written"} -> siegel = "Loaded" /\ ~Exposed
      [] state \in {"Consumed", "gone"}  -> siegel = "Dropped" /\ pages = "Unmapped"
      [] state = "none" -> siegel \in {"none", "Dropped"} /\ pages = "Unmapped"

(* siegel_take hands over exactly what its siegel gave its closure; "on     *)
(* TAKE_ERR_CANARY and TAKE_ERR_PROTECTION dst is zeroed; other errors      *)
(* leave it untouched".                                                     *)
TakeHandsOver ==
  op = "none" =>
    /\ rc = "TAKE_OK" => seen = <<dst>>
    /\ rc \in {"TAKE_ERR_CANARY", "TAKE_ERR_PROTECTION"} => dst = Zero
    /\ rc \in {"TAKE_ERR_WRONG_STATE", "TAKE_ERR_LEN_MISMATCH"} => dst = NoSecret

(* The session keeps the promise of SessionTable at this level, too: the    *)
(* system calls of one Siegel call add up to one step of the table.         *)
phaseOf ==
  IF state = "none" THEN "absent"
  ELSE IF siegel \in {"Dropping", "Dropped"} \/ seen # <<>> THEN "consumed"
  ELSE IF siegel = "Empty" THEN "empty"
  ELSE IF op = "read_once" THEN "claimed" ELSE "loaded"

OneSession == INSTANCE SessionTable WITH
  Sessions <- {"it"},
  live   <- IF state \in {"none", "gone"} \/ op = "release" THEN {} ELSE {"it"},
  phase  <- [s \in {"it"} |-> phaseOf],
  secret <- [s \in {"it"} |-> IF phaseOf \in {"loaded", "claimed"} THEN owner ELSE "none"],
  given  <- [s \in {"it"} |-> given]

KeepsTable == OneSession!Spec

================================================================================
