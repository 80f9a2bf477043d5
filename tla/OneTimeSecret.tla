----------------------------- MODULE OneTimeSecret -----------------------------
(***************************************************************************)
(* What a Siegel promises its user, whatever the memory underneath it      *)
(* does: a secret is put in at most once, only whole, and read at most     *)
(* once; what is read is what was put in.  A secret whose memory has been  *)
(* damaged or zeroized is spoiled: it is never read, only discarded.       *)
(***************************************************************************)
EXTENDS Sequences

CONSTANTS
  Values,    (* what can be put in                                           *)
  NoSecret   (* none                                                         *)

VARIABLES
  phase,     (* "absent", "empty", "loaded", "spoiled" or "consumed"         *)
  secret,    (* what a reader would get                                      *)
  seen       (* what readers got, in order                                   *)

vars == <<phase, secret, seen>>

Init == phase = "absent" /\ secret = NoSecret /\ seen = <<>>

Open == phase = "absent" /\ phase' = "empty" /\ UNCHANGED <<secret, seen>>

Load(v) == phase = "empty" /\ phase' = "loaded" /\ secret' = v /\ UNCHANGED seen

Spoil ==
  /\ phase \in {"empty", "loaded"}
  /\ phase' = "spoiled" /\ secret' = NoSecret /\ UNCHANGED seen

Use ==
  /\ phase = "loaded"
  /\ phase' = "consumed" /\ secret' = NoSecret /\ seen' = Append(seen, secret)

Discard ==
  /\ phase \in {"empty", "loaded", "spoiled"}
  /\ phase' = "consumed" /\ secret' = NoSecret /\ UNCHANGED seen

Next == Open \/ (\E v \in Values : Load(v)) \/ Spoil \/ Use \/ Discard

Spec == Init /\ [][Next]_vars

================================================================================
