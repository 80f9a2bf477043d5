------------------------------ MODULE SessionTable ------------------------------
(***************************************************************************)
(* What the sessions of siegel-uniffi promise their users, with every call *)
(* taking effect in one step and no memory, mutex or handle in sight: a    *)
(* table of sessions, each a one-time secret that travels in one direction:*)
(* what foreign code filled in only Rust reads, what Rust wrote either side*)
(* may get.  A reader first claims the secret, which from then on nobody   *)
(* else can have.  A secret may outlive its last holder, to be discarded.  *)
(***************************************************************************)
EXTENDS Naturals, Sequences

CONSTANT Sessions  (* the sessions there will ever be                        *)

VARIABLES
  live,      (* the sessions somebody holds                                  *)
  phase,     (* "absent", "empty", "loaded", "claimed" or "consumed"         *)
  secret,    (* who put its secret in: "foreign", "rust", or "none"          *)
  given      (* to whom it was given, and whose it was, in order             *)

vars == <<live, phase, secret, given>>

Owners == {"foreign", "rust"}

Become(s, where, whose) ==
  /\ phase'  = [phase EXCEPT ![s] = where]
  /\ secret' = [secret EXCEPT ![s] = whose]

Give(s, to) == given' = [given EXCEPT ![s] = Append(@, <<to, secret[s]>>)]

Init ==
  /\ live = {} /\ phase = [s \in Sessions |-> "absent"]
  /\ secret = [s \in Sessions |-> "none"] /\ given = [s \in Sessions |-> <<>>]

Open(s) ==
  /\ phase[s] = "absent"
  /\ live' = live \cup {s} /\ Become(s, "empty", "none") /\ UNCHANGED given

Load(s, whose) ==
  /\ s \in live /\ phase[s] = "empty"
  /\ Become(s, "loaded", whose) /\ UNCHANGED <<live, given>>

Claim(s) ==
  /\ s \in live /\ phase[s] = "loaded"
  /\ Become(s, "claimed", secret[s]) /\ UNCHANGED <<live, given>>

(* Mutant of Read: the secret stays for another reader.                     *)
ReadKeeps(s) ==
  /\ s \in live /\ phase[s] = "claimed"
  /\ Give(s, "rust") /\ UNCHANGED <<live, phase, secret>>

Read(s) ==
  /\ s \in live /\ phase[s] = "claimed"
  /\ Give(s, "rust") /\ Become(s, "consumed", "none") /\ UNCHANGED live

Take(s) ==
  /\ s \in live /\ phase[s] = "loaded" /\ secret[s] = "rust"
  /\ Give(s, "foreign") /\ Become(s, "consumed", "none") /\ UNCHANGED live

(* Obliviated, lost to an error, or wiped after the last holder has gone.   *)
Discard(s) ==
  /\ phase[s] \in {"empty", "loaded", "claimed"}
  /\ Become(s, "consumed", "none") /\ UNCHANGED <<live, given>>

Close(s) == s \in live /\ live' = live \ {s} /\ UNCHANGED <<phase, secret, given>>

Next ==
  \E s \in Sessions :
    \/ Open(s) \/ Claim(s) \/ Read(s) \/ Take(s) \/ Discard(s) \/ Close(s)
    \/ \E whose \in Owners : Load(s, whose)

Spec == Init /\ [][Next]_vars

-------------------------------------------------------------------------------
(* Each session is a one-time secret in the sense of OneTimeSecret: the     *)
(* claim is a part of its use.                                              *)
Secret(s) ==
  INSTANCE OneTimeSecret WITH
    Values <- Owners, NoSecret <- "none",
    phase  <- IF phase[s] = "claimed" THEN "loaded" ELSE phase[s],
    secret <- secret[s],
    seen   <- [i \in DOMAIN given[s] |-> given[s][i][2]]

EverySecretIsOneTime ==
  /\ \A s \in Sessions : Secret(s)!Init
  /\ [][\A s \in Sessions : [Secret(s)!Next]_(Secret(s)!vars)]_vars

================================================================================
