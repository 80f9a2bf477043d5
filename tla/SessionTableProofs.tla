---------------------------- MODULE SessionTableProofs ----------------------------
(***************************************************************************)
(* Proofs about SessionTable: what follows from the promise of sessions,   *)
(* and so holds of everything that implements it, for any set of sessions  *)
(* and any length of a behaviour.                                          *)
(***************************************************************************)
EXTENDS SessionTable, TLAPS

TableTypes ==
  /\ phase \in [Sessions -> {"absent", "empty", "loaded", "claimed", "consumed"}]
  /\ secret \in [Sessions -> Owners \cup {"none"}]
  /\ given \in [Sessions -> Seq(Owners \X Owners)]

(* A secret is there exactly while it can be read, and was never given      *)
(* before.                                                                  *)
SecretInv ==
  \A s \in Sessions :
    /\ phase[s] \in {"loaded", "claimed"} <=> secret[s] \in Owners
    /\ phase[s] # "consumed" => given[s] = <<>>

TableInv == TableTypes /\ SecretInv

-------------------------------------------------------------------------------
(* The table's invariant.                                                   *)

LEMMA TableInit == Init => TableInv
<1> SUFFICES ASSUME Init PROVE TableInv
  OBVIOUS
<1>1. <<>> \in Seq(Owners \X Owners)
  OBVIOUS
<1> QED
  BY <1>1 DEF Init, TableInv, TableTypes, SecretInv, Owners

LEMMA TableStep == TableInv /\ [Next]_vars => TableInv'
<1> SUFFICES ASSUME TableInv, Next PROVE TableInv'
  BY DEF TableInv, TableTypes, SecretInv, vars
<1> USE DEF TableInv, TableTypes, SecretInv, Owners, Become, Give
<1>1. ASSUME NEW s \in Sessions, Open(s) PROVE TableInv'
  BY <1>1 DEF Open
<1>2. ASSUME NEW s \in Sessions, NEW whose \in Owners, Load(s, whose) PROVE TableInv'
  BY <1>2 DEF Load
<1>3. ASSUME NEW s \in Sessions, Claim(s) PROVE TableInv'
  BY <1>3 DEF Claim
<1>4. ASSUME NEW s \in Sessions, NEW to \in Owners, phase[s] \in {"loaded", "claimed"},
             Give(s, to), Become(s, "consumed", "none")
      PROVE  TableInv'
  <2>1. <<to, secret[s]>> \in Owners \X Owners
    BY <1>4
  <2>2. Append(given[s], <<to, secret[s]>>) \in Seq(Owners \X Owners)
    BY <2>1
  <2> QED
    BY <1>4, <2>2
<1>5. ASSUME NEW s \in Sessions, Read(s) PROVE TableInv'
  BY <1>4, <1>5 DEF Read
<1>6. ASSUME NEW s \in Sessions, Take(s) PROVE TableInv'
  BY <1>4, <1>6 DEF Take
<1>7. ASSUME NEW s \in Sessions, Discard(s) PROVE TableInv'
  BY <1>7 DEF Discard
<1>8. ASSUME NEW s \in Sessions, Close(s) PROVE TableInv'
  BY <1>8 DEF Close
<1> QED
  BY <1>1, <1>2, <1>3, <1>5, <1>6, <1>7, <1>8 DEF Next

LEMMA TableInvariant == Spec => []TableInv
BY TableInit, TableStep, PTL DEF Spec

-------------------------------------------------------------------------------
(* What the promise is worth.                                               *)

(* What a step does to one session is a step of its one-time secret.        *)
LEMMA SecretStep ==
  ASSUME TableInv, Next, NEW s \in Sessions
  PROVE  [Secret(s)!Next]_(Secret(s)!vars)
<1> USE DEF TableInv, TableTypes, SecretInv, Owners, Become, Give
<1>1. SUFFICES ASSUME NEW r \in Sessions,
                      \/ Open(r) \/ Claim(r) \/ Read(r) \/ Take(r) \/ Discard(r) \/ Close(r)
                      \/ \E whose \in Owners : Load(r, whose)
               PROVE  Secret(s)!Next \/ UNCHANGED Secret(s)!vars
  BY DEF Next
<1>2. CASE r # s \/ Close(r)
  <2>1. phase'[s] = phase[s] /\ secret'[s] = secret[s] /\ given'[s] = given[s]
    BY <1>1, <1>2 DEF Open, Claim, Read, Take, Discard, Close, Load
  <2> QED
    BY <2>1 DEF Secret!vars
<1>3. CASE r = s /\ Open(s)
  <2>1. Secret(s)!Open
    BY <1>3 DEF Secret!Open, Open
  <2> QED
    BY <2>1 DEF Secret!Next
<1>4. ASSUME r = s, NEW whose \in Owners, Load(s, whose)
      PROVE  Secret(s)!Next
  <2>1. Secret(s)!Load(whose)
    BY <1>4 DEF Secret!Load, Load
  <2> QED
    BY <2>1, <1>4 DEF Secret!Next
<1>5. CASE r = s /\ Claim(s)
  BY <1>5 DEF Claim, Secret!vars
<1>6. CASE r = s /\ (Read(s) \/ Take(s))
  <2>1. PICK to \in Owners : given'[s] = Append(given[s], <<to, secret[s]>>)
    BY <1>6 DEF Read, Take
  <2>2. given[s] = <<>> /\ secret[s] \in Owners
    BY <1>6 DEF Read, Take
  <2>3. given'[s] = <<<<to, secret[s]>>>>
    BY <2>1, <2>2
  <2>4. [i \in DOMAIN given[s] |-> given[s][i][2]] = <<>>
    BY <2>2
  <2>5. [i \in DOMAIN given'[s] |-> given'[s][i][2]] = Append(<<>>, secret[s])
    BY <2>3
  <2>6. Secret(s)!Use
    BY <1>6, <2>4, <2>5 DEF Secret!Use, Read, Take
  <2> QED
    BY <2>6 DEF Secret!Next
<1>7. CASE r = s /\ Discard(s)
  <2>1. Secret(s)!Discard
    BY <1>7 DEF Secret!Discard, Discard
  <2> QED
    BY <2>1 DEF Secret!Next
<1> QED
  BY <1>1, <1>2, <1>3, <1>4, <1>5, <1>6, <1>7

(* Every session of the table is a one-time secret in the sense of          *)
(* OneTimeSecret, whatever happens to the others.                           *)
THEOREM EverySecretIsOneTimeHolds == Spec => EverySecretIsOneTime
<1>1. Init => \A s \in Sessions : Secret(s)!Init
  <2> SUFFICES ASSUME Init, NEW s \in Sessions PROVE Secret(s)!Init
    OBVIOUS
  <2>1. [i \in DOMAIN given[s] |-> given[s][i][2]] = <<>>
    BY DEF Init
  <2> QED
    BY <2>1 DEF Init, Secret!Init
<1>2. TableInv /\ [Next]_vars => [\A s \in Sessions : [Secret(s)!Next]_(Secret(s)!vars)]_vars
  <2> SUFFICES ASSUME TableInv, Next
               PROVE  \A s \in Sessions : [Secret(s)!Next]_(Secret(s)!vars)
    OBVIOUS
  <2> QED
    BY SecretStep
<1> QED
  BY <1>1, <1>2, TableInvariant, PTL DEF Spec, EverySecretIsOneTime

================================================================================
