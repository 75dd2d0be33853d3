--------------------------- MODULE KeyFilesProofs ---------------------------
(***************************************************************************)
(* Proofs about the signing key on disk, for any number of keys, starts,   *)
(* crashes and failing writes: a key that has signed is never replaced by  *)
(* a start, and a whole public key is its own.                             *)
(***************************************************************************)
EXTENDS KeyFiles, TLAPS

LEMMA InvInit == Init => IndInv
<1> SUFFICES ASSUME Init PROVE IndInv
  OBVIOUS
<1>1. TypeOK
  BY DEF Init, TypeOK, File
<1> QED BY <1>1, DistinctAssumption DEF Init, IndInv

\* The steps of one start keep the types.
LEMMA TypeStep == TypeOK /\ [Next]_vars => TypeOK'
<1> SUFFICES ASSUME TypeOK, [Next]_vars PROVE TypeOK'
  OBVIOUS
<1> USE DEF TypeOK, File
<1>1. CASE Stat
  BY <1>1 DEF Stat, Unused
<1>2. CASE WritePrivate
  <2>1. fresh \in Key \cup {None} /\ priv' = fresh
    BY <1>2 DEF WritePrivate
  <2> QED BY <1>2, <2>1 DEF WritePrivate
<1>3. CASE OpenPublic
  BY <1>3 DEF OpenPublic
<1>4. CASE WritePublic
  BY <1>4 DEF WritePublic
<1>5. CASE WriteFails
  BY <1>5 DEF WriteFails
<1>6. CASE Load
  BY <1>6 DEF Load, Loads
<1>7. CASE Crash
  BY <1>7 DEF Crash
<1>8. CASE Restart
  BY <1>8 DEF Restart
<1>9. CASE Generate
  BY <1>9 DEF Generate, Unused
<1>10. CASE UNCHANGED vars
  BY <1>10 DEF vars
<1> QED BY <1>1, <1>2, <1>3, <1>4, <1>5, <1>6, <1>7, <1>8, <1>9, <1>10 DEF Next

\* Every step keeps the inductive invariant.
LEMMA InvStep == IndInv /\ [Next]_vars => IndInv'
<1> SUFFICES ASSUME IndInv, [Next]_vars PROVE IndInv'
  OBVIOUS
<1>0. TypeOK'
  BY TypeStep DEF IndInv
<1> USE DistinctAssumption, <1>0 DEF IndInv
<1>1. CASE Stat
  <2>1. CASE generates /\ priv = None
    <3>1. signedWith = {} /\ pub = None
      BY <2>1
    <3>2. fresh' \in Key /\ priv' = Empty /\ step' = "private"
      BY <1>1, <2>1 DEF Stat, Missing, Unused
    <3> QED BY <1>1, <3>1, <3>2 DEF Stat
  <2>2. CASE ~(generates /\ priv = None)
    BY <1>1, <2>2 DEF Stat, Missing
  <2> QED BY <2>1, <2>2
<1>2. CASE WritePrivate
  BY <1>2 DEF WritePrivate
<1>3. CASE OpenPublic
  BY <1>3 DEF OpenPublic
<1>4. CASE WritePublic
  BY <1>4 DEF WritePublic
<1>5. CASE WriteFails
  BY <1>5 DEF WriteFails
<1>6. CASE Load
  BY <1>6 DEF Load, Loads
<1>7. CASE Crash
  BY <1>7 DEF Crash
<1>8. CASE Restart
  BY <1>8 DEF Restart
<1>9. CASE Generate
  <2>1. step' = "down" /\ signedWith' = {} /\ step' \notin {"private", "public", "opened"}
    BY <1>9 DEF Generate
  <2>2. priv' # None
    BY <1>9 DEF Generate, Unused
  <2>3. ~interrupted' => pub' = priv'
    BY <1>9 DEF Generate
  <2> QED BY <2>1, <2>2, <2>3
<1>10. CASE UNCHANGED vars
  BY <1>10 DEF vars
<1> QED BY <1>1, <1>2, <1>3, <1>4, <1>5, <1>6, <1>7, <1>8, <1>9, <1>10 DEF Next

\* The inductive invariant holds in every reachable state.
THEOREM Invariance == Spec => []IndInv
BY InvInit, InvStep, PTL DEF Spec

\* The variables keep their types.
THEOREM TypeCorrect == Spec => []TypeOK
<1>1. IndInv => TypeOK
  BY DEF IndInv
<1> QED BY <1>1, Invariance, PTL

\* One key signs all entries since the last --generate-keys, and a whole public
\* key is the one that verifies them, unless --generate-keys was interrupted.
THEOREM KeysDoAgree == Spec => []KeysAgree
<1>1. IndInv => KeysAgree
  BY DEF IndInv, KeysAgree
<1> QED BY <1>1, Invariance, PTL
=============================================================================
