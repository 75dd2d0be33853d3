----------------------------- MODULE FileStore -----------------------------
(***************************************************************************)
(* What the upload directory promises to its clients, without temp files   *)
(* and renames: an upload is stored whole and in one step, in which it is  *)
(* also answered with success, or it leaves no trace under any target; it  *)
(* stays pending until it is answered or lost in a crash; and a conflict   *)
(* has a reason: the target exists, or another upload of it is under way   *)
(* or did not come to a good end.                                          *)
(***************************************************************************)
CONSTANTS Upload, Target, None

VARIABLES
    wanted,  \* the target of every upload
    content, \* what a reader finds under each target
    answer   \* what the client of each upload has been told

storeVars == <<wanted, content, answer>>

Init ==
    /\ wanted \in [Upload -> Target]
    /\ content = [t \in Target |-> None]
    /\ answer = [u \in Upload |-> "pending"]

Store(u) ==
    /\ answer[u] = "pending"
    /\ content' = [content EXCEPT ![wanted[u]] = u]
    /\ answer' = [answer EXCEPT ![u] = "stored"]
    /\ UNCHANGED wanted

Refuse(u, reason) ==
    /\ answer[u] = "pending"
    /\ answer' = [answer EXCEPT ![u] = reason]
    /\ UNCHANGED <<wanted, content>>

\* The target exists, or another upload of it is under way, was lost, or failed
\* and could not be cleared away.
Contended(u) ==
    \/ content[wanted[u]] # None
    \/ \E v \in Upload \ {u} :
          wanted[v] = wanted[u] /\ answer[v] \in {"pending", "lost", "failed"}

\* The process dies, and nobody hears of the uploads in S.
Lose(S) ==
    /\ \A u \in S : answer[u] = "pending"
    /\ answer' = [u \in Upload |-> IF u \in S THEN "lost" ELSE answer[u]]
    /\ UNCHANGED <<wanted, content>>

Next ==
    \/ \E u \in Upload :
        \/ Store(u)
        \/ \E reason \in {"refused", "failed"} : Refuse(u, reason)
        \/ Contended(u) /\ Refuse(u, "conflict")
    \/ \E S \in SUBSET Upload : Lose(S)

Spec == Init /\ [][Next]_storeVars
=============================================================================
