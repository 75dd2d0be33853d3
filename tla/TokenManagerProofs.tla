------------------------- MODULE TokenManagerProofs -------------------------
(***************************************************************************)
(* Proofs about the token manager, for any number of tokens and of         *)
(* concurrent requests, with or without failures and outsiders: the token  *)
(* file is whole, its token is welcome, a rotation that crosses no request *)
(* revokes, and the token printed last is then the one that counts, but    *)
(* for a banner that is overtaken.  In the second half, when the rotations *)
(* come: RotationClock.                                                    *)
(***************************************************************************)
EXTENDS TokenManager, RotationClock, TLAPS

\* The initial states satisfy the inductive invariant.
LEMMA InvInit == Init => IndInv
<1> SUFFICES ASSUME Init PROVE IndInv
  OBVIOUS
<1>1. TypeOK
  BY TokenConstants DEF Init, TypeOK
<1>2. IssuedInv /\ RotationInv
  BY TokenConstants DEF Init, IssuedInv, RotationInv, Replacing, FileWhole, Serving
<1>3. SteadyInv /\ RevokeInv /\ PrintInv
  BY TokenConstants DEF Init, SteadyInv, RevokeInv, PrintInv, Replacing, Serving, FileTokenWelcome, RotationRevokes
<1> QED BY <1>1, <1>2, <1>3 DEF IndInv

\* Every step keeps the types.
LEMMA TypeStep == IndInv /\ [Next]_vars => TypeOK'
<1> SUFFICES ASSUME IndInv, [Next]_vars PROVE TypeOK'
  OBVIOUS
<1> USE TokenConstants DEF requestVars, rotateVars, historyVars, bannerVars
<1>1. CASE InitToken
  BY <1>1 DEF InitToken, IndInv, TypeOK, IssuedInv, RotationInv, Replacing
<1>2. CASE ReadBanner
  BY <1>2 DEF ReadBanner, IndInv, TypeOK, IssuedInv, RotationInv, Replacing
<1>3. CASE Crash
  BY <1>3 DEF Crash, IndInv, TypeOK, IssuedInv, RotationInv, Replacing
<1>4. CASE TakeTimer
  BY <1>4 DEF TakeTimer, IndInv, TypeOK, IssuedInv, RotationInv, Replacing
<1>5. CASE TakeManual
  BY <1>5 DEF TakeManual, IndInv, TypeOK, IssuedInv, RotationInv, Replacing
<1>6. CASE WriteTemp
  BY <1>6 DEF WriteTemp, DiskDuringWrite, IndInv, TypeOK, IssuedInv, RotationInv, Replacing
<1>7. CASE Rename
  BY <1>7 DEF Rename, StillSteady, IndInv, TypeOK, IssuedInv, RotationInv, Replacing
<1>8. CASE Chmod
  BY <1>8 DEF Chmod, IndInv, TypeOK, IssuedInv, RotationInv, Replacing
<1>9. CASE SetToken
  BY <1>9 DEF SetToken, Stored, IndInv, TypeOK, IssuedInv, RotationInv, Replacing
<1>10. CASE PrintToken
  BY <1>10 DEF PrintToken, IndInv, TypeOK, IssuedInv, RotationInv, Replacing
<1>11. CASE RotateFails
  BY <1>11 DEF RotateFails, IndInv, TypeOK, IssuedInv, RotationInv, Replacing
<1>12. ASSUME NEW r \in Request, Arrive(r) PROVE TypeOK'
  BY <1>12 DEF Arrive, IndInv, TypeOK, IssuedInv, RotationInv, Replacing
<1>13. ASSUME NEW r \in Request, CompareCache(r) PROVE TypeOK'
  BY <1>13 DEF CompareCache, OnCacheMiss, IndInv, TypeOK, IssuedInv, RotationInv, Replacing
<1>14. ASSUME NEW r \in Request, ReadFile(r) PROVE TypeOK'
  BY <1>14 DEF ReadFile, IndInv, TypeOK, IssuedInv, RotationInv, Replacing
<1>15. ASSUME NEW r \in Request, RefreshCache(r) PROVE TypeOK'
  BY <1>15 DEF RefreshCache, Refreshed, IndInv, TypeOK, IssuedInv, RotationInv, Replacing
<1>16. ASSUME NEW r \in Request, Trigger(r) PROVE TypeOK'
  BY <1>16 DEF Trigger, Triggered, IndInv, TypeOK, IssuedInv, RotationInv, Replacing
<1>17. ASSUME NEW r \in Request, Answer(r) PROVE TypeOK'
  BY <1>17 DEF Answer, IndInv, TypeOK, IssuedInv, RotationInv, Replacing
<1>18. CASE Outside
  BY <1>18 DEF Outside, StillSteady, IndInv, TypeOK, IssuedInv, RotationInv, Replacing
<1>19. CASE UNCHANGED vars
  BY <1>19 DEF vars, IndInv, TypeOK, IssuedInv, RotationInv, Replacing
<1>20. CASE PrintBanner
  BY <1>20 DEF PrintBanner, IndInv, TypeOK, IssuedInv, RotationInv, Replacing
<1>21. ASSUME NEW r \in Request, ReadFileFails(r) PROVE TypeOK'
  BY <1>21 DEF ReadFileFails, IndInv, TypeOK, IssuedInv, RotationInv, Replacing
<1> QED BY <1>1, <1>2, <1>3, <1>4, <1>5, <1>6, <1>7, <1>8, <1>9, <1>10, <1>11, <1>12, <1>13, <1>14, <1>15, <1>16, <1>17, <1>18,
       <1>19, <1>20, <1>21 DEF Next, RotateStep, VerifyStep

\* Every step keeps all tokens issued.
LEMMA IssuedStep == IndInv /\ [Next]_vars => IssuedInv'
<1> SUFFICES ASSUME IndInv, [Next]_vars PROVE IssuedInv'
  OBVIOUS
<1> USE TokenConstants DEF requestVars, rotateVars, historyVars, bannerVars
<1>1. CASE InitToken
  BY <1>1 DEF InitToken, IndInv, TypeOK, IssuedInv
<1>2. CASE ReadBanner
  BY <1>2 DEF ReadBanner, IndInv, TypeOK, IssuedInv
<1>3. CASE Crash
  BY <1>3 DEF Crash, IndInv, TypeOK, IssuedInv
<1>4. CASE TakeTimer
  BY <1>4 DEF TakeTimer, IndInv, TypeOK, IssuedInv
<1>5. CASE TakeManual
  BY <1>5 DEF TakeManual, IndInv, TypeOK, IssuedInv
<1>6. CASE WriteTemp
  BY <1>6 DEF WriteTemp, DiskDuringWrite, IndInv, TypeOK, IssuedInv
<1>7. CASE Rename
  BY <1>7 DEF Rename, StillSteady, IndInv, TypeOK, IssuedInv
<1>8. CASE Chmod
  BY <1>8 DEF Chmod, IndInv, TypeOK, IssuedInv
<1>9. CASE SetToken
  BY <1>9 DEF SetToken, Stored, IndInv, TypeOK, IssuedInv
<1>10. CASE PrintToken
  BY <1>10 DEF PrintToken, IndInv, TypeOK, IssuedInv
<1>11. CASE RotateFails
  BY <1>11 DEF RotateFails, IndInv, TypeOK, IssuedInv
<1>12. ASSUME NEW r \in Request, Arrive(r) PROVE IssuedInv'
  BY <1>12 DEF Arrive, IndInv, TypeOK, IssuedInv
<1>13. ASSUME NEW r \in Request, CompareCache(r) PROVE IssuedInv'
  BY <1>13 DEF CompareCache, OnCacheMiss, IndInv, TypeOK, IssuedInv
<1>14. ASSUME NEW r \in Request, ReadFile(r) PROVE IssuedInv'
  BY <1>14 DEF ReadFile, IndInv, TypeOK, IssuedInv
<1>15. ASSUME NEW r \in Request, RefreshCache(r) PROVE IssuedInv'
  BY <1>15 DEF RefreshCache, Refreshed, IndInv, TypeOK, IssuedInv
<1>16. ASSUME NEW r \in Request, Trigger(r) PROVE IssuedInv'
  BY <1>16 DEF Trigger, Triggered, IndInv, TypeOK, IssuedInv
<1>17. ASSUME NEW r \in Request, Answer(r) PROVE IssuedInv'
  BY <1>17 DEF Answer, IndInv, TypeOK, IssuedInv
<1>18. CASE Outside
  BY <1>18 DEF Outside, StillSteady, IndInv, TypeOK, IssuedInv
<1>19. CASE UNCHANGED vars
  BY <1>19 DEF vars, IndInv, TypeOK, IssuedInv
<1>20. CASE PrintBanner
  BY <1>20 DEF PrintBanner, IndInv, TypeOK, IssuedInv
<1>21. ASSUME NEW r \in Request, ReadFileFails(r) PROVE IssuedInv'
  BY <1>21 DEF ReadFileFails, IndInv, TypeOK, IssuedInv
<1> QED BY <1>1, <1>2, <1>3, <1>4, <1>5, <1>6, <1>7, <1>8, <1>9, <1>10, <1>11, <1>12, <1>13, <1>14, <1>15, <1>16, <1>17, <1>18,
       <1>19, <1>20, <1>21 DEF Next, RotateStep, VerifyStep

\* Every step keeps the file in line with the rotation.
LEMMA RotationStep == IndInv /\ [Next]_vars => RotationInv'
<1> SUFFICES ASSUME IndInv, [Next]_vars PROVE RotationInv'
  OBVIOUS
<1> USE TokenConstants DEF requestVars, rotateVars, historyVars, bannerVars
<1>1. CASE InitToken
  BY <1>1 DEF InitToken, IndInv, TypeOK, IssuedInv, RotationInv, Replacing, FileWhole, Serving
<1>2. CASE ReadBanner
  BY <1>2 DEF ReadBanner, IndInv, TypeOK, IssuedInv, RotationInv, Replacing, FileWhole, Serving
<1>3. CASE Crash
  BY <1>3 DEF Crash, IndInv, TypeOK, IssuedInv, RotationInv, Replacing, FileWhole, Serving
<1>4. CASE TakeTimer
  BY <1>4 DEF TakeTimer, IndInv, TypeOK, IssuedInv, RotationInv, Replacing, FileWhole, Serving
<1>5. CASE TakeManual
  BY <1>5 DEF TakeManual, IndInv, TypeOK, IssuedInv, RotationInv, Replacing, FileWhole, Serving
<1>6. CASE WriteTemp
  BY <1>6 DEF WriteTemp, DiskDuringWrite, IndInv, TypeOK, IssuedInv, RotationInv, Replacing, FileWhole, Serving
<1>7. CASE Rename
  BY <1>7 DEF Rename, StillSteady, IndInv, TypeOK, IssuedInv, RotationInv, Replacing, FileWhole, Serving
<1>8. CASE Chmod
  BY <1>8 DEF Chmod, IndInv, TypeOK, IssuedInv, RotationInv, Replacing, FileWhole, Serving
<1>9. CASE SetToken
  BY <1>9 DEF SetToken, Stored, IndInv, TypeOK, IssuedInv, RotationInv, Replacing, FileWhole, Serving
<1>10. CASE PrintToken
  BY <1>10 DEF PrintToken, IndInv, TypeOK, IssuedInv, RotationInv, Replacing, FileWhole, Serving
<1>11. CASE RotateFails
  BY <1>11 DEF RotateFails, IndInv, TypeOK, IssuedInv, RotationInv, Replacing, FileWhole, Serving
<1>12. ASSUME NEW r \in Request, Arrive(r) PROVE RotationInv'
  BY <1>12 DEF Arrive, IndInv, TypeOK, IssuedInv, RotationInv, Replacing, FileWhole, Serving
<1>13. ASSUME NEW r \in Request, CompareCache(r) PROVE RotationInv'
  BY <1>13 DEF CompareCache, OnCacheMiss, IndInv, TypeOK, IssuedInv, RotationInv, Replacing, FileWhole, Serving
<1>14. ASSUME NEW r \in Request, ReadFile(r) PROVE RotationInv'
  BY <1>14 DEF ReadFile, IndInv, TypeOK, IssuedInv, RotationInv, Replacing, FileWhole, Serving
<1>15. ASSUME NEW r \in Request, RefreshCache(r) PROVE RotationInv'
  BY <1>15 DEF RefreshCache, Refreshed, IndInv, TypeOK, IssuedInv, RotationInv, Replacing, FileWhole, Serving
<1>16. ASSUME NEW r \in Request, Trigger(r) PROVE RotationInv'
  BY <1>16 DEF Trigger, Triggered, IndInv, TypeOK, IssuedInv, RotationInv, Replacing, FileWhole, Serving
<1>17. ASSUME NEW r \in Request, Answer(r) PROVE RotationInv'
  BY <1>17 DEF Answer, IndInv, TypeOK, IssuedInv, RotationInv, Replacing, FileWhole, Serving
<1>18. CASE Outside
  BY <1>18 DEF Outside, StillSteady, IndInv, TypeOK, IssuedInv, RotationInv, Replacing, FileWhole, Serving
<1>19. CASE UNCHANGED vars
  BY <1>19 DEF vars, IndInv, TypeOK, IssuedInv, RotationInv, Replacing, FileWhole, Serving
<1>20. CASE PrintBanner
  BY <1>20 DEF PrintBanner, IndInv, TypeOK, IssuedInv, RotationInv, Replacing, FileWhole, Serving
<1>21. ASSUME NEW r \in Request, ReadFileFails(r) PROVE RotationInv'
  BY <1>21 DEF ReadFileFails, IndInv, TypeOK, IssuedInv, RotationInv, Replacing, FileWhole, Serving
<1> QED BY <1>1, <1>2, <1>3, <1>4, <1>5, <1>6, <1>7, <1>8, <1>9, <1>10, <1>11, <1>12, <1>13, <1>14, <1>15, <1>16, <1>17, <1>18,
       <1>19, <1>20, <1>21 DEF Next, RotateStep, VerifyStep

\* Every step keeps steady requests steady and welcome.
LEMMA SteadyStep == IndInv /\ [Next]_vars => SteadyInv'
<1> SUFFICES ASSUME IndInv, [Next]_vars PROVE SteadyInv'
  OBVIOUS
<1> USE TokenConstants DEF requestVars, rotateVars, historyVars, bannerVars
<1>1. CASE InitToken
  BY <1>1 DEF InitToken, IndInv, TypeOK, SteadyInv, RotationInv, FileTokenWelcome, Serving
<1>2. CASE ReadBanner
  BY <1>2 DEF ReadBanner, IndInv, TypeOK, SteadyInv, RotationInv, FileTokenWelcome, Serving
<1>3. CASE Crash
  BY <1>3 DEF Crash, IndInv, TypeOK, SteadyInv, RotationInv, FileTokenWelcome, Serving
<1>4. CASE TakeTimer
  BY <1>4 DEF TakeTimer, IndInv, TypeOK, SteadyInv, RotationInv, FileTokenWelcome, Serving
<1>5. CASE TakeManual
  BY <1>5 DEF TakeManual, IndInv, TypeOK, SteadyInv, RotationInv, FileTokenWelcome, Serving
<1>6. CASE WriteTemp
  BY <1>6 DEF WriteTemp, DiskDuringWrite, IndInv, TypeOK, SteadyInv, RotationInv, FileTokenWelcome, Serving
<1>7. CASE Rename
  BY <1>7 DEF Rename, StillSteady, IndInv, TypeOK, SteadyInv, RotationInv, FileTokenWelcome, Serving
<1>8. CASE Chmod
  BY <1>8 DEF Chmod, IndInv, TypeOK, SteadyInv, RotationInv, FileTokenWelcome, Serving
<1>9. CASE SetToken
  BY <1>9 DEF SetToken, Stored, IndInv, TypeOK, SteadyInv, RotationInv, FileTokenWelcome, Serving
<1>10. CASE PrintToken
  BY <1>10 DEF PrintToken, IndInv, TypeOK, SteadyInv, RotationInv, FileTokenWelcome, Serving
<1>11. CASE RotateFails
  BY <1>11 DEF RotateFails, IndInv, TypeOK, SteadyInv, RotationInv, FileTokenWelcome, Serving
<1>12. ASSUME NEW r \in Request, Arrive(r) PROVE SteadyInv'
  BY <1>12 DEF Arrive, IndInv, TypeOK, SteadyInv, RotationInv, FileTokenWelcome, Serving
<1>13. ASSUME NEW r \in Request, CompareCache(r) PROVE SteadyInv'
  BY <1>13 DEF CompareCache, OnCacheMiss, IndInv, TypeOK, SteadyInv, RotationInv, FileTokenWelcome, Serving
<1>14. ASSUME NEW r \in Request, ReadFile(r) PROVE SteadyInv'
  BY <1>14 DEF ReadFile, IndInv, TypeOK, SteadyInv, RotationInv, FileTokenWelcome, Serving
<1>15. ASSUME NEW r \in Request, RefreshCache(r) PROVE SteadyInv'
  BY <1>15 DEF RefreshCache, Refreshed, IndInv, TypeOK, SteadyInv, RotationInv, FileTokenWelcome, Serving
<1>16. ASSUME NEW r \in Request, Trigger(r) PROVE SteadyInv'
  BY <1>16 DEF Trigger, Triggered, IndInv, TypeOK, SteadyInv, RotationInv, FileTokenWelcome, Serving
<1>17. ASSUME NEW r \in Request, Answer(r) PROVE SteadyInv'
  BY <1>17 DEF Answer, IndInv, TypeOK, SteadyInv, RotationInv, FileTokenWelcome, Serving
<1>18. CASE Outside
  BY <1>18 DEF Outside, StillSteady, IndInv, TypeOK, SteadyInv, RotationInv, FileTokenWelcome, Serving
<1>19. CASE UNCHANGED vars
  BY <1>19 DEF vars, IndInv, TypeOK, SteadyInv, RotationInv, FileTokenWelcome, Serving
<1>20. CASE PrintBanner
  BY <1>20 DEF PrintBanner, IndInv, TypeOK, SteadyInv, RotationInv, FileTokenWelcome, Serving
<1>21. ASSUME NEW r \in Request, ReadFileFails(r) PROVE SteadyInv'
  BY <1>21 DEF ReadFileFails, IndInv, TypeOK, SteadyInv, RotationInv, FileTokenWelcome, Serving
<1> QED BY <1>1, <1>2, <1>3, <1>4, <1>5, <1>6, <1>7, <1>8, <1>9, <1>10, <1>11, <1>12, <1>13, <1>14, <1>15, <1>16, <1>17, <1>18,
       <1>19, <1>20, <1>21 DEF Next, RotateStep, VerifyStep

\* Every step keeps retired tokens out of the file and the cache.
LEMMA RevokeStep == IndInv /\ [Next]_vars => RevokeInv'
<1> SUFFICES ASSUME IndInv, [Next]_vars PROVE RevokeInv'
  OBVIOUS
<1> USE TokenConstants DEF requestVars, rotateVars, historyVars, bannerVars
<1>1. CASE InitToken
  BY <1>1 DEF InitToken, IndInv, TypeOK, IssuedInv, RotationInv, SteadyInv, RevokeInv, Replacing, RotationRevokes, Serving, Refreshing
<1>2. CASE ReadBanner
  BY <1>2 DEF ReadBanner, IndInv, TypeOK, IssuedInv, RotationInv, SteadyInv, RevokeInv, Replacing, RotationRevokes, Serving, Refreshing
<1>3. CASE Crash
  BY <1>3 DEF Crash, IndInv, TypeOK, IssuedInv, RotationInv, SteadyInv, RevokeInv, Replacing, RotationRevokes, Serving, Refreshing
<1>4. CASE TakeTimer
  BY <1>4 DEF TakeTimer, IndInv, TypeOK, IssuedInv, RotationInv, SteadyInv, RevokeInv, Replacing, RotationRevokes, Serving, Refreshing
<1>5. CASE TakeManual
  BY <1>5 DEF TakeManual, IndInv, TypeOK, IssuedInv, RotationInv, SteadyInv, RevokeInv, Replacing, RotationRevokes, Serving, Refreshing
<1>6. CASE WriteTemp
  BY <1>6 DEF WriteTemp, DiskDuringWrite, IndInv, TypeOK, IssuedInv, RotationInv, SteadyInv, RevokeInv, Replacing, RotationRevokes, Serving, Refreshing
<1>7. CASE Rename
  BY <1>7 DEF Rename, StillSteady, IndInv, TypeOK, IssuedInv, RotationInv, SteadyInv, RevokeInv, Replacing, RotationRevokes, Serving, Refreshing
<1>8. CASE Chmod
  BY <1>8 DEF Chmod, IndInv, TypeOK, IssuedInv, RotationInv, SteadyInv, RevokeInv, Replacing, RotationRevokes, Serving, Refreshing
<1>9. CASE SetToken
  BY <1>9 DEF SetToken, Stored, IndInv, TypeOK, IssuedInv, RotationInv, SteadyInv, RevokeInv, Replacing, RotationRevokes, Serving, Refreshing
<1>10. CASE PrintToken
  BY <1>10 DEF PrintToken, IndInv, TypeOK, IssuedInv, RotationInv, SteadyInv, RevokeInv, Replacing, RotationRevokes, Serving, Refreshing
<1>11. CASE RotateFails
  BY <1>11 DEF RotateFails, IndInv, TypeOK, IssuedInv, RotationInv, SteadyInv, RevokeInv, Replacing, RotationRevokes, Serving, Refreshing
<1>12. ASSUME NEW r \in Request, Arrive(r) PROVE RevokeInv'
  BY <1>12 DEF Arrive, IndInv, TypeOK, IssuedInv, RotationInv, SteadyInv, RevokeInv, Replacing, RotationRevokes, Serving, Refreshing
<1>13. ASSUME NEW r \in Request, CompareCache(r) PROVE RevokeInv'
  BY <1>13 DEF CompareCache, OnCacheMiss, IndInv, TypeOK, IssuedInv, RotationInv, SteadyInv, RevokeInv, Replacing, RotationRevokes, Serving, Refreshing
<1>14. ASSUME NEW r \in Request, ReadFile(r) PROVE RevokeInv'
  BY <1>14 DEF ReadFile, IndInv, TypeOK, IssuedInv, RotationInv, SteadyInv, RevokeInv, Replacing, RotationRevokes, Serving, Refreshing
<1>15. ASSUME NEW r \in Request, RefreshCache(r) PROVE RevokeInv'
  BY <1>15 DEF RefreshCache, Refreshed, IndInv, TypeOK, IssuedInv, RotationInv, SteadyInv, RevokeInv, Replacing, RotationRevokes, Serving, Refreshing
<1>16. ASSUME NEW r \in Request, Trigger(r) PROVE RevokeInv'
  BY <1>16 DEF Trigger, Triggered, IndInv, TypeOK, IssuedInv, RotationInv, SteadyInv, RevokeInv, Replacing, RotationRevokes, Serving, Refreshing
<1>17. ASSUME NEW r \in Request, Answer(r) PROVE RevokeInv'
  BY <1>17 DEF Answer, IndInv, TypeOK, IssuedInv, RotationInv, SteadyInv, RevokeInv, Replacing, RotationRevokes, Serving, Refreshing
<1>18. CASE Outside
  BY <1>18 DEF Outside, StillSteady, IndInv, TypeOK, IssuedInv, RotationInv, SteadyInv, RevokeInv, Replacing, RotationRevokes, Serving, Refreshing
<1>19. CASE UNCHANGED vars
  BY <1>19 DEF vars, IndInv, TypeOK, IssuedInv, RotationInv, SteadyInv, RevokeInv, Replacing, RotationRevokes, Serving, Refreshing
<1>20. CASE PrintBanner
  BY <1>20 DEF PrintBanner, IndInv, TypeOK, IssuedInv, RotationInv, SteadyInv, RevokeInv, Replacing, RotationRevokes, Serving, Refreshing
<1>21. ASSUME NEW r \in Request, ReadFileFails(r) PROVE RevokeInv'
  BY <1>21 DEF ReadFileFails, IndInv, TypeOK, IssuedInv, RotationInv, SteadyInv, RevokeInv, Replacing, RotationRevokes, Serving, Refreshing
<1> QED BY <1>1, <1>2, <1>3, <1>4, <1>5, <1>6, <1>7, <1>8, <1>9, <1>10, <1>11, <1>12, <1>13, <1>14, <1>15, <1>16, <1>17, <1>18,
       <1>19, <1>20, <1>21 DEF Next, RotateStep, VerifyStep

\* Every step keeps the cache and the printed token in line with the file.
LEMMA PrintStep == IndInv /\ [Next]_vars => PrintInv'
<1> SUFFICES ASSUME IndInv, [Next]_vars PROVE PrintInv'
  OBVIOUS
<1> USE TokenConstants DEF requestVars, rotateVars, historyVars, bannerVars
<1>1. CASE InitToken
  BY <1>1 DEF InitToken, IndInv, TypeOK, RotationInv, SteadyInv, PrintInv, Replacing, Replaced, Serving, Refreshing
<1>2. CASE ReadBanner
  BY <1>2 DEF ReadBanner, IndInv, TypeOK, RotationInv, SteadyInv, PrintInv, Replacing, Replaced, Serving, Refreshing
<1>3. CASE Crash
  BY <1>3 DEF Crash, IndInv, TypeOK, RotationInv, SteadyInv, PrintInv, Replacing, Replaced, Serving, Refreshing
<1>4. CASE TakeTimer
  BY <1>4 DEF TakeTimer, IndInv, TypeOK, RotationInv, SteadyInv, PrintInv, Replacing, Replaced, Serving, Refreshing
<1>5. CASE TakeManual
  BY <1>5 DEF TakeManual, IndInv, TypeOK, RotationInv, SteadyInv, PrintInv, Replacing, Replaced, Serving, Refreshing
<1>6. CASE WriteTemp
  BY <1>6 DEF WriteTemp, DiskDuringWrite, IndInv, TypeOK, RotationInv, SteadyInv, PrintInv, Replacing, Replaced, Serving, Refreshing
<1>7. CASE Rename
  BY <1>7 DEF Rename, StillSteady, IndInv, TypeOK, RotationInv, SteadyInv, PrintInv, Replacing, Replaced, Serving, Refreshing
<1>8. CASE Chmod
  BY <1>8 DEF Chmod, IndInv, TypeOK, RotationInv, SteadyInv, PrintInv, Replacing, Replaced, Serving, Refreshing
<1>9. CASE SetToken
  BY <1>9 DEF SetToken, Stored, IndInv, TypeOK, RotationInv, SteadyInv, PrintInv, Replacing, Replaced, Serving, Refreshing
<1>10. CASE PrintToken
  BY <1>10 DEF PrintToken, IndInv, TypeOK, RotationInv, SteadyInv, PrintInv, Replacing, Replaced, Serving, Refreshing
<1>11. CASE RotateFails
  BY <1>11 DEF RotateFails, IndInv, TypeOK, RotationInv, SteadyInv, PrintInv, Replacing, Replaced, Serving, Refreshing
<1>12. ASSUME NEW r \in Request, Arrive(r) PROVE PrintInv'
  BY <1>12 DEF Arrive, IndInv, TypeOK, RotationInv, SteadyInv, PrintInv, Replacing, Replaced, Serving, Refreshing
<1>13. ASSUME NEW r \in Request, CompareCache(r) PROVE PrintInv'
  BY <1>13 DEF CompareCache, OnCacheMiss, IndInv, TypeOK, RotationInv, SteadyInv, PrintInv, Replacing, Replaced, Serving, Refreshing
<1>14. ASSUME NEW r \in Request, ReadFile(r) PROVE PrintInv'
  BY <1>14 DEF ReadFile, IndInv, TypeOK, RotationInv, SteadyInv, PrintInv, Replacing, Replaced, Serving, Refreshing
<1>15. ASSUME NEW r \in Request, RefreshCache(r) PROVE PrintInv'
  BY <1>15 DEF RefreshCache, Refreshed, IndInv, TypeOK, RotationInv, SteadyInv, PrintInv, Replacing, Replaced, Serving, Refreshing
<1>16. ASSUME NEW r \in Request, Trigger(r) PROVE PrintInv'
  BY <1>16 DEF Trigger, Triggered, IndInv, TypeOK, RotationInv, SteadyInv, PrintInv, Replacing, Replaced, Serving, Refreshing
<1>17. ASSUME NEW r \in Request, Answer(r) PROVE PrintInv'
  BY <1>17 DEF Answer, IndInv, TypeOK, RotationInv, SteadyInv, PrintInv, Replacing, Replaced, Serving, Refreshing
<1>18. CASE Outside
  BY <1>18 DEF Outside, StillSteady, IndInv, TypeOK, RotationInv, SteadyInv, PrintInv, Replacing, Replaced, Serving, Refreshing
<1>19. CASE UNCHANGED vars
  BY <1>19 DEF vars, IndInv, TypeOK, RotationInv, SteadyInv, PrintInv, Replacing, Replaced, Serving, Refreshing
<1>20. CASE PrintBanner
  BY <1>20 DEF PrintBanner, IndInv, TypeOK, RotationInv, SteadyInv, PrintInv, Replacing, Replaced, Serving, Refreshing
<1>21. ASSUME NEW r \in Request, ReadFileFails(r) PROVE PrintInv'
  BY <1>21 DEF ReadFileFails, IndInv, TypeOK, RotationInv, SteadyInv, PrintInv, Replacing, Replaced, Serving, Refreshing
<1> QED BY <1>1, <1>2, <1>3, <1>4, <1>5, <1>6, <1>7, <1>8, <1>9, <1>10, <1>11, <1>12, <1>13, <1>14, <1>15, <1>16, <1>17, <1>18,
       <1>19, <1>20, <1>21 DEF Next, RotateStep, VerifyStep

LEMMA Invariance == Spec => []IndInv
<1>1. IndInv /\ [Next]_vars => IndInv'
  BY TypeStep, IssuedStep, RotationStep, SteadyStep, RevokeStep, PrintStep DEF IndInv
<1> QED BY InvInit, <1>1, PTL DEF Spec, SafeSpec

\* The variables keep their types.
THEOREM TypeCorrect == Spec => []TypeOK
<1>1. IndInv => TypeOK
  BY DEF IndInv
<1> QED BY Invariance, <1>1, PTL

\* While the agent serves, the token file holds a whole token unless others
\* removed or truncated it since the last rotation.
THEOREM FileAlwaysWhole == Spec => []FileWhole
<1>1. IndInv => FileWhole
  BY DEF IndInv, RotationInv
<1> QED BY Invariance, <1>1, PTL

\* A request whose token has been in the file from its arrival on is denied only
\* when the file cannot be read, however rotations, other requests and outsiders
\* interleave.
THEOREM FileTokenIsWelcome == Spec => []FileTokenWelcome
<1>1. IndInv => FileTokenWelcome
  BY DEF IndInv, SteadyInv
<1> QED BY Invariance, <1>1, PTL

\* A completed rotation revokes what it replaced, unless it crossed a request
\* between its reading the file and its refresh of the cache.
THEOREM RotationDoesRevoke == Spec => []RotationRevokes
<1>1. IndInv => RotationRevokes
  BY DEF IndInv, RevokeInv
<1> QED BY Invariance, <1>1, PTL

\* Between rotations the token printed last is the one in the file, unless the
\* file was changed otherwise, a rotation crossed a request, or the last one
\* replaced the token of the banner while that was being printed.
THEOREM PrintedIsValid == Spec => []PrintedValid
<1>1. IndInv => PrintedValid
  BY DEF IndInv, PrintInv, PrintedValid, Replaced, Serving
<1> QED BY Invariance, <1>1, PTL

-----------------------------------------------------------------------------
(* RotationClock: when the daily rotation comes, for every set of rotation   *)
(* hours and of time zones.                                                  *)

(***************************************************************************)
(* How long the timer is set for                                           *)
(***************************************************************************)

\* The moment of a rotation is one of the day, or an hour off at its ends.
LEMMA MomentsOfDay ==
    ASSUME skips \in 0..23, NEW l \in {23, 24, 25}, NEW h, NEW m \in Moments(l, h)
    PROVE  m \in Int /\ -1 <= m /\ m <= 24
<1>1. l \in Int /\ l <= 25 /\ 23 <= l
  OBVIOUS
<1>2. CASE l = 23 /\ h = skips
  <2>1. m = skips - 1 \/ m = skips
    BY <1>2 DEF Moments
  <2> QED BY <2>1
<1>3. CASE ~(l = 23 /\ h = skips)
  <2>1. m \in 0..(l - 1)
    BY <1>3 DEF Moments
  <2> QED BY <1>1, <2>1
<1> QED BY <1>2, <1>3

\* nextRotationDelay, for the moments of two times of a day.
LEMMA DelayUntilBound ==
    ASSUME NEW m \in Int, NEW e \in Int, -1 <= m, m <= 24, 0 <= e, e <= 24,
           m = -1 => e <= 22
    PROVE  DelayUntil(m, e) \in Int /\ 0 <= DelayUntil(m, e) /\ DelayUntil(m, e) <= 24
BY DEF DelayUntil

\* The timer is set for at most 24 hours.
LEMMA DelayAtMostDay ==
    ASSUME skips \in 0..23, length \in {23, 24, 25}, elapsed \in 0..(length - 1),
           NEW d \in NextDelays
    PROVE  d \in Int /\ 0 <= d /\ d <= 24
<1>1. PICK m \in Moments(length, rotationHour) : d = DelayUntil(m, elapsed)
  BY DEF NextDelays
<1>2. m \in Int /\ -1 <= m /\ m <= 24
  BY <1>1, MomentsOfDay
<1>3. elapsed \in Int /\ 0 <= elapsed /\ elapsed <= 24
  <2>1. length \in Int /\ length <= 25
    OBVIOUS
  <2> QED BY <2>1
<1>4. m = -1 => elapsed <= 22
  <2> SUFFICES ASSUME m = -1 PROVE elapsed <= 22
    OBVIOUS
  <2>1. length = 23
    BY <1>1 DEF Moments
  <2> QED BY <2>1
<1> QED BY <1>1, <1>2, <1>3, <1>4, DelayUntilBound

LEMMA TimerInit == ClockInit => TimerInv
<1> SUFFICES ASSUME ClockInit PROVE TimerInv
  OBVIOUS
<1>1. /\ rotationHour \in Hours /\ skips \in Skipped /\ repeats \in Repeated
      /\ summer \in BOOLEAN /\ age = 0
      /\ length \in {23, 24, 25} /\ elapsed \in 0..(length - 1) /\ delay \in NextDelays
  BY DEF ClockInit
<1>2. delay \in Int /\ 0 <= delay /\ delay <= 24
  BY <1>1, DelayAtMostDay, HoursAssumption
<1>3. delay \in 0..24 /\ age \in Nat /\ age + delay <= 24
  BY <1>1, <1>2
<1> QED BY <1>1, <1>3, Zenon DEF TimerInv, ClockTypeOK

\* Setting the timer anew keeps the invariant.
LEMMA TimerRotate == TimerInv /\ Rotate => TimerInv'
<1> SUFFICES ASSUME TimerInv, Rotate PROVE TimerInv'
  OBVIOUS
<1>1. PICK d \in NextDelays : delay' = d
  BY DEF Rotate
<1>2. skips \in 0..23 /\ length \in {23, 24, 25} /\ elapsed \in 0..(length - 1)
  BY HoursAssumption DEF TimerInv, ClockTypeOK
<1>3. d \in Int /\ 0 <= d /\ d <= 24
  BY <1>2, DelayAtMostDay
<1>4. age' = 0 /\ UNCHANGED <<rotationHour, skips, repeats, summer, length, elapsed>>
  BY DEF Rotate, zoneVars
<1>5. age' \in Nat /\ age' + delay' <= 24 /\ delay' \in 0..24
  BY <1>1, <1>3, <1>4
<1>6. /\ rotationHour' \in Hours /\ skips' \in Skipped /\ repeats' \in Repeated
      /\ summer' \in BOOLEAN
      /\ length' \in {23, 24, 25} /\ elapsed' \in 0..(length' - 1)
  BY <1>4, Zenon DEF TimerInv, ClockTypeOK
<1> QED BY <1>5, <1>6, Zenon DEF TimerInv, ClockTypeOK

\* So does an hour, which adds to the age what it takes from the timer.
LEMMA TimerHour == TimerInv /\ Hour => TimerInv'
<1> SUFFICES ASSUME TimerInv, Hour PROVE TimerInv'
  OBVIOUS
<1>1. /\ delay' \in 0..24 /\ age' \in Nat /\ age' + delay' <= 24
      /\ rotationHour' \in Hours /\ skips' \in Skipped /\ repeats' \in Repeated
  BY DEF TimerInv, ClockTypeOK, Hour, zoneVars
<1>2. summer' \in BOOLEAN
  BY Zenon DEF TimerInv, ClockTypeOK, Hour
<1>3. length' \in {23, 24, 25} /\ elapsed' \in 0..(length' - 1)
  <2>1. /\ length \in {23, 24, 25} /\ length \in Int
        /\ elapsed \in Int /\ 0 <= elapsed
    BY DEF TimerInv, ClockTypeOK
  <2>2. CASE elapsed + 1 < length /\ elapsed' = elapsed + 1 /\ length' = length
    BY <2>1, <2>2
  <2>3. CASE elapsed' = 0 /\ length' \in {23, 24, 25}
    <3>1. \A n \in {23, 24, 25} : 0 \in 0..(n - 1)
      OBVIOUS
    <3> QED BY <2>3, <3>1
  <2>4. \/ elapsed' = 0 /\ length' \in {23, 24, 25}
        \/ elapsed + 1 < length /\ elapsed' = elapsed + 1 /\ length' = length
    BY <2>1 DEF Hour
  <2> QED BY <2>2, <2>3, <2>4
<1> QED BY <1>1, <1>2, <1>3, Zenon DEF TimerInv, ClockTypeOK

\* The inductive invariant holds in every reachable state.
THEOREM TimerInvariance == ClockSpec => []TimerInv
<1>1. ASSUME TimerInv, UNCHANGED clockVars PROVE TimerInv'
  BY <1>1 DEF TimerInv, ClockTypeOK, clockVars, zoneVars
<1>2. TimerInv /\ [ClockNext]_clockVars => TimerInv'
  BY <1>1, TimerRotate, TimerHour DEF ClockNext, TimerFires, ManualRotate
<1> QED BY TimerInit, <1>2, PTL DEF ClockSpec

\* The variables keep their types.
THEOREM ClockTypesCorrect == ClockSpec => []ClockTypeOK
<1>1. TimerInv => ClockTypeOK
  BY DEF TimerInv
<1> QED BY <1>1, TimerInvariance, PTL

\* The loop tries a rotation at least every 24 real hours, whatever hour is
\* configured and whichever hours are skipped and repeated.
THEOREM AttemptedEveryDay == ClockSpec => []AttemptEveryDay
<1>1. TimerInv => AttemptEveryDay
  BY DEF TimerInv, ClockTypeOK, AttemptEveryDay
<1> QED BY <1>1, TimerInvariance, PTL

(***************************************************************************)
(* The hour at which the timer fires                                       *)
(***************************************************************************)

\* The hours of the configuration and of the zone are hours.
AllHours == {rotationHour, skips, repeats} \subseteq 0..23

LEMMA HourTypes == ClockTypeOK => AllHours
BY HoursAssumption DEF ClockTypeOK, AllHours

\* An hour off, also across midnight.
LEMMA Near ==
    ASSUME NEW w \in 0..23, rotationHour \in 0..23,
           w - rotationHour \in {-1, 0, 1, 23, -23}
    PROVE  NearHour(w)
<1>1. CASE w - rotationHour = 23
  BY <1>1 DEF NearHour
<1>2. CASE w - rotationHour = -23
  BY <1>2 DEF NearHour
<1>3. CASE w - rotationHour = 0
  BY <1>3 DEF NearHour
<1>4. CASE w - rotationHour = 1
  BY <1>4 DEF NearHour
<1>5. CASE w - rotationHour = -1
  BY <1>5 DEF NearHour
<1> QED BY <1>1, <1>2, <1>3, <1>4, <1>5

\* The wall clock on the three kinds of day.
LEMMA WallValue ==
    ASSUME AllHours, NEW l \in {23, 24, 25}, NEW e \in Int
    PROVE  /\ l = 24 => Wall(l, e) = e
           /\ l = 23 /\ e < skips => Wall(l, e) = e
           /\ l = 23 /\ e >= skips => Wall(l, e) = e + 1
           /\ l = 25 /\ e <= repeats => Wall(l, e) = e
           /\ l = 25 /\ e > repeats => Wall(l, e) = e - 1
<1>1. l = 24 => Wall(l, e) = e
  BY DEF Wall
<1>2. /\ l = 23 /\ e < skips => Wall(l, e) = e
      /\ l = 23 /\ e >= skips => Wall(l, e) = e + 1
  BY DEF AllHours, Wall
<1>3. /\ l = 25 /\ e <= repeats => Wall(l, e) = e
      /\ l = 25 /\ e > repeats => Wall(l, e) = e - 1
  BY DEF AllHours, Wall
<1> QED BY <1>1, <1>2, <1>3

\* time.Date on the three kinds of day.
LEMMA MomentValue ==
    ASSUME AllHours, NEW l \in {23, 24, 25}, NEW h \in 0..23, NEW m \in Moments(l, h)
    PROVE  /\ m \in Int
           /\ l # 23 => m \in 0..(l - 1)
           /\ l = 24 => m = h
           /\ l = 23 => \/ h < skips /\ m = h
                        \/ h > skips /\ m = h - 1
                        \/ h = skips /\ m \in {h - 1, h}
           /\ l = 25 => \/ h <= repeats /\ m = h
                        \/ h >= repeats /\ m = h + 1
<1>1. CASE l = 23 /\ h = skips
  BY <1>1 DEF Moments
<1>2. CASE ~(l = 23 /\ h = skips)
  <2>1. m \in 0..(l - 1) /\ Wall(l, m) = h /\ m \in Int /\ skips \in Int /\ repeats \in Int
    BY <1>2 DEF Moments, AllHours
  <2> HIDE DEF Moments, Wall
  <2>2. CASE l = 24
    BY <2>1, <2>2, WallValue
  <2>3. CASE l = 23
    BY <1>2, <2>1, <2>3, WallValue
  <2>4. CASE l = 25
    BY <2>1, <2>4, WallValue
  <2> QED BY <2>1, <2>2, <2>3, <2>4
<1> QED BY <1>1, <1>2

\* A timer set for today fires near the hour; when the last hour of the day is
\* skipped, that may be midnight.
LEMMA TodayNear ==
    ASSUME AllHours, NEW l \in {23, 24, 25}, NEW m \in Moments(l, rotationHour), 0 <= m
    PROVE  \/ m < l /\ NearHour(Wall(l, m))
           \/ m = l /\ rotationHour = 23
<1>1. /\ m \in Int /\ l \in Int /\ rotationHour \in 0..23
      /\ skips \in Int /\ repeats \in Int
  BY MomentValue DEF AllHours
<1>2. \/ m = l /\ rotationHour = 23
      \/ /\ m < l /\ Wall(l, m) \in 0..23
         /\ Wall(l, m) - rotationHour \in {-1, 0, 1, 23, -23}
  <2>1. CASE l = 24
    BY <1>1, <2>1, MomentValue, WallValue
  <2>2. CASE l = 23
    BY <1>1, <2>2, MomentValue, WallValue
  <2>3. CASE l = 25
    BY <1>1, <2>3, MomentValue, WallValue
  <2> QED BY <2>1, <2>2, <2>3
<1> QED BY <1>1, <1>2, Near

\* So does one set for 24 hours after the moment of today, whatever day
\* tomorrow is, although two changes of the clock may fall on the way.
LEMMA TomorrowNear ==
    ASSUME AllHours, NEW l \in {23, 24, 25},
           NEW m \in Moments(l, rotationHour),
           NEW n \in {23, 24, 25}, n = 24 \/ n # l, m < l, m + 24 >= l
    PROVE  \/ m + 24 - l < n /\ NearHour(Wall(n, m + 24 - l))
           \/ m + 24 - l = n /\ n = 23 /\ rotationHour = 23
<1> DEFINE e == m + 24 - l
<1>1. /\ m \in Int /\ l \in Int /\ n \in Int /\ e \in Int /\ rotationHour \in 0..23
      /\ skips \in 0..23 /\ repeats \in 0..23
  BY MomentValue DEF AllHours
<1>2. \/ e = n /\ n = 23 /\ rotationHour = 23
      \/ e < n /\ Wall(n, e) \in 0..23 /\ Wall(n, e) - rotationHour \in {-1, 0, 1, 23, -23}
  <2>1. CASE l = 24
    <3>1. e = rotationHour
      BY <2>1, <1>1, MomentValue
    <3> QED BY <1>1, <3>1, WallValue
  <2>2. CASE l = 23
    <3>1. e = m + 1 /\ n # 23
      BY <1>1, <2>2
    <3>2. CASE n = 24
      BY <1>1, <2>2, <3>1, <3>2, MomentValue, WallValue
    <3>3. CASE n = 25
      BY <1>1, <2>2, <3>1, <3>3, MomentValue, WallValue
    <3> QED BY <3>1, <3>2, <3>3
  <2>3. CASE l = 25
    <3>1. e = m - 1 /\ n # 25 /\ 0 <= e
      BY <1>1, <2>3
    <3>2. CASE n = 24
      BY <1>1, <2>3, <3>1, <3>2, MomentValue, WallValue
    <3>3. CASE n = 23
      BY <1>1, <2>3, <3>1, <3>3, MomentValue, WallValue
    <3> QED BY <3>1, <3>2, <3>3
  <2> QED BY <2>1, <2>2, <2>3
<1> QED BY <1>1, <1>2, Near

\* What tomorrow may be differs from a short or a long today.
LEMMA NextLengthsDiffer ==
    ASSUME ClockTypeOK, DueInv, NEW n \in NextLengths
    PROVE  n \in {23, 24, 25} /\ (n = 24 \/ n # length)
BY DEF ClockTypeOK, DueInv, NextLengths

\* Setting the timer at any time of any day makes it fire near the hour.
LEMMA DueSet ==
    ASSUME ClockTypeOK, NEW d \in NextDelays,
           length = 23 => summer, length = 25 => ~summer
    PROVE  /\ d = 0 => length = 25 /\ elapsed = 24 /\ rotationHour = 0
           /\ FiresNear(elapsed + d)
<1>1. /\ length \in {23, 24, 25} /\ length \in Int /\ rotationHour \in 0..23
      /\ elapsed \in Int /\ 0 <= elapsed /\ elapsed < length
      /\ AllHours /\ skips \in 0..23 /\ repeats \in 0..23
  BY HourTypes DEF ClockTypeOK, AllHours
<1>2. PICK m \in Moments(length, rotationHour) : d = DelayUntil(m, elapsed)
  BY DEF NextDelays
<1>3. /\ m \in Int /\ -1 <= m /\ m <= length /\ m <= 24
      /\ m = -1 => length = 23
      /\ length # 23 => m < length
  <2>1. m \in Int /\ -1 <= m /\ m <= 24
    BY <1>1, <1>2, MomentsOfDay
  <2>2. length = 23 => m <= 23
    BY <1>1, <1>2, MomentValue
  <2>3. length # 23 => 0 <= m /\ m < length
    BY <1>1, <1>2, MomentValue
  <2> QED BY <1>1, <2>1, <2>2, <2>3
<1>4. CASE m > elapsed
  <2>1. elapsed + d = m /\ d # 0 /\ 0 <= m
    BY <1>1, <1>2, <1>3, <1>4 DEF DelayUntil
  <2>2. \/ m < length /\ NearHour(Wall(length, m))
        \/ m = length /\ rotationHour = 23
    BY <1>1, <1>2, <2>1, TodayNear
  <2>3. ASSUME m = length, rotationHour = 23, NEW l \in NextLengths
        PROVE  m - length < l /\ NearHour(Wall(l, m - length))
    <3>1. l \in {24, 25} /\ m - length = 0
      BY <1>1, <1>3, <2>3 DEF NextLengths
    <3>2. Wall(l, 0) = 0
      BY <1>1, <3>1, WallValue
    <3>3. NearHour(0)
      BY <2>3, Near
    <3> QED BY <3>1, <3>2, <3>3
  <2>4. FiresNear(m)
    BY <1>1, <1>3, <2>2, <2>3 DEF FiresNear
  <2> QED BY <2>1, <2>4
<1>5. CASE ~(m > elapsed)
  <2>1. elapsed + d = m + 24
    BY <1>1, <1>2, <1>3, <1>5 DEF DelayUntil
  <2>2. d = 0 => length = 25 /\ elapsed = 24 /\ m = 0
    BY <1>1, <1>2, <1>3, <1>5 DEF DelayUntil
  <2>3. length = 25 /\ m = 0 => rotationHour = 0
    BY <1>1, <1>2, MomentValue
  <2>4. ASSUME m + 24 < length
        PROVE  NearHour(Wall(length, m + 24))
    <3>1. length = 25 /\ m = 0
      BY <1>1, <1>3, <2>4
    <3>2. Wall(length, 24) = 23
      BY <1>1, <3>1, WallValue
    <3> QED BY <1>1, <2>3, <3>1, <3>2, Near
  <2>5. ASSUME m + 24 >= length, NEW l \in NextLengths
        PROVE  \/ m + 24 - length < l /\ NearHour(Wall(l, m + 24 - length))
               \/ m + 24 - length = l /\ l = 23 /\ rotationHour = 23
    <3>1. l \in {23, 24, 25} /\ (l = 24 \/ l # length)
      BY <1>1 DEF NextLengths
    <3>2. m < length
      BY <1>1, <1>3, <1>5
    <3> QED BY <1>1, <1>2, <2>5, <3>1, <3>2, TomorrowNear
  <2>6. FiresNear(m + 24)
    BY <1>1, <1>3, <2>4, <2>5 DEF FiresNear
  <2> QED BY <2>1, <2>2, <2>3, <2>6
<1> QED BY <1>4, <1>5

LEMMA DueInit == ClockInit => DueInv
<1> SUFFICES ASSUME ClockInit PROVE DueInv
  OBVIOUS
<1>1. ClockTypeOK
  BY TimerInit DEF TimerInv
<1>2. length = 24 /\ delay \in NextDelays
  BY DEF ClockInit
<1> QED BY <1>1, <1>2, DueSet DEF DueInv

LEMMA DueRotate == TimerInv /\ DueInv /\ Rotate => DueInv'
<1> SUFFICES ASSUME TimerInv, DueInv, Rotate PROVE DueInv'
  OBVIOUS
<1>1. PICK d \in NextDelays : delay' = d
  BY DEF Rotate
<1>2. UNCHANGED <<rotationHour, skips, repeats, summer, length, elapsed>>
  BY DEF Rotate, zoneVars
<1>3. ClockTypeOK /\ (length = 23 => summer) /\ (length = 25 => ~summer)
  BY DEF TimerInv, DueInv
<1>4. FiresNear(elapsed + d) = FiresNear(elapsed + delay)'
  BY <1>1, <1>2 DEF FiresNear, NextLengths, NearHour, Wall
<1> QED BY <1>1, <1>2, <1>3, <1>4, DueSet DEF DueInv

LEMMA DueHour == TimerInv /\ DueInv /\ Hour => DueInv'
<1> SUFFICES ASSUME TimerInv, DueInv, Hour PROVE DueInv'
  OBVIOUS
<1>1. /\ length \in {23, 24, 25} /\ length \in Int /\ rotationHour \in 0..23
      /\ elapsed \in Int /\ 0 <= elapsed /\ elapsed < length
      /\ delay \in Int /\ 0 <= delay /\ age \in Int /\ 0 <= age /\ AllHours
      /\ skips \in 0..23 /\ repeats \in 0..23
  BY HourTypes DEF TimerInv, ClockTypeOK, AllHours
<1>2. /\ UNCHANGED <<rotationHour, skips, repeats>> /\ age' = age + 1 /\ age' # 0
      /\ delay > 0 => delay' = delay - 1
      /\ delay = 0 => delay' = 0 /\ age = 0
  BY <1>1 DEF Hour, zoneVars
<1>3. \A w : NearHour(w)' <=> NearHour(w)
  BY <1>2 DEF NearHour
<1> DEFINE due == elapsed + delay
<1>4. CASE elapsed + 1 < length /\ elapsed' = elapsed + 1 /\ UNCHANGED <<summer, length>>
  <2>1. delay > 0
    BY <1>1, <1>2, <1>4 DEF DueInv
  <2>2. elapsed' + delay' = due
    BY <1>1, <1>2, <1>4, <2>1
  <2>3. FiresNear(elapsed + delay)'
    BY <1>2, <1>4, <2>2 DEF DueInv, FiresNear, NextLengths, NearHour, Wall
  <2> QED BY <1>2, <1>4, <2>3 DEF DueInv
<1>5. CASE /\ elapsed + 1 = length /\ elapsed' = 0
           /\ \/ length' = 24 /\ UNCHANGED summer
              \/ length' = (IF summer THEN 25 ELSE 23) /\ summer' = ~summer
  <2>1. \/ length' = 24
        \/ summer /\ length' = 25 /\ ~summer'
        \/ ~summer /\ length' = 23 /\ summer'
    BY <1>5, Zenon
  <2>2. /\ length' \in NextLengths /\ length' \in {23, 24, 25} /\ length' \in Int
        /\ length' = 23 => summer'
        /\ length' = 25 => ~summer'
    BY <2>1 DEF NextLengths
  \* The first hour of a day; when that is skipped, the clock shows one.
  <2>3. \A l \in {23, 24, 25} : Wall(l, 0) \in {0, 1} /\ (l # 23 => Wall(l, 0) = 0)
    BY <1>1, WallValue
  <2>4. ASSUME rotationHour = 0, elapsed' + delay' = 0 PROVE FiresNear(elapsed + delay)'
    <3>1. NearHour(Wall(length', 0))
      BY <1>1, <2>2, <2>3, <2>4, Near
    <3>2. Wall(length', 0) = Wall(length, elapsed + delay)'
      BY <1>2, <2>4 DEF Wall
    <3>3. (NearHour(Wall(length, elapsed + delay)))'
      BY <1>3, <3>1, <3>2
    <3> QED BY <2>2, <2>4, <3>3 DEF FiresNear
  <2>5. FiresNear(elapsed + delay)'
    <3>1. CASE delay = 0
      <4>1. elapsed' + delay' = 0 /\ rotationHour = 0
        BY <1>1, <1>2, <1>5, <3>1 DEF DueInv
      <4> QED BY <2>4, <4>1
    <3>2. CASE delay > 0
      <4>1. elapsed' + delay' = due - length /\ due >= length /\ due \in Int
        BY <1>1, <1>2, <1>5, <3>2
      <4>2. \/ due - length < length' /\ NearHour(Wall(length', due - length))
            \/ due - length = length' /\ length' = 23 /\ rotationHour = 23
        BY <2>2, <4>1 DEF DueInv, FiresNear
      <4>3. CASE due - length < length' /\ NearHour(Wall(length', due - length))
        <5>1. Wall(length', due - length) = Wall(length, elapsed + delay)'
          BY <1>2, <4>1 DEF Wall
        <5>2. (NearHour(Wall(length, elapsed + delay)))'
          BY <1>3, <4>3, <5>1
        <5> QED BY <1>1, <2>2, <4>1, <4>3, <5>2 DEF FiresNear
      \* Tomorrow is left out: it is the midnight after.
      <4>4. CASE due - length = length' /\ length' = 23 /\ rotationHour = 23
        <5>1. NearHour(0)
          BY <4>4, Near
        <5>2. \A l \in NextLengths' : l \in {24, 25} /\ 0 < l
          BY <2>2, <4>4 DEF NextLengths
        <5>3. \A l \in NextLengths' : (NearHour(Wall(l, 0)))'
          BY <1>2, <1>3, <2>3, <5>1, <5>2 DEF Wall
        <5> QED BY <2>2, <4>1, <4>4, <5>2, <5>3 DEF FiresNear
      <4> QED BY <4>2, <4>3, <4>4
    <3> QED BY <1>1, <3>1, <3>2
  <2> QED BY <1>2, <2>2, <2>5 DEF DueInv
<1> QED BY <1>4, <1>5 DEF Hour

\* The timer never fires more than an hour off, over any number of changes of
\* the clock and manual rotations.
THEOREM DriftIsBounded == ClockSpec => []DriftBounded
<1>1. ASSUME DueInv, UNCHANGED clockVars PROVE DueInv'
  BY <1>1 DEF DueInv, FiresNear, NextLengths, NearHour, Wall, clockVars, zoneVars
<1>2. TimerInv /\ DueInv /\ [ClockNext]_clockVars => DueInv'
  BY <1>1, DueRotate, DueHour DEF ClockNext, TimerFires, ManualRotate
<1>3. TimerInv /\ DueInv => DriftBounded
  <2> SUFFICES ASSUME TimerInv, DueInv, delay = 0 PROVE NearHour(Wall(length, elapsed))
    BY DEF DriftBounded
  <2>1. length \in Int /\ elapsed \in Int /\ elapsed < length
    BY DEF TimerInv, ClockTypeOK
  <2>2. elapsed + delay = elapsed
    BY <2>1
  <2> QED BY <2>1, <2>2 DEF DueInv, FiresNear
<1> QED BY <1>2, <1>3, DueInit, TimerInvariance, PTL DEF ClockSpec
=============================================================================
