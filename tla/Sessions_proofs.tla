--------------------------- MODULE Sessions_proofs ---------------------------
(* Machine-checked proofs about Sessions, for every number of requests on  *)
(* an account, every interleaving of them and every number of password     *)
(* changes.                                                                *)
EXTENDS Sessions, TLAPS

(* The types, action by action.                                            *)
LEMMA TypeStep == TypeOK /\ TokenInv /\ [Next]_vars => TypeOK'
<1> SUFFICES ASSUME TypeOK, TokenInv, [Next]_vars PROVE TypeOK'
  OBVIOUS
<1> USE SessionNames DEF Goto, account, request, history
<1> USE DEF Steps, Accounts, Hashes, RevokeAllForUser, Usable, FindByJti, TokenInv
<1>1. ASSUME NEW r \in Requests, VerifyLogin(r) PROVE TypeOK'
  BY <1>1 DEF VerifyLogin, TypeOK
<1>2. ASSUME NEW r \in Requests, OpenSession(r) PROVE TypeOK'
  BY <1>2 DEF OpenSession, Insert, TypeOK
<1>3. ASSUME NEW r \in Requests, Answer(r) PROVE TypeOK'
  BY <1>3 DEF Answer, TypeOK
<1>4. ASSUME NEW r \in Requests, PresentToken(r) PROVE TypeOK'
  BY <1>4 DEF PresentToken, TypeOK
<1>5. ASSUME NEW r \in Requests, CheckAccount(r) PROVE TypeOK'
  BY <1>5 DEF CheckAccount, TypeOK
<1>6. ASSUME NEW r \in Requests, Rotate(r) PROVE TypeOK'
  BY <1>6 DEF Rotate, Insert, TypeOK, TokenInv
<1>7. ASSUME NEW r \in Requests, Logout(r) PROVE TypeOK'
  BY <1>7 DEF Logout, TypeOK
<1>8. ASSUME NEW r \in Requests, VerifyCurrent(r) PROVE TypeOK'
  BY <1>8 DEF VerifyCurrent, TypeOK
<1>9. ASSUME NEW r \in Requests, Change(r) PROVE TypeOK'
  BY <1>9 DEF Change, TypeOK
<1>10. ASSUME NEW r \in Requests, FetchAccount(r) PROVE TypeOK'
  BY <1>10 DEF FetchAccount, TypeOK
<1>11. ASSUME NEW r \in Requests, SaveAccount(r) PROVE TypeOK'
  BY <1>11 DEF SaveAccount, TypeOK
<1>12. ASSUME NEW r \in Requests, RefreshExpires(r) PROVE TypeOK'
  BY <1>12 DEF RefreshExpires, TypeOK
<1>13. ASSUME NEW r \in Requests, AccessExpires(r) PROVE TypeOK'
  BY <1>13 DEF AccessExpires, TypeOK
<1>14. CASE UNCHANGED vars
  BY <1>14 DEF vars, TypeOK
<1> QED
  BY <1>1, <1>2, <1>3, <1>4, <1>5, <1>6, <1>7, <1>8, <1>9, <1>10, <1>11, <1>12, <1>13, <1>14 DEF Next, LoginStep, RefreshStep, PasswordStep, StaffStep

(* A token has its row from the step that inserts it on, and not before.   *)
LEMMA TokenStep == TypeOK /\ TokenInv /\ [Next]_vars => TokenInv'
<1> SUFFICES ASSUME TypeOK, TokenInv, [Next]_vars PROVE TokenInv'
  OBVIOUS
<1> USE SessionNames DEF Goto, account, request, history
<1> USE DEF Insert, Usable, FindByJti, NotIssuedYet, RevokeAllForUser
<1>1. ASSUME NEW r \in Requests, VerifyLogin(r) PROVE TokenInv'
  BY <1>1 DEF VerifyLogin, TypeOK, TokenInv
<1>2. ASSUME NEW r \in Requests, OpenSession(r) PROVE TokenInv'
  BY <1>2 DEF OpenSession, TypeOK, TokenInv
<1>3. ASSUME NEW r \in Requests, Answer(r) PROVE TokenInv'
  BY <1>3 DEF Answer, TypeOK, TokenInv
<1>4. ASSUME NEW r \in Requests, PresentToken(r) PROVE TokenInv'
  BY <1>4 DEF PresentToken, TypeOK, TokenInv
<1>5. ASSUME NEW r \in Requests, CheckAccount(r) PROVE TokenInv'
  BY <1>5 DEF CheckAccount, TypeOK, TokenInv
<1>6. ASSUME NEW r \in Requests, Rotate(r) PROVE TokenInv'
  BY <1>6 DEF Rotate, TypeOK, TokenInv
<1>7. ASSUME NEW r \in Requests, Logout(r) PROVE TokenInv'
  BY <1>7 DEF Logout, TypeOK, TokenInv
<1>8. ASSUME NEW r \in Requests, VerifyCurrent(r) PROVE TokenInv'
  BY <1>8 DEF VerifyCurrent, TypeOK, TokenInv
<1>9. ASSUME NEW r \in Requests, Change(r) PROVE TokenInv'
  BY <1>9 DEF Change, TypeOK, TokenInv
<1>10. ASSUME NEW r \in Requests, FetchAccount(r) PROVE TokenInv'
  BY <1>10 DEF FetchAccount, TypeOK, TokenInv
<1>11. ASSUME NEW r \in Requests, SaveAccount(r) PROVE TokenInv'
  BY <1>11 DEF SaveAccount, TypeOK, TokenInv
<1>12. ASSUME NEW r \in Requests, RefreshExpires(r) PROVE TokenInv'
  BY <1>12 DEF RefreshExpires, TypeOK, TokenInv
<1>13. ASSUME NEW r \in Requests, AccessExpires(r) PROVE TokenInv'
  BY <1>13 DEF AccessExpires, TypeOK, TokenInv
<1>14. CASE UNCHANGED vars
  BY <1>14 DEF vars, TypeOK, TokenInv
<1> QED
  BY <1>1, <1>2, <1>3, <1>4, <1>5, <1>6, <1>7, <1>8, <1>9, <1>10, <1>11, <1>12, <1>13, <1>14 DEF Next, LoginStep, RefreshStep, PasswordStep, StaffStep

(* A password change leaves no live token, and a token that comes after it *)
(* is of its epoch.                                                        *)
LEMMA LiveStep == TypeOK /\ TokenInv /\ LiveIsNew /\ [Next]_vars => LiveIsNew'
<1> SUFFICES ASSUME TypeOK, TokenInv, LiveIsNew, [Next]_vars PROVE LiveIsNew'
  OBVIOUS
<1> USE SessionNames DEF Goto, account, request, history
<1> USE DEF Insert, RevokeAllForUser, NotIssuedYet
<1>1. ASSUME NEW r \in Requests, VerifyLogin(r) PROVE LiveIsNew'
  BY <1>1 DEF VerifyLogin, TypeOK, TokenInv, LiveIsNew
<1>2. ASSUME NEW r \in Requests, OpenSession(r) PROVE LiveIsNew'
  BY <1>2 DEF OpenSession, TypeOK, TokenInv, LiveIsNew
<1>3. ASSUME NEW r \in Requests, Answer(r) PROVE LiveIsNew'
  BY <1>3 DEF Answer, TypeOK, TokenInv, LiveIsNew
<1>4. ASSUME NEW r \in Requests, PresentToken(r) PROVE LiveIsNew'
  BY <1>4 DEF PresentToken, TypeOK, TokenInv, LiveIsNew
<1>5. ASSUME NEW r \in Requests, CheckAccount(r) PROVE LiveIsNew'
  BY <1>5 DEF CheckAccount, TypeOK, TokenInv, LiveIsNew
<1>6. ASSUME NEW r \in Requests, Rotate(r) PROVE LiveIsNew'
  BY <1>6 DEF Rotate, TypeOK, TokenInv, LiveIsNew
<1>7. ASSUME NEW r \in Requests, Logout(r) PROVE LiveIsNew'
  BY <1>7 DEF Logout, TypeOK, TokenInv, LiveIsNew
<1>8. ASSUME NEW r \in Requests, VerifyCurrent(r) PROVE LiveIsNew'
  BY <1>8 DEF VerifyCurrent, TypeOK, TokenInv, LiveIsNew
<1>9. ASSUME NEW r \in Requests, Change(r) PROVE LiveIsNew'
  BY <1>9 DEF Change, TypeOK, TokenInv, LiveIsNew
<1>10. ASSUME NEW r \in Requests, FetchAccount(r) PROVE LiveIsNew'
  BY <1>10 DEF FetchAccount, TypeOK, TokenInv, LiveIsNew
<1>11. ASSUME NEW r \in Requests, SaveAccount(r) PROVE LiveIsNew'
  BY <1>11 DEF SaveAccount, TypeOK, TokenInv, LiveIsNew
<1>12. ASSUME NEW r \in Requests, RefreshExpires(r) PROVE LiveIsNew'
  BY <1>12 DEF RefreshExpires, TypeOK, TokenInv, LiveIsNew
<1>13. ASSUME NEW r \in Requests, AccessExpires(r) PROVE LiveIsNew'
  BY <1>13 DEF AccessExpires, TypeOK, TokenInv, LiveIsNew
<1>14. CASE UNCHANGED vars
  BY <1>14 DEF vars, TypeOK, TokenInv, LiveIsNew
<1> QED
  BY <1>1, <1>2, <1>3, <1>4, <1>5, <1>6, <1>7, <1>8, <1>9, <1>10, <1>11, <1>12, <1>13, <1>14 DEF Next, LoginStep, RefreshStep, PasswordStep, StaffStep

(* Who revokes a token logs it out, changes the password, or has issued    *)
(* its successor in the same step.                                         *)
LEMMA StrandedStep == TypeOK /\ TokenInv /\ NeverStranded /\ [Next]_vars => NeverStranded'
<1> SUFFICES ASSUME TypeOK, TokenInv, NeverStranded, [Next]_vars PROVE NeverStranded'
  OBVIOUS
<1> USE SessionNames DEF Goto, account, request, history
<1> USE DEF Insert, RevokeAllForUser, NotIssuedYet
<1>1. ASSUME NEW r \in Requests, VerifyLogin(r) PROVE NeverStranded'
  BY <1>1 DEF VerifyLogin, TypeOK, TokenInv, NeverStranded
<1>2. ASSUME NEW r \in Requests, OpenSession(r) PROVE NeverStranded'
  BY <1>2 DEF OpenSession, TypeOK, TokenInv, NeverStranded
<1>3. ASSUME NEW r \in Requests, Answer(r) PROVE NeverStranded'
  BY <1>3 DEF Answer, TypeOK, TokenInv, NeverStranded
<1>4. ASSUME NEW r \in Requests, PresentToken(r) PROVE NeverStranded'
  BY <1>4 DEF PresentToken, TypeOK, TokenInv, NeverStranded
<1>5. ASSUME NEW r \in Requests, CheckAccount(r) PROVE NeverStranded'
  BY <1>5 DEF CheckAccount, TypeOK, TokenInv, NeverStranded
<1>6. ASSUME NEW r \in Requests, Rotate(r) PROVE NeverStranded'
  BY <1>6 DEF Rotate, TypeOK, TokenInv, NeverStranded
<1>7. ASSUME NEW r \in Requests, Logout(r) PROVE NeverStranded'
  BY <1>7 DEF Logout, TypeOK, TokenInv, NeverStranded
<1>8. ASSUME NEW r \in Requests, VerifyCurrent(r) PROVE NeverStranded'
  BY <1>8 DEF VerifyCurrent, TypeOK, TokenInv, NeverStranded
<1>9. ASSUME NEW r \in Requests, Change(r) PROVE NeverStranded'
  BY <1>9 DEF Change, TypeOK, TokenInv, NeverStranded
<1>10. ASSUME NEW r \in Requests, FetchAccount(r) PROVE NeverStranded'
  BY <1>10 DEF FetchAccount, TypeOK, TokenInv, NeverStranded
<1>11. ASSUME NEW r \in Requests, SaveAccount(r) PROVE NeverStranded'
  BY <1>11 DEF SaveAccount, TypeOK, TokenInv, NeverStranded
<1>12. ASSUME NEW r \in Requests, RefreshExpires(r) PROVE NeverStranded'
  BY <1>12 DEF RefreshExpires, TypeOK, TokenInv, NeverStranded
<1>13. ASSUME NEW r \in Requests, AccessExpires(r) PROVE NeverStranded'
  BY <1>13 DEF AccessExpires, TypeOK, TokenInv, NeverStranded
<1>14. CASE UNCHANGED vars
  BY <1>14 DEF vars, TypeOK, TokenInv, NeverStranded
<1> QED
  BY <1>1, <1>2, <1>3, <1>4, <1>5, <1>6, <1>7, <1>8, <1>9, <1>10, <1>11, <1>12, <1>13, <1>14 DEF Next, LoginStep, RefreshStep, PasswordStep, StaffStep

(* A new token follows only the one that its rotation revokes.             *)
LEMMA SingleStep == TypeOK /\ TokenInv /\ OneTokenPerSession /\ [Next]_vars => OneTokenPerSession'
<1> SUFFICES ASSUME TypeOK, TokenInv, OneTokenPerSession, [Next]_vars PROVE OneTokenPerSession'
  OBVIOUS
<1> USE SessionNames DEF Goto, account, request, history
<1> USE DEF Insert, RevokeAllForUser, NotIssuedYet, Usable, FindByJti
<1>1. ASSUME NEW r \in Requests, VerifyLogin(r) PROVE OneTokenPerSession'
  BY <1>1 DEF VerifyLogin, TypeOK, TokenInv, OneTokenPerSession, Serial
<1>2. ASSUME NEW r \in Requests, OpenSession(r) PROVE OneTokenPerSession'
  BY <1>2 DEF OpenSession, TypeOK, TokenInv, OneTokenPerSession, Serial
<1>3. ASSUME NEW r \in Requests, Answer(r) PROVE OneTokenPerSession'
  BY <1>3 DEF Answer, TypeOK, TokenInv, OneTokenPerSession, Serial
<1>4. ASSUME NEW r \in Requests, PresentToken(r) PROVE OneTokenPerSession'
  BY <1>4 DEF PresentToken, TypeOK, TokenInv, OneTokenPerSession, Serial
<1>5. ASSUME NEW r \in Requests, CheckAccount(r) PROVE OneTokenPerSession'
  BY <1>5 DEF CheckAccount, TypeOK, TokenInv, OneTokenPerSession, Serial
<1>6. ASSUME NEW r \in Requests, Rotate(r) PROVE OneTokenPerSession'
  BY <1>6 DEF Rotate, TypeOK, TokenInv, OneTokenPerSession, Serial
<1>7. ASSUME NEW r \in Requests, Logout(r) PROVE OneTokenPerSession'
  BY <1>7 DEF Logout, TypeOK, TokenInv, OneTokenPerSession, Serial
<1>8. ASSUME NEW r \in Requests, VerifyCurrent(r) PROVE OneTokenPerSession'
  BY <1>8 DEF VerifyCurrent, TypeOK, TokenInv, OneTokenPerSession, Serial
<1>9. ASSUME NEW r \in Requests, Change(r) PROVE OneTokenPerSession'
  BY <1>9 DEF Change, TypeOK, TokenInv, OneTokenPerSession, Serial
<1>10. ASSUME NEW r \in Requests, FetchAccount(r) PROVE OneTokenPerSession'
  BY <1>10 DEF FetchAccount, TypeOK, TokenInv, OneTokenPerSession, Serial
<1>11. ASSUME NEW r \in Requests, SaveAccount(r) PROVE OneTokenPerSession'
  BY <1>11 DEF SaveAccount, TypeOK, TokenInv, OneTokenPerSession, Serial
<1>12. ASSUME NEW r \in Requests, RefreshExpires(r) PROVE OneTokenPerSession'
  BY <1>12 DEF RefreshExpires, TypeOK, TokenInv, OneTokenPerSession, Serial
<1>13. ASSUME NEW r \in Requests, AccessExpires(r) PROVE OneTokenPerSession'
  BY <1>13 DEF AccessExpires, TypeOK, TokenInv, OneTokenPerSession, Serial
<1>14. CASE UNCHANGED vars
  BY <1>14 DEF vars, TypeOK, TokenInv, OneTokenPerSession, Serial
<1> QED
  BY <1>1, <1>2, <1>3, <1>4, <1>5, <1>6, <1>7, <1>8, <1>9, <1>10, <1>11, <1>12, <1>13, <1>14 DEF Next, LoginStep, RefreshStep, PasswordStep, StaffStep

-----------------------------------------------------------------------------
LEMMA InitInv == Init => Inv
<1> SUFFICES ASSUME Init PROVE Inv
  OBVIOUS
<1>1. TypeOK
  BY SessionNames DEF Init, TypeOK, Accounts, Hashes, Steps
<1>2. TokenInv
  BY SessionNames DEF Init, TokenInv, NotIssuedYet
<1>3. LiveIsNew /\ NeverStranded /\ OneTokenPerSession
  BY DEF Init, LiveIsNew, NeverStranded, OneTokenPerSession
<1> QED
  BY <1>1, <1>2, <1>3 DEF Inv

(* The tokens' invariant: it holds with the three properties below in every *)
(* reachable state.                                                        *)
THEOREM SessionsInvariance == Spec => []Inv
<1>1. Inv /\ [Next]_vars => Inv'
  BY TypeStep, TokenStep, LiveStep, StrandedStep, SingleStep DEF Inv
<1> QED
  BY InitInv, <1>1, PTL DEF Spec

(* RevokeAllForUser in the transaction that stores the password: a token   *)
(* that can be used has got its row since the last change of the password. *)
THEOREM NothingOldLives == Spec => []LiveIsNew
<1>1. Inv => LiveIsNew
  BY DEF Inv
<1> QED
  BY SessionsInvariance, <1>1, PTL

(* The transaction of a rotation: wherever a refresh stops, the session it *)
(* refreshes has its old token or its new one.                             *)
THEOREM RotationKeepsTheSession == Spec => []NeverStranded
<1>1. Inv => NeverStranded
  BY DEF Inv
<1> QED
  BY SessionsInvariance, <1>1, PTL

(* Where every token is presented once, its rotation leaves the session    *)
(* one token.                                                              *)
THEOREM RotationReplaces == Spec => []OneTokenPerSession
<1>1. Inv => OneTokenPerSession
  BY DEF Inv
<1> QED
  BY SessionsInvariance, <1>1, PTL
=============================================================================
