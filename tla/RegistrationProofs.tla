------------------------- MODULE RegistrationProofs -------------------------
(***************************************************************************)
(* Proofs about Registration and the pages of Session beside it, for any   *)
(* requests, browser sessions and accounts.                                *)
(***************************************************************************)
EXTENDS Registration, TLAPS

(* The types of the stores and of the requests.                            *)
LEMMA SessionTypeStep ==
  ASSUME SessionTypeOK, SessionNext
  PROVE  SessionTypeOK'
<1> USE NobodyAssumption DEF SessionTypeOK, VisitState, Goto, Pass
<1>1. ASSUME NEW r \in Visit, Open(r) PROVE SessionTypeOK'
  BY <1>1 DEF Open
<1>2. ASSUME NEW r \in Visit, ReadAccount(r) PROVE SessionTypeOK'
  BY <1>2 DEF ReadAccount
<1>3. ASSUME NEW r \in Visit, IsExist(r) PROVE SessionTypeOK'
  BY <1>3 DEF IsExist
<1>4. ASSUME NEW r \in Visit, Get(r) PROVE SessionTypeOK'
  BY <1>4 DEF Get
<1>5. ASSUME NEW r \in Visit, Put(r) PROVE SessionTypeOK'
  BY <1>5 DEF Put
<1>6. ASSUME NEW r \in Visit, Drop(r) PROVE SessionTypeOK'
  BY <1>6 DEF Drop
<1>7. ASSUME NEW r \in Visit, ReadName(r) PROVE SessionTypeOK'
  BY <1>7 DEF ReadName
<1>8. ASSUME NEW r \in Visit, DelSession(r) PROVE SessionTypeOK'
  BY <1>8 DEF DelSession
<1>9. ASSUME NEW r \in Visit, Delete(r) PROVE SessionTypeOK'
  BY <1>9 DEF Delete
<1>10. ASSUME NEW r \in Visit, Save(r) PROVE SessionTypeOK'
  BY <1>10 DEF Save
<1>11. ASSUME NEW r \in Visit, NEW a \in Account, Login(r, a) PROVE SessionTypeOK'
  BY <1>11 DEF Login
<1>12. ASSUME NEW a \in Account, Expire(a) PROVE SessionTypeOK'
  BY <1>12 DEF Expire
<1> QED BY <1>1, <1>2, <1>3, <1>4, <1>5, <1>6, <1>7, <1>8, <1>9, <1>10, <1>11, <1>12 DEF SessionNext, Check, Logout

MapTypeOK ==
  /\ lock \subseteq Visit /\ late \subseteq Visit
  /\ copy \in [Visit -> {"none", "free", "held"}]
  /\ step \in [Visit -> {"none", "lock", "search", "get", "answered"}]

LEMMA TypeStep ==
  ASSUME SessionTypeOK, MapTypeOK, [PagesNext]_pageVars
  PROVE  SessionTypeOK' /\ MapTypeOK'
<1>1. CASE SessionNext /\ UNCHANGED mapVars
  BY <1>1, SessionTypeStep DEF MapTypeOK, mapVars
<1>2. ASSUME NEW r \in Visit, OpenMap(r) PROVE SessionTypeOK' /\ MapTypeOK'
  <2>1. SessionTypeOK'
    BY <1>2 DEF OpenMap, Goto, SessionTypeOK, VisitState
  <2>2. MapTypeOK'
    BY <1>2 DEF OpenMap, Move, MapTypeOK
  <2> QED BY <2>1, <2>2
<1>3. ASSUME NEW r \in Visit, Lock(r) \/ CopyReceiver(r) \/ GetId(r)
      PROVE  SessionTypeOK' /\ MapTypeOK'
  <2>1. UNCHANGED sessionVars
    BY <1>3 DEF Lock, CopyReceiver, GetId
  <2>2. SessionTypeOK'
    BY <2>1 DEF sessionVars, SessionTypeOK
  <2>3. MapTypeOK'
    BY <1>3 DEF Lock, CopyReceiver, GetId, Move, MapTypeOK
  <2> QED BY <2>2, <2>3
<1>4. CASE UNCHANGED pageVars
  BY <1>4 DEF pageVars, sessionVars, mapVars, SessionTypeOK, MapTypeOK
<1> QED BY <1>1, <1>2, <1>3, <1>4 DEF PagesNext

LEMMA TypeInit ==
  ASSUME PagesInit
  PROVE  SessionTypeOK /\ MapTypeOK
BY NobodyAssumption DEF PagesInit, SessionInit, SessionTypeOK, MapTypeOK, VisitState

(* The type invariant of the pages and of the map.                         *)
THEOREM TypeCorrect == PagesSpec => []PagesTypeOK
<1>1. PagesInit => SessionTypeOK /\ MapTypeOK
  BY TypeInit
<1>2. (SessionTypeOK /\ MapTypeOK) /\ [PagesNext]_pageVars => (SessionTypeOK /\ MapTypeOK)'
  BY TypeStep
<1>3. SessionTypeOK /\ MapTypeOK => PagesTypeOK
  BY DEF MapTypeOK, PagesTypeOK
<1> QED BY <1>1, <1>2, <1>3, PTL DEF PagesSpec

-----------------------------------------------------------------------------
(* The entry of an account is a session that logged in as it; so is one a  *)
(* check is about to put, and one a check is about to throw out has been   *)
(* replaced by such a session.                                             *)
LoginInv ==
  /\ EntryLoggedIn
  /\ \A r \in Visit : pc[r] = "put" => sid[r] \in logins[acct[r]]
  /\ RefusedOnlyIfReplaced

LEMMA LoginStep ==
  ASSUME SessionTypeOK, LoginInv, SessionNext
  PROVE  LoginInv'
<1> USE NobodyAssumption DEF SessionTypeOK, LoginInv, EntryLoggedIn, RefusedOnlyIfReplaced, Goto, Pass
<1>1. ASSUME NEW r \in Visit, Open(r) PROVE LoginInv'
  BY <1>1 DEF Open
<1>2. ASSUME NEW r \in Visit, ReadAccount(r) PROVE LoginInv'
  BY <1>2 DEF ReadAccount
<1>3. ASSUME NEW r \in Visit, IsExist(r) PROVE LoginInv'
  BY <1>3 DEF IsExist
<1>4. ASSUME NEW r \in Visit, Get(r) PROVE LoginInv'
  BY <1>4 DEF Get
<1>5. ASSUME NEW r \in Visit, Put(r) PROVE LoginInv'
  BY <1>5 DEF Put
<1>6. ASSUME NEW r \in Visit, Drop(r) PROVE LoginInv'
  BY <1>6 DEF Drop
<1>7. ASSUME NEW r \in Visit, ReadName(r) PROVE LoginInv'
  BY <1>7 DEF ReadName
<1>8. ASSUME NEW r \in Visit, DelSession(r) PROVE LoginInv'
  BY <1>8 DEF DelSession
<1>9. ASSUME NEW r \in Visit, Delete(r) PROVE LoginInv'
  BY <1>9 DEF Delete
<1>10. ASSUME NEW r \in Visit, Save(r) PROVE LoginInv'
  BY <1>10 DEF Save
<1>11. ASSUME NEW r \in Visit, NEW a \in Account, Login(r, a) PROVE LoginInv'
  BY <1>11 DEF Login
<1>12. ASSUME NEW a \in Account, Expire(a) PROVE LoginInv'
  BY <1>12 DEF Expire
<1> QED BY <1>1, <1>2, <1>3, <1>4, <1>5, <1>6, <1>7, <1>8, <1>9, <1>10, <1>11, <1>12 DEF SessionNext, Check, Logout

(* Registrations and activations leave all of it alone.                    *)
LEMMA LoginNext ==
  ASSUME SessionTypeOK, LoginInv, [PagesNext]_pageVars
  PROVE  LoginInv'
<1>1. CASE SessionNext
  BY <1>1, LoginStep
<1>2. ASSUME NEW r \in Visit, OpenMap(r) PROVE LoginInv'
  BY <1>2 DEF OpenMap, Goto, SessionTypeOK, LoginInv, EntryLoggedIn, RefusedOnlyIfReplaced
<1>3. CASE UNCHANGED sessionVars
  BY <1>3 DEF sessionVars, LoginInv, EntryLoggedIn, RefusedOnlyIfReplaced
<1> QED BY <1>1, <1>2, <1>3 DEF PagesNext, Lock, CopyReceiver, GetId, pageVars

(* Whatever the number of requests, sessions and accounts, the entry of an *)
(* account is a session that logged in as it (sessionmanager.go:89).       *)
THEOREM EntriesLoggedIn == PagesSpec => []EntryLoggedIn
<1>1. PagesInit => (SessionTypeOK /\ MapTypeOK) /\ LoginInv
  BY TypeInit DEF PagesInit, SessionInit, LoginInv, EntryLoggedIn, RefusedOnlyIfReplaced
<1>2. ((SessionTypeOK /\ MapTypeOK) /\ LoginInv) /\ [PagesNext]_pageVars => ((SessionTypeOK /\ MapTypeOK) /\ LoginInv)'
  BY TypeStep, LoginNext
<1>3. LoginInv => EntryLoggedIn
  BY DEF LoginInv
<1> QED BY <1>1, <1>2, <1>3, PTL DEF PagesSpec

(* And nobody is thrown out (sessionmanager.go:91) but by another login as *)
(* the same account.                                                       *)
THEOREM RefusedWhenReplaced == PagesSpec => []RefusedOnlyIfReplaced
<1>1. PagesInit => (SessionTypeOK /\ MapTypeOK) /\ LoginInv
  BY TypeInit DEF PagesInit, SessionInit, LoginInv, EntryLoggedIn, RefusedOnlyIfReplaced
<1>2. ((SessionTypeOK /\ MapTypeOK) /\ LoginInv) /\ [PagesNext]_pageVars => ((SessionTypeOK /\ MapTypeOK) /\ LoginInv)'
  BY TypeStep, LoginNext
<1>3. LoginInv => RefusedOnlyIfReplaced
  BY DEF LoginInv
<1> QED BY <1>1, <1>2, <1>3, PTL DEF PagesSpec

-----------------------------------------------------------------------------
(* Where a request is in the map's pages.  Who registers has the lock from *)
(* its search on, so that the copy it makes, like all later ones, is held; *)
(* a copy is made once, and only a free one is ever got past.              *)
MapInv ==
  \A r \in Visit :
    /\ step[r] # "none" => pc[r] = "other" /\ kind[r] \in {"register", "activate"}
    /\ step[r] = "lock" => kind[r] = "register"
    /\ step[r] \in {"search", "get", "answered"} /\ kind[r] = "register" => r \in lock
    /\ step[r] \in {"none", "lock", "search"} <=> copy[r] = "none"
    /\ step[r] \in {"get", "answered"} /\ kind[r] = "register" => copy[r] = "held"
    /\ step[r] = "answered" => copy[r] = "free"
    /\ r \in late => copy[r] = "held"

LEMMA MapStep ==
  ASSUME SessionTypeOK, MapTypeOK, MapInv, [PagesNext]_pageVars
  PROVE  MapInv'
<1> USE DEF MapTypeOK, MapInv
<1>1. CASE SessionNext /\ UNCHANGED mapVars
  <2>1. \A r \in Visit : pc[r] = "other" => pc'[r] = "other" /\ kind'[r] = kind[r]
    BY <1>1 DEF SessionNext, Check, Logout, SessionTypeOK, Goto, Open, ReadAccount, IsExist, Get, Put, Drop,
       ReadName, DelSession, Delete, Save, Login, Expire
  <2> QED BY <1>1, <2>1 DEF mapVars
<1>2. ASSUME NEW r \in Visit, OpenMap(r) PROVE MapInv'
  BY <1>2 DEF OpenMap, Goto, Move, SessionTypeOK
<1>3. ASSUME NEW r \in Visit, Lock(r) PROVE MapInv'
  BY <1>3 DEF Lock, Move, sessionVars
<1>4. ASSUME NEW r \in Visit, CopyReceiver(r) PROVE MapInv'
  BY <1>4 DEF CopyReceiver, Move, sessionVars
<1>5. ASSUME NEW r \in Visit, GetId(r) PROVE MapInv'
  BY <1>5 DEF GetId, Move, sessionVars
<1>6. CASE UNCHANGED pageVars
  BY <1>6 DEF pageVars, sessionVars, mapVars
<1> QED BY <1>1, <1>2, <1>3, <1>4, <1>5, <1>6 DEF PagesNext

LEMMA MapAlways == PagesSpec => [](MapTypeOK /\ MapInv)
<1>1. PagesInit => (SessionTypeOK /\ MapTypeOK) /\ MapInv
  BY TypeInit DEF PagesInit, SessionInit, MapInv
<1>2. ((SessionTypeOK /\ MapTypeOK) /\ MapInv) /\ [PagesNext]_pageVars => ((SessionTypeOK /\ MapTypeOK) /\ MapInv)'
  BY TypeStep, MapStep
<1> QED BY <1>1, <1>2, PTL DEF PagesSpec

(* From the first Lock on nobody who asks the map is answered.             *)
THEOREM NoneAnsweredLateAlways == PagesSpec => []NoneAnsweredLate
<1>1. MapTypeOK /\ MapInv => NoneAnsweredLate
  BY DEF MapTypeOK, MapInv, NoneAnsweredLate
<1> QED BY <1>1, MapAlways, PTL
=============================================================================
