---------------------- MODULE CredentialRefreshProofs ----------------------
(***************************************************************************)
(* Proofs about CredentialRefresh, for any number of tasks and tokens.     *)
(*                                                                         *)
(* What the lock is for takes an invariant about the whole exchange: one   *)
(* task at a time is between reading the row and storing the snapshot      *)
(* (LockHolder), what it has read and what it was answered are known pairs *)
(* that fit together (InHand), and only then does a spent token in the row *)
(* point to the one task that is about to replace it (SpentOnlyIfLost).    *)
(***************************************************************************)
EXTENDS CredentialRefresh, TLAPS

\* The tokens a task works with, and those in the row, were issued; an answer
\* that is about to be written is unused and of the same login.
InHand ==
    /\ row # None => row.token \in 1 .. issued
    /\ \A t \in Tasks :
         /\ pc[t] \in {"exchange", "write", "mark"} => held[t] \in 1 .. issued
         /\ pc[t] = "mark" => held[t] \in failed
         /\ pc[t] = "write" => /\ held[t] \in spent
                               /\ got[t] \in 1 .. issued
                               /\ got[t] \notin spent
                               /\ login[got[t]] = login[held[t]]

CredentialInv ==
    /\ TypeOK
    /\ LockHolder
    /\ InHand
    /\ SpentOnlyIfLost
    /\ SentTokensUsable
    /\ OperatorTokensWin
    /\ MarkedForOwnFailure

\* What the constants are.
LEMMA Constants ==
    /\ MaxTokens \in Nat \ {0}
    /\ None \notin Tasks /\ None \notin Tokens /\ None \notin Row
BY BoundAssumption, NoneAssumption

\* One pair of tokens, in the row and in the snapshot, and nobody at work.
LEMMA InitInv == Init => CredentialInv
<1> SUFFICES ASSUME Init PROVE CredentialInv
    OBVIOUS
<1> USE Constants DEF Init
<1>0. 1 \in Tokens
    BY DEF Tokens
<1>1. TypeOK
    BY <1>0 DEF TypeOK, Row, PCs, Locked
<1>2. LockHolder
    BY DEF LockHolder, Locked
<1>3. InHand
    BY DEF InHand
<1>4. SpentOnlyIfLost /\ SentTokensUsable /\ OperatorTokensWin /\ MarkedForOwnFailure
    BY <1>0 DEF SpentOnlyIfLost, SentTokensUsable, OperatorTokensWin, MarkedForOwnFailure
<1> QED
    BY <1>1, <1>2, <1>3, <1>4 DEF CredentialInv

\* A request that starts has nothing in hand yet.
LEMMA BeginRequestInv ==
    ASSUME CredentialInv, NEW t \in Tasks, BeginRequest(t)
    PROVE  CredentialInv'
<1> USE Constants DEF CredentialInv, BeginRequest, Goto,
        rowVars, taskVars, worldVars, historyVars
<1>1. TypeOK'
    BY DEF TypeOK, Row, Tokens, PCs, Locked
<1>2. LockHolder'
    BY DEF TypeOK, LockHolder, Locked
<1>3. InHand'
    BY DEF TypeOK, LockHolder, Locked, InHand, Row, Tokens
<1>4. SpentOnlyIfLost'
    BY DEF TypeOK, InHand, SpentOnlyIfLost, Row, Tokens
<1>5. SentTokensUsable'
    BY DEF TypeOK, LockHolder, Locked, InHand, SpentOnlyIfLost, SentTokensUsable
<1>6. OperatorTokensWin'
    BY DEF TypeOK, InHand, OperatorTokensWin, Row, Tokens
<1>7. MarkedForOwnFailure'
    BY DEF TypeOK, InHand, MarkedForOwnFailure, Row, Tokens
<1> QED
    BY <1>1, <1>2, <1>3, <1>4, <1>5, <1>6, <1>7

\* Nor has an operator's refresh.
LEMMA BeginRefreshInv ==
    ASSUME CredentialInv, NEW t \in Tasks, BeginRefresh(t)
    PROVE  CredentialInv'
<1> USE Constants DEF CredentialInv, BeginRefresh, Goto,
        rowVars, taskVars, worldVars, historyVars
<1>1. TypeOK'
    BY DEF TypeOK, Row, Tokens, PCs, Locked
<1>2. LockHolder'
    BY DEF TypeOK, LockHolder, Locked
<1>3. InHand'
    BY DEF TypeOK, LockHolder, Locked, InHand, Row, Tokens
<1>4. SpentOnlyIfLost'
    BY DEF TypeOK, InHand, SpentOnlyIfLost, Row, Tokens
<1>5. SentTokensUsable'
    BY DEF TypeOK, LockHolder, Locked, InHand, SpentOnlyIfLost, SentTokensUsable
<1>6. OperatorTokensWin'
    BY DEF TypeOK, InHand, OperatorTokensWin, Row, Tokens
<1>7. MarkedForOwnFailure'
    BY DEF TypeOK, InHand, MarkedForOwnFailure, Row, Tokens
<1> QED
    BY <1>1, <1>2, <1>3, <1>4, <1>5, <1>6, <1>7

\* The lock is free, so nobody is inside the exchange but the task that takes it.
LEMMA AcquireInv ==
    ASSUME CredentialInv, NEW t \in Tasks, Acquire(t)
    PROVE  CredentialInv'
<1> USE Constants DEF CredentialInv, Acquire, Goto,
        rowVars, taskVars, worldVars, historyVars
<1>1. TypeOK'
    BY DEF TypeOK, Row, Tokens, PCs, Locked
<1>2. LockHolder'
    BY DEF TypeOK, LockHolder, Locked
<1>3. InHand'
    BY DEF TypeOK, LockHolder, Locked, InHand, Row, Tokens
<1>4. SpentOnlyIfLost'
    BY DEF TypeOK, InHand, SpentOnlyIfLost, Row, Tokens
<1>5. SentTokensUsable'
    BY DEF TypeOK, LockHolder, Locked, InHand, SpentOnlyIfLost, SentTokensUsable
<1>6. OperatorTokensWin'
    BY DEF TypeOK, InHand, OperatorTokensWin, Row, Tokens
<1>7. MarkedForOwnFailure'
    BY DEF TypeOK, InHand, MarkedForOwnFailure, Row, Tokens
<1> QED
    BY <1>1, <1>2, <1>3, <1>4, <1>5, <1>6, <1>7

\* The holder of the lock reads the row: no other task is about to write a
\* successor, so the token it takes along is unspent or its successor is lost.
LEMMA ReadRowInv ==
    ASSUME CredentialInv, NEW t \in Tasks, ReadRow(t)
    PROVE  CredentialInv'
<1> USE Constants DEF CredentialInv, ReadRow, AlreadyRenewed, TokenToUse, Ready, Finish, Unlocked, Goto,
        rowVars, taskVars, worldVars, historyVars
<1>1. TypeOK'
    BY DEF TypeOK, Row, Tokens, PCs, Locked
<1>2. LockHolder'
    BY DEF TypeOK, LockHolder, Locked
<1>3. InHand'
    <2>2. \A u \in Tasks \ {t} : pc'[u] = pc[u] /\ held'[u] = held[u] /\ got'[u] = got[u]
        BY DEF TypeOK
    <2>3. pc'[t] \in {"idle", "ready"} \/ (pc'[t] = "exchange" /\ held'[t] = row.token /\ row # None)
        BY DEF TypeOK
    <2> QED
        BY <2>2, <2>3 DEF InHand
<1>4. SpentOnlyIfLost'
    BY ZenonT(40) DEF TypeOK, InHand, SpentOnlyIfLost, Row, Tokens
<1>5. SentTokensUsable'
    BY DEF TypeOK, LockHolder, Locked, InHand, SpentOnlyIfLost, SentTokensUsable
<1>6. OperatorTokensWin'
    BY DEF TypeOK, InHand, OperatorTokensWin, Row, Tokens
<1>7. MarkedForOwnFailure'
    BY DEF TypeOK, InHand, MarkedForOwnFailure, Row, Tokens
<1> QED
    BY <1>1, <1>2, <1>3, <1>4, <1>5, <1>6, <1>7

\* The endpoint exchanges the token of the only task inside.
LEMMA ExchangeInv ==
    ASSUME CredentialInv, NEW t \in Tasks, Exchange(t)
    PROVE  CredentialInv'
<1> USE Constants DEF CredentialInv, Exchange, Goto,
        rowVars, taskVars, worldVars, historyVars
<1>0. held[t] \in 1 .. issued /\ issued + 1 \in Tokens /\ issued \in Nat
    BY DEF InHand, TypeOK, Tokens
<1>1. TypeOK'
    <2>1. 1 .. issued \subseteq 1 .. issued' /\ issued' \in 1 .. issued'
        BY <1>0
    <2>2. spent' \subseteq 1 .. issued'
        BY <1>0, <2>1 DEF TypeOK
    <2>3. aging' \subseteq 1 .. issued' /\ undated' \subseteq 1 .. issued'
        BY <2>1 DEF TypeOK
    <2>4. failed' \subseteq 1 .. issued' /\ installed' \in Tokens /\ lost' \subseteq spent'
        BY <2>1 DEF TypeOK
    <2>a. held[t] \in Tokens
        BY <1>0 DEF Tokens
    <2>5. login' \in [Tokens -> Tokens] /\ got' \in [Tasks -> Tokens \cup {None}]
        BY <1>0, <2>a DEF TypeOK
    <2>6. pc' \in [Tasks -> PCs]
        BY DEF TypeOK, PCs, Locked
    <2> QED
        BY <1>0, <2>2, <2>3, <2>4, <2>5, <2>6 DEF TypeOK
<1>2. LockHolder'
    BY DEF TypeOK, LockHolder, Locked
<1>3. InHand'
    <2>1. \A u \in Tasks \ {t} : pc[u] \notin Locked /\ pc'[u] = pc[u]
        BY DEF TypeOK, LockHolder, Locked
    <2>2. pc'[t] = "write" /\ held'[t] = held[t] /\ got'[t] = issued + 1
        BY DEF TypeOK
    <2>3. issued + 1 \notin spent'
        BY <1>0 DEF TypeOK
    <2>4. login'[got'[t]] = login'[held'[t]]
        BY <1>0, <2>2 DEF TypeOK, Tokens
    <2>5. row' # None => row'.token \in 1 .. issued'
        BY <1>0 DEF InHand
    <2> QED
        BY <1>0, <2>1, <2>2, <2>3, <2>4, <2>5 DEF InHand, Locked
<1>4. SpentOnlyIfLost'
    BY DEF TypeOK, InHand, SpentOnlyIfLost, Row, Tokens
<1>5. SentTokensUsable'
    BY DEF TypeOK, LockHolder, Locked, InHand, SpentOnlyIfLost, SentTokensUsable
<1>6. OperatorTokensWin'
    <2>0. row # None => row.token \in 1 .. issued
        BY DEF InHand
    <2>1. row # None => row.token \in Tokens /\ row.token # issued + 1
        BY <1>0, <2>0 DEF Tokens
    <2> QED
        BY <2>1 DEF TypeOK, OperatorTokensWin
<1>7. MarkedForOwnFailure'
    BY DEF TypeOK, InHand, MarkedForOwnFailure, Row, Tokens
<1> QED
    BY <1>1, <1>2, <1>3, <1>4, <1>5, <1>6, <1>7

\* A spent token whose successor did not arrive counts as lost.
LEMMA ExchangeLostInv ==
    ASSUME CredentialInv, NEW t \in Tasks, ExchangeLost(t)
    PROVE  CredentialInv'
<1> USE Constants DEF CredentialInv, ExchangeLost, Goto,
        rowVars, taskVars, worldVars, historyVars
<1>0. held[t] \in 1 .. issued
    BY DEF InHand
<1>1. TypeOK'
    BY <1>0 DEF TypeOK, PCs, Locked
<1>2. LockHolder'
    BY DEF TypeOK, LockHolder, Locked
<1>3. InHand'
    BY DEF TypeOK, LockHolder, Locked, InHand, Row, Tokens
<1>4. SpentOnlyIfLost'
    BY DEF TypeOK, InHand, SpentOnlyIfLost, Row, Tokens
<1>5. SentTokensUsable'
    BY DEF TypeOK, LockHolder, Locked, InHand, SpentOnlyIfLost, SentTokensUsable
<1>6. OperatorTokensWin'
    BY DEF TypeOK, InHand, OperatorTokensWin, Row, Tokens
<1>7. MarkedForOwnFailure'
    BY DEF TypeOK, InHand, MarkedForOwnFailure, Row, Tokens
<1> QED
    BY <1>1, <1>2, <1>3, <1>4, <1>5, <1>6, <1>7

\* A refusal spends nothing.
LEMMA ExchangeRefusedInv ==
    ASSUME CredentialInv, NEW t \in Tasks, ExchangeRefused(t)
    PROVE  CredentialInv'
<1> USE Constants DEF CredentialInv, ExchangeRefused, Goto,
        rowVars, taskVars, worldVars, historyVars
<1>0. held[t] \in 1 .. issued
    BY DEF InHand
<1>1. TypeOK'
    BY <1>0 DEF TypeOK, PCs, Locked
<1>2. LockHolder'
    BY DEF TypeOK, LockHolder, Locked
<1>3. InHand'
    BY DEF TypeOK, LockHolder, Locked, InHand, Row, Tokens
<1>4. SpentOnlyIfLost'
    BY DEF TypeOK, InHand, SpentOnlyIfLost, Row, Tokens
<1>5. SentTokensUsable'
    BY DEF TypeOK, LockHolder, Locked, InHand, SpentOnlyIfLost, SentTokensUsable
<1>6. OperatorTokensWin'
    BY DEF TypeOK, InHand, OperatorTokensWin, Row, Tokens
<1>7. MarkedForOwnFailure'
    BY DEF TypeOK, InHand, MarkedForOwnFailure, Row, Tokens
<1> QED
    BY <1>1, <1>2, <1>3, <1>4, <1>5, <1>6, <1>7

\* The successor is written over the token it was exchanged for, and over no other.
LEMMA WriteTokensInv ==
    ASSUME CredentialInv, NEW t \in Tasks, WriteTokens(t)
    PROVE  CredentialInv'
<1> USE Constants DEF CredentialInv, WriteTokens, Unchanged, Rotated, Finish, Unlocked, Goto,
        rowVars, taskVars, worldVars, historyVars
<1>0. /\ held[t] \in 1 .. issued /\ got[t] \in Tokens /\ got[t] \notin spent
      /\ got[t] \in 1 .. issued /\ login[got[t]] = login[held[t]]
    BY SMTT(30) DEF InHand, TypeOK, Tokens
<1>a. CASE Unchanged(t)
    <2>0. row # None /\ row.token = held[t] /\ row' = [token |-> got[t], status |-> "active"]
        BY <1>a
    <2>1. row' \in Row /\ row'.token = got[t] /\ row'.status = "active"
        BY <1>0, <2>0 DEF Row
    <2>2. TypeOK'
        BY <1>0, <1>a, <2>1 DEF TypeOK, PCs, Locked
    <2>3. LockHolder'
        BY <1>a DEF TypeOK, LockHolder, Locked
    <2>4. InHand'
        BY <1>a, <1>0, <2>1 DEF TypeOK, InHand
    <2>5. SpentOnlyIfLost'
        BY <1>a, <1>0, <2>1 DEF SpentOnlyIfLost
    <2>6. SentTokensUsable'
        BY <1>a DEF TypeOK, SentTokensUsable
    <2>7. OperatorTokensWin'
        BY <1>a, <1>0, <2>0, <2>1 DEF OperatorTokensWin
    <2>8. MarkedForOwnFailure'
        BY <2>1 DEF MarkedForOwnFailure
    <2> QED
        BY <2>2, <2>3, <2>4, <2>5, <2>6, <2>7, <2>8
<1>b. CASE ~ Unchanged(t)
    <2>1. row' = row /\ Finish(t)
        BY <1>b
    <2>2. TypeOK' /\ LockHolder'
        BY <2>1 DEF TypeOK, PCs, LockHolder, Locked
    <2>3. InHand'
        BY <2>1 DEF TypeOK, InHand
    <2>4. SpentOnlyIfLost'
        BY <1>b, <2>1 DEF TypeOK, SpentOnlyIfLost
    <2>5. SentTokensUsable' /\ OperatorTokensWin' /\ MarkedForOwnFailure'
        BY <2>1 DEF TypeOK, SentTokensUsable, OperatorTokensWin, MarkedForOwnFailure
    <2> QED
        BY <2>2, <2>3, <2>4, <2>5
<1> QED
    BY <1>a, <1>b

\* Only the token that failed is marked.
LEMMA MarkFailedInv ==
    ASSUME CredentialInv, NEW t \in Tasks, MarkFailed(t)
    PROVE  CredentialInv'
<1> USE Constants DEF CredentialInv, MarkFailed, Unchanged, Marked, Finish, Unlocked, Goto,
        rowVars, taskVars, worldVars, historyVars
<1>1. TypeOK'
    BY ZenonT(40) DEF TypeOK, Row, Tokens, PCs, Locked
<1>2. LockHolder'
    BY DEF TypeOK, LockHolder, Locked
<1>3. InHand'
    <2>1. row' # None => row # None /\ row'.token = row.token
        BY DEF TypeOK, Row
    <2>2. pc'[t] \in {"idle", "fetch"}
        BY DEF TypeOK
    <2>3. \A u \in Tasks \ {t} : pc'[u] = pc[u] /\ held'[u] = held[u] /\ got'[u] = got[u]
        BY DEF TypeOK
    <2> QED
        BY <2>1, <2>2, <2>3 DEF InHand
<1>4. SpentOnlyIfLost'
    <2>1. row' # None => row # None /\ row'.token = row.token
        BY DEF TypeOK, Row
    <2>2. \A u \in Tasks : pc[u] = "write" => pc'[u] = "write" /\ held'[u] = held[u]
        BY DEF TypeOK
    <2>3. spent' = spent /\ lost' = lost
        OBVIOUS
    <2> QED
        BY <2>1, <2>2, <2>3 DEF SpentOnlyIfLost
<1>5. SentTokensUsable'
    BY DEF TypeOK, LockHolder, Locked, InHand, SpentOnlyIfLost, SentTokensUsable
<1>6. OperatorTokensWin'
    BY DEF TypeOK, InHand, OperatorTokensWin, Row, Tokens
<1>7. MarkedForOwnFailure'
    BY DEF TypeOK, InHand, MarkedForOwnFailure, Row, Tokens
<1> QED
    BY <1>1, <1>2, <1>3, <1>4, <1>5, <1>6, <1>7

\* A reload that reads the row changes no token.
LEMMA FetchInv ==
    ASSUME CredentialInv, NEW t \in Tasks, Fetch(t)
    PROVE  CredentialInv'
<1> USE Constants DEF CredentialInv, Fetch, Goto,
        rowVars, taskVars, worldVars, historyVars
<1>1. TypeOK'
    BY DEF TypeOK, Row, Tokens, PCs, Locked
<1>2. LockHolder'
    BY DEF TypeOK, LockHolder, Locked
<1>3. InHand'
    BY DEF TypeOK, LockHolder, Locked, InHand, Row, Tokens
<1>4. SpentOnlyIfLost'
    BY DEF TypeOK, InHand, SpentOnlyIfLost, Row, Tokens
<1>5. SentTokensUsable'
    BY DEF TypeOK, LockHolder, Locked, InHand, SpentOnlyIfLost, SentTokensUsable
<1>6. OperatorTokensWin'
    BY DEF TypeOK, InHand, OperatorTokensWin, Row, Tokens
<1>7. MarkedForOwnFailure'
    BY DEF TypeOK, InHand, MarkedForOwnFailure, Row, Tokens
<1> QED
    BY <1>1, <1>2, <1>3, <1>4, <1>5, <1>6, <1>7

\* Nor does one that stores what it has read; the lock is given back.
LEMMA StoreInv ==
    ASSUME CredentialInv, NEW t \in Tasks, Store(t)
    PROVE  CredentialInv'
<1> USE Constants DEF CredentialInv, Store, Ready, Finish, Unlocked, Goto,
        rowVars, taskVars, worldVars, historyVars
<1>1. TypeOK'
    BY DEF TypeOK, Row, Tokens, PCs, Locked
<1>2. LockHolder'
    BY DEF TypeOK, LockHolder, Locked
<1>3. InHand'
    <2>1. pc'[t] \in {"idle", "ready", "refetch"}
        BY DEF TypeOK
    <2>2. \A u \in Tasks \ {t} : pc'[u] = pc[u] /\ held'[u] = held[u] /\ got'[u] = got[u]
        BY DEF TypeOK
    <2> QED
        BY <2>1, <2>2 DEF InHand
<1>4. SpentOnlyIfLost'
    BY ZenonT(40) DEF TypeOK, InHand, SpentOnlyIfLost, Row, Tokens
<1>5. SentTokensUsable'
    BY DEF TypeOK, LockHolder, Locked, InHand, SpentOnlyIfLost, SentTokensUsable
<1>6. OperatorTokensWin'
    BY DEF TypeOK, InHand, OperatorTokensWin, Row, Tokens
<1>7. MarkedForOwnFailure'
    BY DEF TypeOK, InHand, MarkedForOwnFailure, Row, Tokens
<1> QED
    BY <1>1, <1>2, <1>3, <1>4, <1>5, <1>6, <1>7

\* The reload of a handler without the lock changes no token either.
LEMMA RestoreInv ==
    ASSUME CredentialInv, NEW t \in Tasks, Restore(t)
    PROVE  CredentialInv'
<1> USE Constants DEF CredentialInv, Restore, Finish, Unlocked, Goto,
        rowVars, taskVars, worldVars, historyVars
<1>1. TypeOK'
    BY DEF TypeOK, Row, Tokens, PCs, Locked
<1>2. LockHolder'
    BY DEF TypeOK, LockHolder, Locked
<1>3. InHand'
    BY DEF TypeOK, LockHolder, Locked, InHand, Row, Tokens
<1>4. SpentOnlyIfLost'
    BY DEF TypeOK, InHand, SpentOnlyIfLost, Row, Tokens
<1>5. SentTokensUsable'
    BY DEF TypeOK, LockHolder, Locked, InHand, SpentOnlyIfLost, SentTokensUsable
<1>6. OperatorTokensWin'
    BY DEF TypeOK, InHand, OperatorTokensWin, Row, Tokens
<1>7. MarkedForOwnFailure'
    BY DEF TypeOK, InHand, MarkedForOwnFailure, Row, Tokens
<1> QED
    BY <1>1, <1>2, <1>3, <1>4, <1>5, <1>6, <1>7

\* An operator's tokens are new to everybody who is inside the exchange.
LEMMA ReplaceTokensInv ==
    ASSUME CredentialInv, NEW t \in Tasks, NEW dated \in BOOLEAN, ReplaceTokens(t, dated)
    PROVE  CredentialInv'
<1> USE Constants DEF CredentialInv, ReplaceTokens, Goto,
        rowVars, taskVars, worldVars, historyVars
<1>0. issued + 1 \in Tokens /\ issued \in Nat
    BY DEF TypeOK, Tokens
<1>1. TypeOK'
    <2>1. spent' \subseteq 1 .. issued' /\ aging' \subseteq 1 .. issued'
            /\ undated' \subseteq 1 .. issued' /\ failed' \subseteq 1 .. issued'
            /\ installed' \in Tokens
        BY <1>0 DEF TypeOK
    <2>2. row' \in Row
        BY <1>0 DEF Row
    <2> QED
        BY <1>0, <2>1, <2>2 DEF TypeOK, PCs, Locked
<1>2. LockHolder'
    BY DEF TypeOK, LockHolder, Locked
<1>3. InHand'
    <2>1. row' # None => row'.token \in 1 .. issued'
        BY <1>0
    <2>2. pc'[t] = "refetch" /\ \A u \in Tasks \ {t} : pc'[u] = pc[u]
        BY DEF TypeOK
    <2>3. ASSUME NEW k \in 1 .. issued PROVE login'[k] = login[k] /\ k \in 1 .. issued'
        BY <1>0, <2>3 DEF TypeOK, Tokens
    <2> QED
        BY <1>0, <2>1, <2>2, <2>3 DEF InHand
<1>4. SpentOnlyIfLost'
    BY DEF TypeOK, InHand, SpentOnlyIfLost, Row, Tokens
<1>5. SentTokensUsable'
    BY DEF TypeOK, LockHolder, Locked, InHand, SpentOnlyIfLost, SentTokensUsable
<1>6. OperatorTokensWin'
    BY DEF TypeOK, InHand, OperatorTokensWin, Row, Tokens
<1>7. MarkedForOwnFailure'
    BY DEF TypeOK, InHand, MarkedForOwnFailure, Row, Tokens
<1> QED
    BY <1>1, <1>2, <1>3, <1>4, <1>5, <1>6, <1>7

\* Tokens that an operator stores once more are those of their login, and count
\* as lost if they are spent.
LEMMA ReplaceByKnownInv ==
    ASSUME CredentialInv, NEW t \in Tasks, NEW k \in Tokens, ReplaceByKnown(t, k)
    PROVE  CredentialInv'
<1> USE Constants DEF CredentialInv, ReplaceByKnown, Goto,
        rowVars, taskVars, worldVars, historyVars
<1>0. k \in 1 .. issued
    BY DEF TypeOK, Tokens
<1>1. TypeOK'
    <2>1. row' \in Row
        BY DEF Row
    <2> QED
        BY <2>1 DEF TypeOK, PCs, Locked
<1>2. LockHolder'
    BY DEF TypeOK, LockHolder, Locked
<1>3. InHand'
    <2>1. row' # None => row'.token \in 1 .. issued'
        BY <1>0
    <2>2. pc'[t] = "refetch" /\ \A u \in Tasks \ {t} : pc'[u] = pc[u]
        BY DEF TypeOK
    <2> QED
        BY <2>1, <2>2 DEF InHand
<1>4. SpentOnlyIfLost'
    BY DEF SpentOnlyIfLost
<1>5. SentTokensUsable'
    BY DEF TypeOK, SentTokensUsable
<1>6. OperatorTokensWin'
    BY DEF OperatorTokensWin
<1>7. MarkedForOwnFailure'
    BY DEF MarkedForOwnFailure
<1> QED
    BY <1>1, <1>2, <1>3, <1>4, <1>5, <1>6, <1>7

\* Without a row there is nothing to keep.
LEMMA DeleteProviderInv ==
    ASSUME CredentialInv, NEW t \in Tasks, DeleteProvider(t)
    PROVE  CredentialInv'
<1> USE Constants DEF CredentialInv, DeleteProvider, Goto,
        rowVars, taskVars, worldVars, historyVars
<1>1. TypeOK'
    BY DEF TypeOK, Row, Tokens, PCs, Locked
<1>2. LockHolder'
    BY DEF TypeOK, LockHolder, Locked
<1>3. InHand'
    BY DEF TypeOK, LockHolder, Locked, InHand, Row, Tokens
<1>4. SpentOnlyIfLost'
    BY DEF TypeOK, InHand, SpentOnlyIfLost, Row, Tokens
<1>5. SentTokensUsable'
    BY DEF TypeOK, LockHolder, Locked, InHand, SpentOnlyIfLost, SentTokensUsable
<1>6. OperatorTokensWin'
    BY DEF TypeOK, InHand, OperatorTokensWin, Row, Tokens
<1>7. MarkedForOwnFailure'
    BY DEF TypeOK, InHand, MarkedForOwnFailure, Row, Tokens
<1> QED
    BY <1>1, <1>2, <1>3, <1>4, <1>5, <1>6, <1>7

\* forget_provider only touches the snapshot.
LEMMA ForgetProviderInv ==
    ASSUME CredentialInv, NEW t \in Tasks, ForgetProvider(t)
    PROVE  CredentialInv'
<1> USE Constants DEF CredentialInv, ForgetProvider, Goto,
        rowVars, taskVars, worldVars, historyVars
<1>1. TypeOK'
    BY DEF TypeOK, Row, Tokens, PCs, Locked
<1>2. LockHolder'
    BY DEF TypeOK, LockHolder, Locked
<1>3. InHand'
    BY DEF TypeOK, LockHolder, Locked, InHand, Row, Tokens
<1>4. SpentOnlyIfLost'
    BY DEF TypeOK, InHand, SpentOnlyIfLost, Row, Tokens
<1>5. SentTokensUsable'
    BY DEF TypeOK, LockHolder, Locked, InHand, SpentOnlyIfLost, SentTokensUsable
<1>6. OperatorTokensWin'
    BY DEF TypeOK, InHand, OperatorTokensWin, Row, Tokens
<1>7. MarkedForOwnFailure'
    BY DEF TypeOK, InHand, MarkedForOwnFailure, Row, Tokens
<1> QED
    BY <1>1, <1>2, <1>3, <1>4, <1>5, <1>6, <1>7

\* A task that ends gives back the lock; a successor it has not written is lost.
LEMMA EndInv ==
    ASSUME CredentialInv, NEW t \in Tasks, End(t)
    PROVE  CredentialInv'
<1> USE Constants DEF CredentialInv, End, LostBy, Finish, Unlocked, Goto,
        rowVars, taskVars, worldVars, historyVars
<1>0. LostBy({t}) \subseteq spent
    BY DEF InHand
<1>1. TypeOK'
    BY <1>0 DEF TypeOK, PCs, Locked
<1>2. LockHolder'
    BY DEF TypeOK, LockHolder, Locked
<1>3. InHand'
    BY DEF TypeOK, LockHolder, Locked, InHand, Row, Tokens
<1>4. SpentOnlyIfLost'
    BY SMTT(30) DEF TypeOK, InHand, SpentOnlyIfLost, Row, Tokens
<1>5. SentTokensUsable'
    BY DEF TypeOK, LockHolder, Locked, InHand, SpentOnlyIfLost, SentTokensUsable
<1>6. OperatorTokensWin'
    BY DEF TypeOK, InHand, OperatorTokensWin, Row, Tokens
<1>7. MarkedForOwnFailure'
    BY DEF TypeOK, InHand, MarkedForOwnFailure, Row, Tokens
<1> QED
    BY <1>1, <1>2, <1>3, <1>4, <1>5, <1>6, <1>7

\* A restart ends every task, and what it was about to write is lost.
LEMMA RestartInv == CredentialInv /\ Restart => CredentialInv'
<1> SUFFICES ASSUME CredentialInv, Restart PROVE CredentialInv'
    OBVIOUS
<1> USE Constants DEF CredentialInv, Restart, LostBy, worldVars
<1>0. LostBy(Tasks) \subseteq spent
    BY DEF InHand
<1>1. TypeOK'
    BY <1>0 DEF TypeOK, PCs, Locked
<1>2. LockHolder' /\ InHand'
    BY DEF TypeOK, LockHolder, InHand, Locked
<1>3. SpentOnlyIfLost' /\ SentTokensUsable'
    BY DEF TypeOK, SpentOnlyIfLost, SentTokensUsable
<1>4. OperatorTokensWin' /\ MarkedForOwnFailure'
    BY DEF OperatorTokensWin, MarkedForOwnFailure
<1> QED
    BY <1>1, <1>2, <1>3, <1>4

\* The passing of time touches no token that is stored or under way.
LEMMA AgeInv == ASSUME CredentialInv, NEW k \in Tokens, Age(k) PROVE CredentialInv'
<1> USE DEF CredentialInv, Age, rowVars, taskVars, historyVars
<1>1. TypeOK'
    BY DEF TypeOK, Tokens
<1>2. LockHolder' /\ InHand' /\ SpentOnlyIfLost' /\ SentTokensUsable'
    BY DEF LockHolder, InHand, SpentOnlyIfLost, SentTokensUsable
<1>3. OperatorTokensWin' /\ MarkedForOwnFailure'
    BY DEF OperatorTokensWin, MarkedForOwnFailure
<1> QED
    BY <1>1, <1>2, <1>3

\* The invariant holds in every execution.
THEOREM CredentialInvariant == Spec => []CredentialInv
<1>1. Init => CredentialInv
    BY InitInv
<1>2. CredentialInv /\ [Next]_vars => CredentialInv'
    <2> SUFFICES ASSUME CredentialInv, [Next]_vars PROVE CredentialInv'
        OBVIOUS
    <2>1. ASSUME NEW t \in Tasks, TaskNext(t) PROVE CredentialInv'
        BY <2>1, BeginRequestInv, BeginRefreshInv, AcquireInv, ReadRowInv, ExchangeInv, ExchangeLostInv, ExchangeRefusedInv, WriteTokensInv, MarkFailedInv, FetchInv, StoreInv, RestoreInv, ReplaceTokensInv, ReplaceByKnownInv, DeleteProviderInv, ForgetProviderInv, EndInv
        DEF TaskNext
    <2>2. CASE UNCHANGED vars
        BY <2>2 DEF vars, rowVars, taskVars, worldVars, historyVars, CredentialInv, TypeOK,
            LockHolder, InHand, SpentOnlyIfLost, SentTokensUsable, OperatorTokensWin,
            MarkedForOwnFailure
    <2> QED
        BY <2>1, <2>2, RestartInv, AgeInv DEF Next
<1> QED
    BY <1>1, <1>2, PTL DEF Spec

\* All variables keep their types in every execution.
THEOREM CredentialTypes == Spec => []TypeOK
BY CredentialInvariant, PTL DEF CredentialInv

\* One task at a time holds the provider's lock, and no task keeps it.
THEOREM LockReturned == Spec => []LockHolder
BY CredentialInvariant, PTL DEF CredentialInv

(***************************************************************************)
(* refresh_if_needed and refresh_provider never send a refresh token that  *)
(* was exchanged before, unless its successor was lost on the way or an    *)
(* operator stored the spent token once more.                              *)
(***************************************************************************)
THEOREM SingleFlight == Spec => []SentTokensUsable
BY CredentialInvariant, PTL DEF CredentialInv

(***************************************************************************)
(* The stored refresh token is spent only while its successor is about to  *)
(* be written, or after it was lost or an operator put the spent token     *)
(* back: no interleaving of refreshes and deletions alone makes a          *)
(* credential unusable.                                                    *)
(***************************************************************************)
THEOREM CredentialKept == Spec => []SpentOnlyIfLost
BY CredentialInvariant, PTL DEF CredentialInv

\* A late refresh does not undo replace_provider_tokens.
THEOREM ReplacementWins == Spec => []OperatorTokensWin
BY CredentialInvariant, PTL DEF CredentialInv

\* A failed refresh does not mark tokens that were stored in the meantime.
THEOREM FailureMarksOwnTokens == Spec => []MarkedForOwnFailure
BY CredentialInvariant, PTL DEF CredentialInv
=============================================================================
