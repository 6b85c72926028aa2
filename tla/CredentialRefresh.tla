------------------------- MODULE CredentialRefresh -------------------------
(***************************************************************************)
(* The tokens of one provider and everybody who renews them.               *)
(*                                                                         *)
(* A request whose lease has an access token about to expire refreshes it  *)
(* (refresh_if_needed), an operator refreshes it at will (refresh_provider)*)
(* or replaces it by the tokens of another login, and the provider may be  *)
(* deleted.  Both refreshes hold the provider's lock in refresh_locks over *)
(* the whole exchange, while a replacement does not; both write the new    *)
(* tokens only over the refresh token they have used.  A client that goes  *)
(* away drops its handler, and the lock with it, at any await; the process *)
(* may be restarted.                                                       *)
(*                                                                         *)
(* The token endpoint is external: it exchanges a refresh token once, for  *)
(* a new pair of tokens.  A number stands for a pair (access and refresh   *)
(* token); pairs never repeat.  Of a provider's row only the tokens and    *)
(* whether they were marked as unusable are kept; what else happens to the *)
(* status is in ProviderStore.                                             *)
(*                                                                         *)
(* A definition named D_Fault is D with a plausible programming error; it  *)
(* is used only to show that the properties notice that error.             *)
(***************************************************************************)
EXTENDS Integers

CONSTANTS
    Tasks,      \* requests and API handlers
    MaxTokens,  \* bound: pairs of tokens the endpoint issues
    None        \* no row, nobody

ASSUME BoundAssumption == MaxTokens \in Nat \ {0}

Tokens == 1 .. MaxTokens

Row == [token : Tokens, status : {"active", "auth_error"}]

ASSUME NoneAssumption == None \notin Tasks /\ None \notin Tokens /\ None \notin Row

VARIABLES
    row,        \* the provider's row
    snapshot,   \* what Balancer.providers has of it
    lock,       \* who holds its entry of refresh_locks
    pc,         \* where the task is
    operator,   \* is it an operator's refresh?
    lease,      \* the tokens a request would use
    held,       \* the tokens read under the lock
    got,        \* the tokens the endpoint answered
    seen,       \* the row a reload is about to store
    \* the world outside
    issued,     \* pairs issued so far
    spent,      \* pairs whose refresh token was exchanged
    aging,      \* pairs whose access token ends within a minute
    undated,    \* pairs whose access token tells no end
    \* history
    lost,       \* spent pairs whose successor reached nobody, or which an
                \* operator stored once more
    failed,     \* pairs with which an exchange failed
    login,      \* the login a pair descends from
    installed   \* the login of the last pair an operator has stored

rowVars     == <<row, snapshot>>
taskVars    == <<pc, operator, lease, held, got, seen>>
worldVars   == <<issued, spent, aging, undated>>
historyVars == <<lost, failed, login, installed>>
vars == <<rowVars, lock, taskVars, worldVars, historyVars>>

\* A task at one of these places holds the lock.
Locked == {"read", "exchange", "write", "mark", "fetch", "store"}

PCs == Locked \cup {"idle", "lock", "ready", "forget", "refetch", "restore"}

Init ==
    /\ row = [token |-> 1, status |-> "active"]
    /\ snapshot = row
    /\ lock = None
    /\ pc = [t \in Tasks |-> "idle"]
    /\ operator = [t \in Tasks |-> FALSE]
    /\ lease = [t \in Tasks |-> None]
    /\ held = [t \in Tasks |-> None]
    /\ got = [t \in Tasks |-> None]
    /\ seen = [t \in Tasks |-> None]
    /\ issued = 1
    /\ spent = {}
    /\ aging = {}
    /\ undated \in SUBSET {1}
    /\ lost = {}
    /\ failed = {}
    /\ login = [k \in Tokens |-> 1]
    /\ installed = 1

-----------------------------------------------------------------------------
Goto(t, next) == pc' = [pc EXCEPT ![t] = next]

\* The guard of refresh_locks, if t has it, is dropped.
Unlocked_NotOnError(t) == lock
Unlocked(t) == IF lock = t THEN None ELSE lock

\* t ends, or is dropped: its variables are no longer looked at.
Finish(t) ==
    /\ Goto(t, "idle")
    /\ lock' = Unlocked(t)
    /\ operator' = [operator EXCEPT ![t] = FALSE]
    /\ lease' = [lease EXCEPT ![t] = None]
    /\ held' = [held EXCEPT ![t] = None]
    /\ got' = [got EXCEPT ![t] = None]
    /\ seen' = [seen EXCEPT ![t] = None]

\* A request goes on with the lease it has.
Ready(t, k) ==
    /\ Goto(t, "ready")
    /\ lock' = Unlocked(t)
    /\ lease' = [lease EXCEPT ![t] = k]
    /\ held' = [held EXCEPT ![t] = None]
    /\ got' = [got EXCEPT ![t] = None]
    /\ seen' = [seen EXCEPT ![t] = None]
    /\ UNCHANGED operator

\* Balancer::select took the lease; refresh_if_needed looks at its end.
BeginRequest(t) ==
    /\ pc[t] = "idle"
    /\ snapshot # None
    /\ snapshot.status = "active"
    /\ lease' = [lease EXCEPT ![t] = snapshot.token]
    /\ Goto(t, IF snapshot.token \in undated \/ snapshot.token \notin aging
               THEN "ready" ELSE "lock")
    /\ UNCHANGED <<rowVars, lock, operator, held, got, seen, worldVars, historyVars>>

\* update_provider with refresh
BeginRefresh(t) ==
    /\ pc[t] = "idle"
    /\ row # None
    /\ operator' = [operator EXCEPT ![t] = TRUE]
    /\ Goto(t, "lock")
    /\ UNCHANGED <<rowVars, lock, lease, held, got, seen, worldVars, historyVars>>

Acquire(t) ==
    /\ pc[t] = "lock"
    /\ lock = None
    /\ lock' = t
    /\ Goto(t, "read")
    /\ UNCHANGED <<rowVars, operator, lease, held, got, seen, worldVars, historyVars>>

\* Somebody else has refreshed meanwhile; tokens that tell no end do not count.
AlreadyRenewed(t) ==
    ~ operator[t] /\ row.token \notin undated /\ row.token \notin aging

\* The refresh token the task is going to use.
TokenToUse_OfLease(t) == IF operator[t] THEN row.token ELSE lease[t]
TokenToUse(t) == row.token

ReadRow(t) ==
    /\ pc[t] = "read"
    /\ \/ row = None /\ Finish(t)
       \/ row # None /\ AlreadyRenewed(t) /\ Ready(t, row.token)
       \/ /\ row # None
          /\ ~ AlreadyRenewed(t)
          /\ held' = [held EXCEPT ![t] = TokenToUse(t)]
          /\ Goto(t, "exchange")
          /\ UNCHANGED <<lock, operator, lease, got, seen>>
    /\ UNCHANGED <<rowVars, worldVars, historyVars>>

-----------------------------------------------------------------------------
(* The token endpoint.                                                     *)

Exchange(t) ==
    /\ pc[t] = "exchange"
    /\ held[t] \notin spent
    /\ issued < MaxTokens
    /\ issued' = issued + 1
    /\ spent' = spent \cup {held[t]}
    /\ login' = [login EXCEPT ![issued + 1] = login[held[t]]]
    /\ got' = [got EXCEPT ![t] = issued + 1]
    /\ Goto(t, "write")
    /\ UNCHANGED <<rowVars, lock, operator, lease, held, seen, aging, undated,
                   lost, failed, installed>>

\* The refresh token was exchanged, but the answer did not arrive or was not
\* complete.
ExchangeLost(t) ==
    /\ pc[t] = "exchange"
    /\ held[t] \notin spent
    /\ spent' = spent \cup {held[t]}
    /\ lost' = lost \cup {held[t]}
    /\ failed' = failed \cup {held[t]}
    /\ Goto(t, "mark")
    /\ UNCHANGED <<rowVars, lock, operator, lease, held, got, seen, issued, aging,
                   undated, login, installed>>

\* The endpoint was not reached or refused.
ExchangeRefused(t) ==
    /\ pc[t] = "exchange"
    /\ failed' = failed \cup {held[t]}
    /\ Goto(t, "mark")
    /\ UNCHANGED <<rowVars, lock, operator, lease, held, got, seen, worldVars, lost,
                   login, installed>>

-----------------------------------------------------------------------------
\* WHERE id=? AND refresh_token=?
Unchanged_ById(t) == row # None
Unchanged(t) == row # None /\ row.token = held[t]

\* The row with the rotated tokens.
Rotated_AccessOnly(t) == [row EXCEPT !.status = "active"]
Rotated(t) == [token |-> got[t], status |-> "active"]

WriteTokens(t) ==
    /\ pc[t] = "write"
    /\ \/ /\ Unchanged(t)
          /\ row' = Rotated(t)
          /\ lease' = [lease EXCEPT ![t] = IF operator[t] THEN None ELSE got[t]]
          /\ Goto(t, "fetch")
          /\ UNCHANGED <<lock, operator, held, got, seen>>
       \/ /\ ~ Unchanged(t)
          /\ Finish(t)
          /\ UNCHANGED row
    /\ UNCHANGED <<snapshot, worldVars, historyVars>>

\* The row after the failure of an exchange.
Marked_ById(t) == IF row # None THEN [row EXCEPT !.status = "auth_error"] ELSE row
Marked(t) == IF Unchanged(t) THEN [row EXCEPT !.status = "auth_error"] ELSE row

\* A request marks the provider and reloads before it fails; an operator just
\* gets the error.
MarkFailed(t) ==
    /\ pc[t] = "mark"
    /\ \/ operator[t] /\ Finish(t) /\ UNCHANGED row
       \/ /\ ~ operator[t]
          /\ row' = Marked(t)
          /\ Goto(t, "fetch")
          /\ UNCHANGED <<lock, operator, lease, held, got, seen>>
    /\ UNCHANGED <<snapshot, worldVars, historyVars>>

\* reload_providers, with and without the lock
Fetch(t) ==
    /\ pc[t] \in {"fetch", "refetch"}
    /\ seen' = [seen EXCEPT ![t] = row]
    /\ Goto(t, IF pc[t] = "fetch" THEN "store" ELSE "restore")
    /\ UNCHANGED <<rowVars, lock, operator, lease, held, got, worldVars, historyVars>>

\* The end of a refresh: the request is ready or fails, the operator's handler
\* reloads once more on its own.
Store(t) ==
    /\ pc[t] = "store"
    /\ snapshot' = seen[t]
    /\ \/ ~ operator[t] /\ got[t] # None /\ Ready(t, lease[t])
       \/ ~ operator[t] /\ got[t] = None /\ Finish(t)
       \/ /\ operator[t]
          /\ Goto(t, "refetch")
          /\ lock' = Unlocked(t)
          /\ held' = [held EXCEPT ![t] = None]
          /\ got' = [got EXCEPT ![t] = None]
          /\ seen' = [seen EXCEPT ![t] = None]
          /\ UNCHANGED <<operator, lease>>
    /\ UNCHANGED <<row, worldVars, historyVars>>

Restore(t) ==
    /\ pc[t] = "restore"
    /\ snapshot' = seen[t]
    /\ Finish(t)
    /\ UNCHANGED <<row, worldVars, historyVars>>

\* replace_provider_token_values, with the tokens of a login made for it or with
\* tokens seen before, which may be spent by now; it takes no lock.
ReplaceTokens(t, dated) ==
    /\ pc[t] = "idle"
    /\ row # None
    /\ issued < MaxTokens
    /\ issued' = issued + 1
    /\ undated' = IF dated THEN undated ELSE undated \cup {issued + 1}
    /\ login' = [login EXCEPT ![issued + 1] = issued + 1]
    /\ installed' = issued + 1
    /\ row' = [token |-> issued + 1, status |-> "active"]
    /\ Goto(t, "refetch")
    /\ UNCHANGED <<snapshot, lock, operator, lease, held, got, seen, spent, aging,
                   lost, failed>>

ReplaceByKnown(t, k) ==
    /\ pc[t] = "idle"
    /\ row # None
    /\ k <= issued
    /\ lost' = lost \cup ({k} \cap spent)
    /\ installed' = login[k]
    /\ row' = [token |-> k, status |-> "active"]
    /\ Goto(t, "refetch")
    /\ UNCHANGED <<snapshot, lock, operator, lease, held, got, seen, worldVars,
                   failed, login>>

DeleteProvider(t) ==
    /\ pc[t] = "idle"
    /\ row # None
    /\ row' = None
    /\ Goto(t, "forget")
    /\ UNCHANGED <<snapshot, lock, operator, lease, held, got, seen, worldVars,
                   historyVars>>

ForgetProvider(t) ==
    /\ pc[t] = "forget"
    /\ snapshot' = None
    /\ Goto(t, "refetch")
    /\ UNCHANGED <<row, lock, operator, lease, held, got, seen, worldVars, historyVars>>

\* A pair whose successor is dropped together with the tasks in S.
LostBy(S) == {held[t] : t \in {u \in S : pc[u] = "write"}}

\* The request was sent upstream and is over; or a handler ends while it waits,
\* since its client went away or a statement failed.
End(t) ==
    /\ pc[t] \in PCs \ {"idle", "store", "restore"}
    /\ lost' = lost \cup LostBy({t})
    /\ Finish(t)
    /\ UNCHANGED <<rowVars, worldVars, failed, login, installed>>

\* The process ends and starts again: Balancer::hydrate.
Restart ==
    /\ lost' = lost \cup LostBy(Tasks)
    /\ lock' = None
    /\ pc' = [t \in Tasks |-> "idle"]
    /\ operator' = [t \in Tasks |-> FALSE]
    /\ lease' = [t \in Tasks |-> None]
    /\ held' = [t \in Tasks |-> None]
    /\ got' = [t \in Tasks |-> None]
    /\ seen' = [t \in Tasks |-> None]
    /\ snapshot' = row
    /\ UNCHANGED <<row, worldVars, failed, login, installed>>

\* Time passes, and an access token that tells its end comes near it.
Age(k) ==
    /\ k <= issued
    /\ k \notin aging \cup undated
    /\ aging' = aging \cup {k}
    /\ UNCHANGED <<rowVars, lock, taskVars, issued, spent, undated, historyVars>>

-----------------------------------------------------------------------------
TaskNext(t) ==
    \/ BeginRequest(t) \/ BeginRefresh(t) \/ Acquire(t) \/ ReadRow(t)
    \/ Exchange(t) \/ ExchangeLost(t) \/ ExchangeRefused(t)
    \/ WriteTokens(t) \/ MarkFailed(t) \/ Fetch(t) \/ Store(t) \/ Restore(t)
    \/ \E dated \in BOOLEAN : ReplaceTokens(t, dated)
    \/ \E k \in Tokens : ReplaceByKnown(t, k)
    \/ DeleteProvider(t) \/ ForgetProvider(t)
    \/ End(t)

Next ==
    \/ \E t \in Tasks : TaskNext(t)
    \/ Restart
    \/ \E k \in Tokens : Age(k)

Spec == Init /\ [][Next]_vars

-----------------------------------------------------------------------------
\* The types of all variables.
TypeOK ==
    /\ row \in Row \cup {None}
    /\ snapshot \in Row \cup {None}
    /\ lock \in Tasks \cup {None}
    /\ pc \in [Tasks -> PCs]
    /\ operator \in [Tasks -> BOOLEAN]
    /\ lease \in [Tasks -> Tokens \cup {None}]
    /\ held \in [Tasks -> Tokens \cup {None}]
    /\ got \in [Tasks -> Tokens \cup {None}]
    /\ seen \in [Tasks -> Row \cup {None}]
    /\ issued \in Tokens
    /\ spent \subseteq 1 .. issued
    /\ aging \subseteq 1 .. issued
    /\ undated \subseteq 1 .. issued
    /\ lost \subseteq spent
    /\ failed \subseteq 1 .. issued
    /\ login \in [Tokens -> Tokens]
    /\ installed \in Tokens

(***************************************************************************)
(* Single flight (the test concurrent_refresh_is_singleflight): no refresh *)
(* token is sent to the endpoint again after it was exchanged, whoever     *)
(* waits for the lock meanwhile, unless its successor was lost on the way  *)
(* or an operator stored the spent token once more.                        *)
(***************************************************************************)
SentTokensUsable ==
    \A t \in Tasks : pc[t] = "exchange" => held[t] \notin spent \/ held[t] \in lost

(***************************************************************************)
(* The stored refresh token is spent only while its successor is about to  *)
(* be written, or after the successor was lost or an operator put the      *)
(* spent token back.                                                       *)
(***************************************************************************)
SpentOnlyIfLost ==
    row # None /\ row.token \in spent =>
        \/ row.token \in lost
        \/ \E t \in Tasks : pc[t] = "write" /\ held[t] = row.token

(***************************************************************************)
(* Tokens stored by an operator are never overwritten by those of an older *)
(* login, although a refresh that started with the older ones is still on  *)
(* its way and the operator takes no lock.                                 *)
(***************************************************************************)
OperatorTokensWin == row # None => login[row.token] = installed

(***************************************************************************)
(* A provider is marked only for a failure of the tokens it has, not of    *)
(* tokens that were replaced while the exchange was under way.             *)
(***************************************************************************)
MarkedForOwnFailure == row # None /\ row.status = "auth_error" => row.token \in failed

(***************************************************************************)
(* The guard of refresh_locks is held by exactly the task that is between  *)
(* reading the row and storing the snapshot, and given back on every way   *)
(* out of it: a guard that outlives its task would block the provider.     *)
(***************************************************************************)
LockHolder == \A t \in Tasks : pc[t] \in Locked <=> lock = t
=============================================================================
