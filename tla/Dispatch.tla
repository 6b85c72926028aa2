------------------------------ MODULE Dispatch ------------------------------
(***************************************************************************)
(* One proxied call on its way to an upstream and, once, to another one.   *)
(*                                                                         *)
(* A call takes a Lease on a provider, which counts in Balancer.inflight   *)
(* until it is dropped, refreshes the provider's credential if it has to,  *)
(* sends the request and, when the answer is retryable, tries one other    *)
(* provider while it still holds the first lease and the first answer.  An *)
(* audio upload is kept in a spool file meanwhile.  Clients go away at any *)
(* await, which drops everything the call owns; providers are deleted      *)
(* under it.                                                               *)
(*                                                                         *)
(* The choice among the eligible providers is left open: the affinity of   *)
(* the call may name any of them, and least_inflight reads the counters of *)
(* other threads one by one.  Which providers are eligible in the snapshot *)
(* changes at any time, in the way ProviderStore describes; a deleted one  *)
(* may come back for a while.  Requests, headers and answers are reduced   *)
(* to whether the answer is retryable.                                     *)
(*                                                                         *)
(* A definition named D_Fault is D with a plausible programming error; it  *)
(* is used only to show that the properties notice that error.             *)
(***************************************************************************)
EXTENDS Integers, Sequences, FiniteSets

CONSTANTS
    Calls,          \* proxied calls
    Providers,      \* upstream providers
    UsizeModulus,   \* 2^64: AtomicUsize::fetch_sub wraps
    None            \* no entry in Balancer.inflight, no Lease

ASSUME WidthAssumption ==
    IsFiniteSet(Calls) /\ UsizeModulus \in Nat /\ 2 * Cardinality(Calls) < UsizeModulus

ASSUME NoneAssumption == None \notin Nat \cup Providers

VARIABLES
    eligible,   \* the providers select would accept from the snapshot
    deleted,    \* providers that forget_provider has run for
    inflight,   \* Balancer.inflight
    pc,         \* where the call is
    audio,      \* is it an audio upload?
    spool,      \* does its spool file exist?
    lease,      \* the provider of its Lease
    second,     \* the provider of a second Lease while it retries
    sent        \* the providers its request was sent to, in order

envVars  == <<eligible, deleted>>
callVars == <<pc, audio, spool, lease, second, sent>>
vars     == <<envVars, inflight, callVars>>

PCs == {"idle", "upload", "select", "refresh", "refresh_other", "send", "wait",
        "retry", "refresh_retry", "send_retry", "wait_retry", "relay", "done"}

\* The awaits of a running call, at each of which it may be dropped.
Running == PCs \ {"idle", "done"}

Init ==
    /\ eligible = Providers
    /\ deleted = {}
    /\ inflight = [p \in Providers |-> None]
    /\ pc = [c \in Calls |-> "idle"]
    /\ audio = [c \in Calls |-> FALSE]
    /\ spool = [c \in Calls |-> FALSE]
    /\ lease = [c \in Calls |-> None]
    /\ second = [c \in Calls |-> None]
    /\ sent = [c \in Calls |-> <<>>]

-----------------------------------------------------------------------------
(* Leases.                                                                 *)

\* entry(id).or_default().fetch_add(1)
Counted(counts, p) ==
    [counts EXCEPT ![p] = IF @ = None THEN 1 ELSE (@ + 1) % UsizeModulus]

\* Lease::drop of a lease on p; a forgotten provider has no counter.
Released_Forgotten(counts, p) ==
    IF p = None THEN counts ELSE [counts EXCEPT ![p] = None]

Released(counts, p) ==
    IF p = None THEN counts
    ELSE [counts EXCEPT ![p] = IF @ = None THEN @ ELSE (@ - 1) % UsizeModulus]

\* select's filter on excluded
Candidates_All(excluded) == eligible
Candidates(excluded) == eligible \ {excluded}

Goto(c, next) == pc' = [pc EXCEPT ![c] = next]

\* The call is over: whatever it still owns is dropped.
Ended(c) ==
    /\ Goto(c, "done")
    /\ inflight' = Released(Released(inflight, lease[c]), second[c])
    /\ lease' = [lease EXCEPT ![c] = None]
    /\ second' = [second EXCEPT ![c] = None]
    /\ spool' = [spool EXCEPT ![c] = FALSE]

\* c drops the lease it has, if any, and takes one on a provider not excluded.
TakeLease(c, excluded) ==
    \E p \in Candidates(excluded) :
        /\ inflight' = Counted(Released(inflight, lease[c]), p)
        /\ lease' = [lease EXCEPT ![c] = p]

-----------------------------------------------------------------------------
BeginJson(c) ==
    /\ pc[c] = "idle"
    /\ Goto(c, "select")
    /\ UNCHANGED <<envVars, inflight, audio, spool, lease, second, sent>>

\* AudioSpool::create opens the file, then copies the upload into it.
BeginAudio(c) ==
    /\ pc[c] = "idle"
    /\ Goto(c, "upload")
    /\ audio' = [audio EXCEPT ![c] = TRUE]
    /\ spool' = [spool EXCEPT ![c] = TRUE]
    /\ UNCHANGED <<envVars, inflight, lease, second, sent>>

Uploaded(c) ==
    /\ pc[c] = "upload"
    /\ Goto(c, "select")
    /\ UNCHANGED <<envVars, inflight, audio, spool, lease, second, sent>>

Select(c) ==
    /\ pc[c] = "select"
    /\ TakeLease(c, None)
    /\ Goto(c, "refresh")
    /\ UNCHANGED <<envVars, audio, spool, second, sent>>

\* refresh_if_needed found the token good, or renewed it.
RefreshOk(c) ==
    /\ pc[c] \in {"refresh", "refresh_other"}
    /\ Goto(c, "send")
    /\ UNCHANGED <<envVars, inflight, audio, spool, lease, second, sent>>

\* select_ready_provider drops the lease and selects once more without it.
RefreshErr(c) ==
    /\ pc[c] = "refresh"
    /\ TakeLease(c, lease[c])
    /\ Goto(c, "refresh_other")
    /\ UNCHANGED <<envVars, audio, spool, second, sent>>

Send(c) ==
    /\ pc[c] = "send"
    /\ sent' = [sent EXCEPT ![c] = Append(@, lease[c])]
    /\ Goto(c, "wait")
    /\ UNCHANGED <<envVars, inflight, audio, spool, lease, second>>

\* drop(spool), after which the answer is relayed under the lease that remains.
Relay_KeepsSpool(c) ==
    /\ Goto(c, "relay")
    /\ UNCHANGED spool

Relay(c) ==
    /\ Goto(c, "relay")
    /\ spool' = [spool EXCEPT ![c] = FALSE]

Answer(c, retryable) ==
    /\ pc[c] = "wait"
    /\ IF retryable THEN Goto(c, "retry") /\ UNCHANGED spool ELSE Relay(c)
    /\ UNCHANGED <<envVars, inflight, audio, lease, second, sent>>

\* retry_provider: a second lease while the first is still held ...
RetrySelect(c) ==
    /\ pc[c] = "retry"
    /\ \E p \in Candidates(lease[c]) :
         /\ inflight' = Counted(inflight, p)
         /\ second' = [second EXCEPT ![c] = p]
    /\ Goto(c, "refresh_retry")
    /\ UNCHANGED <<envVars, audio, spool, lease, sent>>

\* ... or no other provider: the first answer is relayed.
RetryNobody(c) ==
    /\ pc[c] = "retry"
    /\ Candidates(lease[c]) = {}
    /\ Relay(c)
    /\ UNCHANGED <<envVars, inflight, audio, lease, second, sent>>

\* The second credential is not ready: its lease is dropped and the first answer
\* is relayed.
RetryRefreshErr(c) ==
    /\ pc[c] = "refresh_retry"
    /\ inflight' = Released(inflight, second[c])
    /\ second' = [second EXCEPT ![c] = None]
    /\ Relay(c)
    /\ UNCHANGED <<envVars, audio, lease, sent>>

\* It is: the first answer and its lease are dropped.
RetryRefreshOk(c) ==
    /\ pc[c] = "refresh_retry"
    /\ inflight' = Released(inflight, lease[c])
    /\ lease' = [lease EXCEPT ![c] = second[c]]
    /\ second' = [second EXCEPT ![c] = None]
    /\ Goto(c, "send_retry")
    /\ UNCHANGED <<envVars, audio, spool, sent>>

SendRetry(c) ==
    /\ pc[c] = "send_retry"
    /\ sent' = [sent EXCEPT ![c] = Append(@, lease[c])]
    /\ Goto(c, "wait_retry")
    /\ UNCHANGED <<envVars, inflight, audio, spool, lease, second>>

AnswerRetry(c) ==
    /\ pc[c] = "wait_retry"
    /\ Relay(c)
    /\ UNCHANGED <<envVars, inflight, audio, lease, second, sent>>

\* The body was relayed; an error was returned with `?` (no eligible provider,
\* no credential, a broken upload, an upstream that cannot be reached, a spool
\* file that cannot be read); or the client went away.
End(c) ==
    /\ pc[c] \in Running
    /\ Ended(c)
    /\ UNCHANGED <<envVars, audio, sent>>

\* Balancer::forget_provider
ForgetProvider(p) ==
    /\ p \notin deleted
    /\ deleted' = deleted \cup {p}
    /\ eligible' = eligible \ {p}
    /\ inflight' = [inflight EXCEPT ![p] = None]
    /\ UNCHANGED callVars

\* Another snapshot was stored, or a cooldown ended.
SnapshotChanges(S) ==
    /\ eligible' = S
    /\ UNCHANGED <<deleted, inflight, callVars>>

-----------------------------------------------------------------------------
CallNext(c) ==
    \/ BeginJson(c) \/ BeginAudio(c) \/ Uploaded(c)
    \/ Select(c) \/ RefreshOk(c) \/ RefreshErr(c) \/ Send(c)
    \/ \E retryable \in BOOLEAN : Answer(c, retryable)
    \/ RetrySelect(c) \/ RetryNobody(c) \/ RetryRefreshErr(c) \/ RetryRefreshOk(c)
    \/ SendRetry(c) \/ AnswerRetry(c)
    \/ End(c)

Next ==
    \/ \E c \in Calls : CallNext(c)
    \/ \E p \in Providers : ForgetProvider(p)
    \/ \E S \in SUBSET Providers : SnapshotChanges(S)

Spec == Init /\ [][Next]_vars
-----------------------------------------------------------------------------
\* The types of all variables.
TypeOK ==
    /\ eligible \subseteq Providers
    /\ deleted \subseteq Providers
    /\ inflight \in [Providers -> 0 .. UsizeModulus - 1 \cup {None}]
    /\ pc \in [Calls -> PCs]
    /\ audio \in [Calls -> BOOLEAN]
    /\ spool \in [Calls -> BOOLEAN]
    /\ lease \in [Calls -> Providers \cup {None}]
    /\ second \in [Calls -> Providers \cup {None}]
    /\ sent \in [Calls -> Seq(Providers)]

LeasesOn(p) ==
    Cardinality({c \in Calls : lease[c] = p}) + Cardinality({c \in Calls : second[c] = p})

(***************************************************************************)
(* The load that least_inflight compares is right: as long as a provider   *)
(* is not deleted its counter is the number of leases that calls hold on   *)
(* it, whichever way they end.  One missed drop would keep traffic away    *)
(* from a provider for good, one drop too many would wrap its counter to   *)
(* 2^64 - 1.                                                               *)
(***************************************************************************)
InflightExact ==
    \A p \in Providers \ deleted :
        (IF inflight[p] = None THEN 0 ELSE inflight[p]) = LeasesOn(p)

(***************************************************************************)
(* A request, which is not idempotent, reaches at most two upstreams and   *)
(* none of them twice, although credentials fail and providers come and go *)
(* between the selections.                                                 *)
(***************************************************************************)
RetriedElsewhere ==
    \A c \in Calls :
        /\ Len(sent[c]) <= 2
        /\ \A i, j \in DOMAIN sent[c] : i # j => sent[c][i] # sent[c][j]

(***************************************************************************)
(* What is relayed is the answer of the provider that was asked last, and  *)
(* its lease, and no other, is held until the end.                         *)
(***************************************************************************)
RelayHoldsLease ==
    \A c \in Calls :
        pc[c] = "relay" => lease[c] = sent[c][Len(sent[c])] /\ second[c] = None

(***************************************************************************)
(* A spool file lives no longer than the attempts that may need it.        *)
(***************************************************************************)
SpoolForRetryOnly ==
    \A c \in Calls : spool[c] => audio[c] /\ pc[c] \in Running \ {"relay"}
=============================================================================
