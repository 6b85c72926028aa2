--------------------------- MODULE DispatchProofs ---------------------------
(***************************************************************************)
(* Proofs about Dispatch, for any number of calls and providers, and any   *)
(* width of the counters that two leases of every call fit into.           *)
(*                                                                         *)
(* What a call owns is determined by where it is (Place): at most two      *)
(* leases, a second one only between the selection for the retry and the   *)
(* refresh, and what was sent so far names its first lease.  The           *)
(* properties of one call follow from that.  The counters follow from a    *)
(* count of the leases: each step takes or drops a lease in the same       *)
(* breath as it changes a counter, and no counter that is not deleted can  *)
(* reach zero or the modulus while a lease is out.                         *)
(***************************************************************************)
EXTENDS Dispatch, FiniteSetTheorems, TLAPS

\* Where a call is tells what it owns and what it has sent.
Place(c) ==
    /\ pc[c] \in {"idle", "upload", "select", "done"} => lease[c] = None
    /\ pc[c] \in PCs \ {"idle", "upload", "select", "done"} => lease[c] \in Providers
    /\ pc[c] = "refresh_retry" => second[c] \in Providers /\ second[c] # lease[c]
    /\ pc[c] # "refresh_retry" => second[c] = None
    /\ pc[c] \in {"idle", "upload", "select", "refresh", "refresh_other", "send"} =>
           Len(sent[c]) = 0
    /\ pc[c] \in {"wait", "retry", "refresh_retry"} =>
           Len(sent[c]) = 1 /\ sent[c][1] = lease[c]
    /\ pc[c] = "send_retry" => Len(sent[c]) = 1 /\ sent[c][1] # lease[c]
    /\ pc[c] = "wait_retry" => Len(sent[c]) = 2 /\ sent[c][2] = lease[c]
    /\ pc[c] = "relay" => Len(sent[c]) > 0 /\ sent[c][Len(sent[c])] = lease[c]
    /\ Len(sent[c]) <= 2
    /\ Len(sent[c]) = 2 => sent[c][1] # sent[c][2]

Places == \A c \in Calls : Place(c)

DispatchInv == TypeOK /\ Places /\ SpoolForRetryOnly /\ InflightExact

-----------------------------------------------------------------------------
(* Counting leases.                                                        *)

Holders(f, p) == {c \in Calls : f[c] = p}

\* One if the two are the same provider.
One(p, q) == IF p = q THEN 1 ELSE 0

Count(counts, p) == IF counts[p] = None THEN 0 ELSE counts[p]

Counters == [Providers -> 0 .. UsizeModulus - 1 \cup {None}]

\* The number of calls that hold a lease on p is a number, not above that of
\* the calls.
LEMMA HoldersBound ==
    ASSUME NEW f, NEW p
    PROVE  /\ IsFiniteSet(Holders(f, p))
           /\ Cardinality(Holders(f, p)) \in Nat
           /\ Cardinality(Holders(f, p)) <= Cardinality(Calls)
           /\ Cardinality(Calls) \in Nat
<1>1. Holders(f, p) \in SUBSET Calls
    BY DEF Holders
<1>2. IsFiniteSet(Holders(f, p)) /\ Cardinality(Holders(f, p)) <= Cardinality(Calls)
    BY <1>1, FS_Subset, WidthAssumption
<1> QED
    BY <1>2, FS_CardinalityType, WidthAssumption

\* When one call changes its lease, one holder goes and one comes.
LEMMA HoldersChange ==
    ASSUME NEW f \in [Calls -> Providers \cup {None}], NEW c \in Calls,
           NEW q \in Providers \cup {None}, NEW p \in Providers
    PROVE  Cardinality(Holders([f EXCEPT ![c] = q], p)) + One(f[c], p)
             = Cardinality(Holders(f, p)) + One(q, p)
<1> DEFINE H == Holders(f, p)
           G == Holders([f EXCEPT ![c] = q], p)
<1>1. IsFiniteSet(H) /\ Cardinality(H) \in Nat
    BY HoldersBound
<1>2. c \in H <=> f[c] = p
    BY DEF Holders
<1>3. CASE f[c] = p /\ q = p
    <2>1. G = H
        BY <1>3 DEF Holders
    <2> QED
        BY <1>1, <1>3, <2>1 DEF One
<1>4. CASE f[c] # p /\ q # p
    <2>1. G = H
        BY <1>4 DEF Holders
    <2> QED
        BY <1>1, <1>4, <2>1 DEF One
<1>5. CASE f[c] = p /\ q # p
    <2>1. G = H \ {c}
        BY <1>5 DEF Holders
    <2>2. Cardinality(G) = Cardinality(H) - 1
        <3>1. c \in H /\ IsFiniteSet(H)
            BY <1>1, <1>2, <1>5
        <3> HIDE DEF H, G
        <3>2. Cardinality(H \ {c}) = Cardinality(H) - 1
            BY <3>1, FS_RemoveElement
        <3> QED
            BY <2>1, <3>2
    <2> QED
        BY <1>1, <1>5, <2>2 DEF One
<1>6. CASE f[c] # p /\ q = p
    <2>1. G = H \cup {c}
        BY <1>6 DEF Holders
    <2>2. Cardinality(G) = Cardinality(H) + 1
        <3>1. c \notin H /\ IsFiniteSet(H)
            BY <1>1, <1>2, <1>6
        <3> HIDE DEF H, G
        <3>2. Cardinality(H \cup {c}) = Cardinality(H) + 1
            BY <3>1, FS_AddElement
        <3> QED
            BY <2>1, <3>2
    <2> QED
        BY <1>1, <1>6, <2>2 DEF One
<1> QED
    BY <1>3, <1>4, <1>5, <1>6

\* A call that holds a lease on p counts.
LEMMA HolderCounts ==
    ASSUME NEW f, NEW p, NEW c \in Calls, f[c] = p
    PROVE  Cardinality(Holders(f, p)) >= 1
<1>1. c \in Holders(f, p)
    BY DEF Holders
<1>2. Cardinality(Holders(f, p)) # 0
    BY <1>1, HoldersBound, FS_EmptySet
<1> QED
    BY <1>2, HoldersBound

\* What % does within the range of a counter.
LEMMA Modulo ==
    ASSUME NEW m \in Nat, m > 0
    PROVE  /\ \A n \in 0 .. m - 1 : n % m = n
           /\ \A n \in Int : n % m \in 0 .. m - 1
OBVIOUS

\* fetch_add: the counter of the provider goes up by one, unless it is full.
LEMMA CountedBy ==
    ASSUME NEW counts \in Counters, NEW q \in Providers, NEW p \in Providers,
           UsizeModulus > 1
    PROVE  /\ Counted(counts, q) \in Counters
           /\ Count(counts, p) + One(q, p) < UsizeModulus =>
                  Count(Counted(counts, q), p) = Count(counts, p) + One(q, p)
<1> USE WidthAssumption, NoneAssumption DEF Counters
<1> DEFINE n == counts[q]
           next == IF n = None THEN 1 ELSE (n + 1) % UsizeModulus
<1>1. next \in 0 .. UsizeModulus - 1
    <2>1. CASE n # None
        <3>1. n + 1 \in Int
            BY <2>1
        <3> QED
            BY <2>1, <3>1, Modulo
    <2> QED
        BY <2>1
<1>2. Counted(counts, q) = [counts EXCEPT ![q] = next]
    BY DEF Counted
<1>3. Counted(counts, q) \in Counters
    BY <1>1, <1>2
<1>4. CASE p = q
    <2>1. Counted(counts, q)[p] = next /\ next # None
        BY <1>1, <1>2, <1>4
    <2>2. CASE n # None /\ n + 1 < UsizeModulus
        <3>1. n + 1 \in 0 .. UsizeModulus - 1
            BY <2>2
        <3>2. next = n + 1
            BY <2>2, <3>1, Modulo
        <3> QED
            BY <1>3, <1>4, <2>1, <2>2, <3>2 DEF Count, One
    <2> QED
        BY <1>3, <1>4, <2>1, <2>2 DEF Count, One
<1>5. CASE p # q
    BY <1>2, <1>3, <1>5 DEF Count, One
<1> QED
    BY <1>3, <1>4, <1>5

\* Lease::drop: the counter of the provider goes down by one, unless it is
\* zero or gone.
LEMMA ReleasedBy ==
    ASSUME NEW counts \in Counters, NEW q \in Providers \cup {None}, NEW p \in Providers
    PROVE  /\ Released(counts, q) \in Counters
           /\ Count(counts, p) >= One(q, p) =>
                  Count(Released(counts, q), p) = Count(counts, p) - One(q, p)
<1> USE WidthAssumption, NoneAssumption DEF Counters
<1>1. CASE q = None
    BY <1>1 DEF Released, Count, One
<1>2. CASE q \in Providers /\ counts[q] = None
    <2>1. Released(counts, q) = counts
        BY <1>2 DEF Released
    <2> QED
        BY <1>2, <2>1 DEF Count, One
<1>3. CASE q \in Providers /\ counts[q] # None
    <2> DEFINE n == counts[q]
               next == (n - 1) % UsizeModulus
    <2>1. n \in 0 .. UsizeModulus - 1 /\ UsizeModulus > 0
        BY <1>3
    <2>2. next \in 0 .. UsizeModulus - 1
        BY <2>1, Modulo
    <2>3. Released(counts, q) = [counts EXCEPT ![q] = next]
        BY <1>2, <1>3 DEF Released
    <2>4. Released(counts, q) \in Counters
        BY <2>2, <2>3
    <2>5. CASE p = q
        <3>1. Released(counts, q)[p] = next /\ next # None
            BY <2>2, <2>3, <2>5
        <3>2. CASE n >= 1
            <4>1. n - 1 \in 0 .. UsizeModulus - 1
                BY <2>1, <3>2
            <4>2. next = n - 1
                BY <2>1, <4>1, Modulo
            <4> QED
                BY <1>3, <2>1, <2>4, <2>5, <3>1, <4>2 DEF Count, One
        <3> QED
            BY <1>3, <2>1, <2>4, <2>5, <3>1, <3>2 DEF Count, One
    <2>6. CASE p # q
        BY <2>3, <2>4, <2>6 DEF Count, One
    <2> QED
        BY <2>4, <2>5, <2>6
<1> QED
    BY <1>1, <1>2, <1>3

-----------------------------------------------------------------------------
(* What one step does to the leases of one call.                           *)

\* A step of the call c that changes its leases to l and s, and the counters
\* along with them: drops come first, and only what changes is touched.
Leases(c, l, s) ==
    /\ lease' = [lease EXCEPT ![c] = l]
    /\ second' = [second EXCEPT ![c] = s]

\* The number of leases before and after such a step.
LEMMA LeasesChange ==
    ASSUME TypeOK, NEW c \in Calls, NEW l \in Providers \cup {None},
           NEW s \in Providers \cup {None}, Leases(c, l, s), NEW p \in Providers
    PROVE  /\ LeasesOn(p)' + One(lease[c], p) + One(second[c], p)
                = LeasesOn(p) + One(l, p) + One(s, p)
           /\ LeasesOn(p) \in Nat /\ LeasesOn(p)' \in Nat
           /\ LeasesOn(p)' < UsizeModulus
           /\ One(lease[c], p) + One(second[c], p) <= LeasesOn(p)
<1> DEFINE L == Cardinality(Holders(lease, p))
           S == Cardinality(Holders(second, p))
           M == Cardinality(Holders(lease', p))
           T == Cardinality(Holders(second', p))
<1>1. LeasesOn(p) = L + S /\ LeasesOn(p)' = M + T
    BY DEF LeasesOn, Holders
<1>2. lease \in [Calls -> Providers \cup {None}] /\ second \in [Calls -> Providers \cup {None}]
    BY DEF TypeOK
<1>3. M + One(lease[c], p) = L + One(l, p)
    BY <1>2, HoldersChange DEF Leases
<1>4. T + One(second[c], p) = S + One(s, p)
    BY <1>2, HoldersChange DEF Leases
<1>5. L \in Nat /\ S \in Nat /\ M \in Nat /\ T \in Nat
    BY HoldersBound
<1>6. M <= Cardinality(Calls) /\ T <= Cardinality(Calls) /\ Cardinality(Calls) \in Nat
    BY HoldersBound
<1>7. One(lease[c], p) <= L
    BY HolderCounts, <1>5 DEF One
<1>8. One(second[c], p) <= S
    BY HolderCounts, <1>5 DEF One
<1>9. One(lease[c], p) \in Nat /\ One(second[c], p) \in Nat /\ One(l, p) \in Nat
        /\ One(s, p) \in Nat
    BY DEF One
<1> HIDE DEF L, S, M, T
<1>10. LeasesOn(p)' < UsizeModulus
    BY <1>1, <1>5, <1>6, WidthAssumption
<1> QED
    BY <1>1, <1>3, <1>4, <1>5, <1>7, <1>8, <1>9, <1>10

\* A counter is exact after the drop of the two leases of a call ...
LEMMA DropBoth ==
    ASSUME TypeOK, InflightExact, NEW c \in Calls, Leases(c, None, None),
           inflight' = Released(Released(inflight, lease[c]), second[c]),
           UNCHANGED deleted
    PROVE  inflight' \in Counters /\ InflightExact'
<1> USE NoneAssumption
<1>1. inflight \in Counters /\ lease[c] \in Providers \cup {None}
        /\ second[c] \in Providers \cup {None}
    BY DEF TypeOK, Counters
<1>2. Released(inflight, lease[c]) \in Counters
    <2>1. CASE Providers = {}
        BY <1>1, <2>1 DEF Released, Counters
    <2>2. ASSUME NEW p \in Providers PROVE Released(inflight, lease[c]) \in Counters
        BY <1>1, ReleasedBy
    <2> QED
        BY <2>1, <2>2
<1>3. inflight' \in Counters
    <2>1. CASE Providers = {}
        BY <1>1, <1>2, <2>1 DEF Released, Counters
    <2>2. ASSUME NEW p \in Providers PROVE inflight' \in Counters
        BY <1>1, <1>2, ReleasedBy
    <2> QED
        BY <2>1, <2>2
<1>4. ASSUME NEW p \in Providers \ deleted PROVE Count(inflight', p) = LeasesOn(p)'
    <2> DEFINE mid == Released(inflight, lease[c])
    <2>1. /\ LeasesOn(p)' + One(lease[c], p) + One(second[c], p) = LeasesOn(p)
          /\ LeasesOn(p) \in Nat /\ LeasesOn(p)' \in Nat
          /\ One(lease[c], p) + One(second[c], p) <= LeasesOn(p)
        BY LeasesChange DEF One
    <2>2. Count(inflight, p) = LeasesOn(p)
        BY DEF InflightExact, Count
    <2>3. One(lease[c], p) \in Nat /\ One(second[c], p) \in Nat
        BY DEF One
    <2>4. Count(mid, p) = LeasesOn(p) - One(lease[c], p)
        BY <1>1, <2>1, <2>2, <2>3, ReleasedBy
    <2>5. Count(Released(mid, second[c]), p) = Count(mid, p) - One(second[c], p)
        <3>1. Count(mid, p) >= One(second[c], p)
            BY <2>1, <2>3, <2>4
        <3> QED
            BY <1>1, <1>2, <3>1, ReleasedBy
    <2> QED
        BY <2>1, <2>3, <2>4, <2>5
<1> QED
    BY <1>3, <1>4 DEF InflightExact, Count

\* ... after the drop of one lease, r, where the others stay or move ...
LEMMA DropOne ==
    ASSUME TypeOK, InflightExact, NEW c \in Calls, NEW l \in Providers \cup {None},
           NEW s \in Providers \cup {None}, Leases(c, l, s),
           NEW r \in Providers \cup {None},
           \A p \in Providers : One(l, p) + One(s, p) + One(r, p)
                                  = One(lease[c], p) + One(second[c], p),
           inflight' = Released(inflight, r), UNCHANGED deleted
    PROVE  inflight' \in Counters /\ InflightExact'
<1>1. inflight \in Counters
    BY DEF TypeOK, Counters
<1>2. inflight' \in Counters
    <2>1. CASE Providers = {}
        BY <1>1, <2>1, NoneAssumption DEF Released, Counters
    <2>2. ASSUME NEW p \in Providers PROVE inflight' \in Counters
        BY <1>1, ReleasedBy
    <2> QED
        BY <2>1, <2>2
<1>3. ASSUME NEW p \in Providers \ deleted PROVE Count(inflight', p) = LeasesOn(p)'
    <2>1. /\ LeasesOn(p)' + One(lease[c], p) + One(second[c], p)
               = LeasesOn(p) + One(l, p) + One(s, p)
          /\ LeasesOn(p) \in Nat /\ LeasesOn(p)' \in Nat
          /\ One(lease[c], p) + One(second[c], p) <= LeasesOn(p)
        BY LeasesChange
    <2>2. Count(inflight, p) = LeasesOn(p)
        BY DEF InflightExact, Count
    <2>3. /\ One(lease[c], p) \in Nat /\ One(second[c], p) \in Nat
          /\ One(l, p) \in Nat /\ One(s, p) \in Nat /\ One(r, p) \in Nat
        BY DEF One
    <2>4. One(l, p) + One(s, p) + One(r, p) = One(lease[c], p) + One(second[c], p)
        OBVIOUS
    <2>5. Count(inflight, p) >= One(r, p)
        BY <2>1, <2>2, <2>3, <2>4
    <2>6. Count(inflight', p) = Count(inflight, p) - One(r, p)
        BY <1>1, <2>5, ReleasedBy
    <2> QED
        BY <2>1, <2>2, <2>3, <2>4, <2>6
<1> QED
    BY <1>2, <1>3 DEF InflightExact, Count

\* ... and after the drop of r, if any, and a new lease on q.
LEMMA TakeOne ==
    ASSUME TypeOK, InflightExact, NEW c \in Calls, NEW l \in Providers \cup {None},
           NEW s \in Providers \cup {None}, Leases(c, l, s),
           NEW r \in Providers \cup {None}, NEW q \in Providers,
           \A p \in Providers : One(l, p) + One(s, p) + One(r, p)
                                  = One(lease[c], p) + One(second[c], p) + One(q, p),
           \A p \in Providers : One(r, p) <= One(lease[c], p) + One(second[c], p),
           inflight' = Counted(Released(inflight, r), q), UNCHANGED deleted
    PROVE  inflight' \in Counters /\ InflightExact'
<1> DEFINE mid == Released(inflight, r)
<1>1. inflight \in Counters
    BY DEF TypeOK, Counters
<1>2. mid \in Counters
    BY <1>1, ReleasedBy
<1>3. UsizeModulus > 1
    <2>1. Cardinality(Calls) >= 1
        <3>1. Calls # {} /\ Cardinality(Calls) \in Nat
            BY FS_CardinalityType, WidthAssumption
        <3> QED
            BY <3>1, FS_EmptySet, WidthAssumption
    <2>2. Cardinality(Calls) \in Nat
        BY FS_CardinalityType, WidthAssumption
    <2> QED
        BY <2>1, <2>2, WidthAssumption
<1>4. inflight' \in Counters
    BY <1>2, <1>3, CountedBy
<1>5. ASSUME NEW p \in Providers \ deleted PROVE Count(inflight', p) = LeasesOn(p)'
    <2>1. /\ LeasesOn(p)' + One(lease[c], p) + One(second[c], p)
               = LeasesOn(p) + One(l, p) + One(s, p)
          /\ LeasesOn(p) \in Nat /\ LeasesOn(p)' \in Nat
          /\ LeasesOn(p)' < UsizeModulus
          /\ One(lease[c], p) + One(second[c], p) <= LeasesOn(p)
        BY LeasesChange
    <2>2. Count(inflight, p) = LeasesOn(p)
        BY DEF InflightExact, Count
    <2>3. /\ One(lease[c], p) \in Nat /\ One(second[c], p) \in Nat
          /\ One(l, p) \in Nat /\ One(s, p) \in Nat /\ One(r, p) \in Nat /\ One(q, p) \in Nat
        BY DEF One
    <2>4. /\ One(l, p) + One(s, p) + One(r, p) = One(lease[c], p) + One(second[c], p) + One(q, p)
          /\ One(r, p) <= One(lease[c], p) + One(second[c], p)
        OBVIOUS
    <2>5. Count(inflight, p) >= One(r, p)
        BY <2>1, <2>2, <2>3, <2>4
    <2>6. Count(mid, p) = Count(inflight, p) - One(r, p)
        BY <1>1, <2>5, ReleasedBy
    <2>7. Count(mid, p) + One(q, p) = LeasesOn(p)'
        BY <2>1, <2>2, <2>3, <2>4, <2>6
    <2>8. Count(mid, p) + One(q, p) < UsizeModulus
        BY <2>1, <2>7
    <2> QED
        BY <1>2, <1>3, <2>7, <2>8, CountedBy
<1> QED
    BY <1>4, <1>5 DEF InflightExact, Count

\* A step that leaves leases and counters alone keeps the counters exact.
LEMMA NoLease ==
    ASSUME TypeOK, InflightExact, UNCHANGED <<inflight, lease, second, deleted>>
    PROVE  inflight' \in Counters /\ InflightExact'
BY DEF TypeOK, Counters, InflightExact, LeasesOn

-----------------------------------------------------------------------------
(* The invariant.                                                          *)

\* The initial states satisfy the invariant.
LEMMA InitInv == Init => DispatchInv
<1> SUFFICES ASSUME Init PROVE DispatchInv
    OBVIOUS
<1> USE NoneAssumption, WidthAssumption DEF Init
<1>1. TypeOK
    BY DEF TypeOK, PCs
<1>2. Places /\ SpoolForRetryOnly
    BY DEF Places, Place, SpoolForRetryOnly, PCs
<1>3. InflightExact
    <2> SUFFICES ASSUME NEW p \in Providers PROVE LeasesOn(p) = 0
        BY DEF InflightExact
    <2>1. {c \in Calls : lease[c] = p} = {} /\ {c \in Calls : second[c] = p} = {}
        OBVIOUS
    <2>2. LeasesOn(p) = Cardinality({}) + Cardinality({})
        BY <2>1, Zenon DEF LeasesOn
    <2> QED
        BY <2>2, FS_EmptySet
<1> QED
    BY <1>1, <1>2, <1>3 DEF DispatchInv

\* A step of one call keeps the other calls where they are: it is enough to
\* look at that one.
LEMMA OneCall ==
    ASSUME TypeOK, Places, SpoolForRetryOnly, NEW c \in Calls,
           \A d \in Calls \ {c} :
               /\ pc'[d] = pc[d] /\ lease'[d] = lease[d] /\ second'[d] = second[d]
               /\ sent'[d] = sent[d] /\ spool'[d] = spool[d] /\ audio'[d] = audio[d],
           Place(c)',
           spool'[c] => audio'[c] /\ pc'[c] \in Running \ {"relay"}
    PROVE  Places' /\ SpoolForRetryOnly'
<1>1. ASSUME NEW d \in Calls \ {c} PROVE Place(d)'
    BY <1>1 DEF Places, Place
<1>2. Places'
    BY <1>1 DEF Places
<1>3. SpoolForRetryOnly'
    BY DEF SpoolForRetryOnly
<1> QED
    BY <1>2, <1>3

\* Begin, Uploaded, RefreshOk, Send, Answer: steps without a change of leases.
LEMMA QuietStep ==
    ASSUME DispatchInv, NEW c \in Calls,
           \/ BeginJson(c) \/ BeginAudio(c) \/ Uploaded(c) \/ RefreshOk(c) \/ Send(c)
           \/ (\E retryable \in BOOLEAN : Answer(c, retryable))
           \/ RetryNobody(c) \/ SendRetry(c) \/ AnswerRetry(c)
    PROVE  DispatchInv'
<1> USE NoneAssumption DEF DispatchInv
<1>1. inflight' \in Counters /\ InflightExact'
    BY NoLease DEF BeginJson, BeginAudio, Uploaded, RefreshOk, Send, Answer, RetryNobody,
        SendRetry, AnswerRetry, envVars
<1>2. Place(c)
    BY DEF Places
<1> USE DEF envVars, Goto, Relay
<1>3. CASE BeginJson(c) \/ Uploaded(c) \/ RefreshOk(c)
    <2>1. TypeOK'
        BY <1>3 DEF BeginJson, Uploaded, RefreshOk, TypeOK, PCs
    <2>2. Place(c)' /\ (spool'[c] => audio'[c] /\ pc'[c] \in Running \ {"relay"})
        BY <1>2, <1>3 DEF BeginJson, Uploaded, RefreshOk, TypeOK, PCs, Place, Running,
            SpoolForRetryOnly
    <2>3. Places' /\ SpoolForRetryOnly'
        BY <1>3, <2>2, OneCall DEF BeginJson, Uploaded, RefreshOk, TypeOK
    <2> QED
        BY <1>1, <2>1, <2>3
<1>4. CASE BeginAudio(c)
    <2>1. TypeOK'
        BY <1>4 DEF BeginAudio, TypeOK, PCs
    <2>2. Place(c)' /\ (spool'[c] => audio'[c] /\ pc'[c] \in Running \ {"relay"})
        BY <1>2, <1>4 DEF BeginAudio, TypeOK, PCs, Place, Running
    <2>3. Places' /\ SpoolForRetryOnly'
        BY <1>4, <2>2, OneCall DEF BeginAudio, TypeOK
    <2> QED
        BY <1>1, <2>1, <2>3
<1>5. CASE Send(c) \/ SendRetry(c)
    <2>1. lease[c] \in Providers /\ sent[c] \in Seq(Providers)
        BY <1>2, <1>5 DEF Send, SendRetry, Place, PCs, TypeOK
    <2>2. TypeOK'
        <3>1. Append(sent[c], lease[c]) \in Seq(Providers)
            BY <2>1
        <3>2. sent' = [sent EXCEPT ![c] = Append(sent[c], lease[c])]
            BY <1>5 DEF Send, SendRetry
        <3>3. sent' \in [Calls -> Seq(Providers)]
            BY <3>1, <3>2 DEF TypeOK
        <3>4. pc' \in [Calls -> PCs]
            BY <1>5 DEF Send, SendRetry, TypeOK, PCs
        <3> QED
            BY <1>5, <3>3, <3>4 DEF Send, SendRetry, TypeOK
    <2>3. /\ sent'[c] = Append(sent[c], lease[c])
          /\ pc'[c] = IF pc[c] = "send" THEN "wait" ELSE "wait_retry"
          /\ lease'[c] = lease[c] /\ second'[c] = second[c]
          /\ pc[c] \in {"send", "send_retry"}
        BY <1>5 DEF Send, SendRetry, TypeOK
    <2>4. Place(c)'
        BY <1>2, <2>1, <2>3 DEF Place, PCs
    <2>5. spool'[c] => audio'[c] /\ pc'[c] \in Running \ {"relay"}
        BY <1>5, <2>3 DEF Send, SendRetry, SpoolForRetryOnly, Running, PCs
    <2>6. Places' /\ SpoolForRetryOnly'
        BY <1>5, <2>4, <2>5, OneCall DEF Send, SendRetry, TypeOK
    <2> QED
        BY <1>1, <2>2, <2>6
<1>6. CASE (\E retryable \in BOOLEAN : Answer(c, retryable)) \/ RetryNobody(c) \/ AnswerRetry(c)
    <2>1. TypeOK'
        BY <1>6 DEF Answer, RetryNobody, AnswerRetry, TypeOK, PCs
    <2>2. Place(c)' /\ (spool'[c] => audio'[c] /\ pc'[c] \in Running \ {"relay"})
        BY <1>2, <1>6 DEF Answer, RetryNobody, AnswerRetry, TypeOK, PCs, Place, Running,
            SpoolForRetryOnly
    <2>3. Places' /\ SpoolForRetryOnly'
        BY <1>6, <2>2, OneCall DEF Answer, RetryNobody, AnswerRetry, TypeOK
    <2> QED
        BY <1>1, <2>1, <2>3
<1> QED
    BY <1>3, <1>4, <1>5, <1>6

\* Select, RefreshErr: a lease instead of another, or of none.
LEMMA TakeStep ==
    ASSUME DispatchInv, NEW c \in Calls, Select(c) \/ RefreshErr(c)
    PROVE  DispatchInv'
<1> USE NoneAssumption DEF DispatchInv
<1>1. PICK q \in eligible : /\ inflight' = Counted(Released(inflight, lease[c]), q)
                            /\ lease' = [lease EXCEPT ![c] = q]
    BY DEF Select, RefreshErr, TakeLease, Candidates
<1>2. /\ UNCHANGED <<envVars, audio, spool, second, sent>>
      /\ pc' = [pc EXCEPT ![c] = IF pc[c] = "select" THEN "refresh" ELSE "refresh_other"]
      /\ pc[c] \in {"select", "refresh"}
    BY DEF Select, RefreshErr, Goto
<1>3. Place(c) /\ q \in Providers /\ second[c] = None
        /\ lease[c] \in Providers \cup {None}
    BY <1>2 DEF Places, Place, TypeOK
<1>4. inflight' \in Counters /\ InflightExact'
    <2>1. Leases(c, q, None)
        BY <1>1, <1>2, <1>3 DEF Leases, TypeOK
    <2>2. \A p \in Providers : /\ One(q, p) + One(None, p) + One(lease[c], p)
                                     = One(lease[c], p) + One(second[c], p) + One(q, p)
                                /\ One(lease[c], p) <= One(lease[c], p) + One(second[c], p)
        BY <1>3 DEF One
    <2>3. UNCHANGED deleted
        BY <1>2 DEF envVars
    <2> QED
        BY <1>1, <1>3, <2>1, <2>2, <2>3, TakeOne
<1>5. TypeOK'
    BY <1>1, <1>2, <1>3, <1>4 DEF TypeOK, PCs, Counters, envVars
<1>6. Place(c)' /\ (spool'[c] => audio'[c] /\ pc'[c] \in Running \ {"relay"})
    BY <1>1, <1>2, <1>3 DEF TypeOK, PCs, Place, Running, SpoolForRetryOnly
<1>7. Places' /\ SpoolForRetryOnly'
    BY <1>1, <1>2, <1>6, OneCall DEF TypeOK
<1> QED
    BY <1>4, <1>5, <1>7

\* RetrySelect: a second lease.
LEMMA SecondStep ==
    ASSUME DispatchInv, NEW c \in Calls, RetrySelect(c)
    PROVE  DispatchInv'
<1> USE NoneAssumption DEF DispatchInv
<1>1. PICK q \in eligible \ {lease[c]} : /\ inflight' = Counted(inflight, q)
                                         /\ second' = [second EXCEPT ![c] = q]
    BY DEF RetrySelect, Candidates
<1>2. /\ UNCHANGED <<envVars, audio, spool, lease, sent>>
      /\ pc' = [pc EXCEPT ![c] = "refresh_retry"] /\ pc[c] = "retry"
    BY DEF RetrySelect, Goto
<1>3. Place(c) /\ q \in Providers /\ q # lease[c] /\ second[c] = None /\ lease[c] \in Providers
    BY <1>2 DEF Places, Place, TypeOK, PCs
<1>4. inflight' \in Counters /\ InflightExact'
    <2>1. Leases(c, lease[c], q)
        BY <1>1, <1>2, <1>3 DEF Leases, TypeOK
    <2>2. inflight' = Counted(Released(inflight, None), q)
        BY <1>1 DEF Released
    <2>3. \A p \in Providers : /\ One(lease[c], p) + One(q, p) + One(None, p)
                                     = One(lease[c], p) + One(second[c], p) + One(q, p)
                                /\ One(None, p) <= One(lease[c], p) + One(second[c], p)
        BY <1>3 DEF One
    <2>4. UNCHANGED deleted
        BY <1>2 DEF envVars
    <2> QED
        BY <1>3, <2>1, <2>2, <2>3, <2>4, TakeOne
<1>5. TypeOK'
    BY <1>1, <1>2, <1>3, <1>4 DEF TypeOK, PCs, Counters, envVars
<1>6. Place(c)' /\ (spool'[c] => audio'[c] /\ pc'[c] \in Running \ {"relay"})
    BY <1>1, <1>2, <1>3 DEF TypeOK, PCs, Place, Running, SpoolForRetryOnly
<1>7. Places' /\ SpoolForRetryOnly'
    BY <1>1, <1>2, <1>6, OneCall DEF TypeOK
<1> QED
    BY <1>4, <1>5, <1>7

\* RetryRefreshErr: the second lease is dropped, and the first answer relayed.
LEMMA FallBackStep ==
    ASSUME DispatchInv, NEW c \in Calls, RetryRefreshErr(c)
    PROVE  DispatchInv'
<1> USE NoneAssumption DEF DispatchInv
<1>1. /\ inflight' = Released(inflight, second[c])
      /\ second' = [second EXCEPT ![c] = None]
      /\ pc' = [pc EXCEPT ![c] = "relay"] /\ pc[c] = "refresh_retry"
      /\ spool' = [spool EXCEPT ![c] = FALSE]
      /\ UNCHANGED <<envVars, audio, lease, sent>>
    BY DEF RetryRefreshErr, Relay, Goto
<1>2. Place(c) /\ second[c] \in Providers /\ lease[c] \in Providers
    BY <1>1 DEF Places, Place, PCs
<1>3. inflight' \in Counters /\ InflightExact'
    <2>1. Leases(c, lease[c], None)
        BY <1>1, <1>2 DEF Leases, TypeOK
    <2>2. \A p \in Providers : One(lease[c], p) + One(None, p) + One(second[c], p)
                                   = One(lease[c], p) + One(second[c], p)
        BY DEF One
    <2>3. UNCHANGED deleted
        BY <1>1 DEF envVars
    <2> QED
        BY <1>1, <1>2, <2>1, <2>2, <2>3, DropOne
<1>4. TypeOK'
    BY <1>1, <1>3 DEF TypeOK, PCs, Counters, envVars
<1>5. Place(c)' /\ ~spool'[c]
    <2>1. /\ pc'[c] = "relay" /\ second'[c] = None /\ ~spool'[c]
          /\ lease'[c] = lease[c] /\ sent'[c] = sent[c]
        BY <1>1 DEF TypeOK
    <2>2. Len(sent[c]) = 1 /\ sent[c][1] = lease[c]
        BY <1>1, <1>2 DEF Place
    <2> QED
        BY <1>2, <2>1, <2>2 DEF Place, PCs
<1>6. Places' /\ SpoolForRetryOnly'
    BY <1>1, <1>5, OneCall DEF TypeOK
<1> QED
    BY <1>3, <1>4, <1>6

\* RetryRefreshOk: the first lease is dropped, the second takes its place.
LEMMA SwitchStep ==
    ASSUME DispatchInv, NEW c \in Calls, RetryRefreshOk(c)
    PROVE  DispatchInv'
<1> USE NoneAssumption DEF DispatchInv
<1>1. /\ inflight' = Released(inflight, lease[c])
      /\ lease' = [lease EXCEPT ![c] = second[c]]
      /\ second' = [second EXCEPT ![c] = None]
      /\ pc' = [pc EXCEPT ![c] = "send_retry"] /\ pc[c] = "refresh_retry"
      /\ UNCHANGED <<envVars, audio, spool, sent>>
    BY DEF RetryRefreshOk, Goto
<1>2. Place(c) /\ second[c] \in Providers /\ lease[c] \in Providers
    BY <1>1 DEF Places, Place, PCs
<1>3. inflight' \in Counters /\ InflightExact'
    <2>1. Leases(c, second[c], None)
        BY <1>1 DEF Leases
    <2>2. \A p \in Providers : One(second[c], p) + One(None, p) + One(lease[c], p)
                                   = One(lease[c], p) + One(second[c], p)
        BY DEF One
    <2>3. UNCHANGED deleted
        BY <1>1 DEF envVars
    <2> QED
        BY <1>1, <1>2, <2>1, <2>2, <2>3, DropOne
<1>4. TypeOK'
    BY <1>1, <1>2, <1>3 DEF TypeOK, PCs, Counters, envVars
<1>5. Place(c)' /\ (spool'[c] => audio'[c] /\ pc'[c] \in Running \ {"relay"})
    BY <1>1, <1>2 DEF TypeOK, PCs, Place, Running, SpoolForRetryOnly
<1>6. Places' /\ SpoolForRetryOnly'
    BY <1>1, <1>5, OneCall DEF TypeOK
<1> QED
    BY <1>3, <1>4, <1>6

\* End: everything is dropped.
LEMMA EndStep ==
    ASSUME DispatchInv, NEW c \in Calls, End(c)
    PROVE  DispatchInv'
<1> USE NoneAssumption DEF DispatchInv
<1>1. /\ inflight' = Released(Released(inflight, lease[c]), second[c])
      /\ lease' = [lease EXCEPT ![c] = None]
      /\ second' = [second EXCEPT ![c] = None]
      /\ pc' = [pc EXCEPT ![c] = "done"]
      /\ spool' = [spool EXCEPT ![c] = FALSE]
      /\ UNCHANGED <<envVars, audio, sent>>
    BY DEF End, Ended, Goto
<1>2. Place(c)
    BY DEF Places
<1>3. inflight' \in Counters /\ InflightExact'
    <2>1. Leases(c, None, None) /\ UNCHANGED deleted
        BY <1>1 DEF Leases, envVars
    <2> QED
        BY <1>1, <2>1, DropBoth
<1>4. TypeOK'
    BY <1>1, <1>3 DEF TypeOK, PCs, Counters, envVars
<1>5. Place(c)' /\ ~spool'[c]
    BY <1>1, <1>2 DEF TypeOK, PCs, Place
<1>6. Places' /\ SpoolForRetryOnly'
    BY <1>1, <1>5, OneCall DEF TypeOK
<1> QED
    BY <1>3, <1>4, <1>6

\* Steps of the environment: a deleted provider is no longer counted.
LEMMA EnvStep ==
    ASSUME DispatchInv,
           \/ \E p \in Providers : ForgetProvider(p)
           \/ \E S \in SUBSET Providers : SnapshotChanges(S)
           \/ UNCHANGED vars
    PROVE  DispatchInv'
<1> USE NoneAssumption, WidthAssumption DEF DispatchInv
<1>1. UNCHANGED callVars
    BY DEF ForgetProvider, SnapshotChanges, vars
<1>2. TypeOK'
    <2>1. eligible' \subseteq Providers /\ deleted' \subseteq Providers
            /\ inflight' \in [Providers -> 0 .. UsizeModulus - 1 \cup {None}]
        BY DEF ForgetProvider, SnapshotChanges, vars, envVars, TypeOK
    <2> QED
        BY <1>1, <2>1 DEF callVars, TypeOK
<1>3. Places' /\ SpoolForRetryOnly'
    BY <1>1 DEF callVars, Places, Place, SpoolForRetryOnly
<1>4. ASSUME NEW p \in Providers \ deleted' PROVE p \notin deleted /\ inflight'[p] = inflight[p]
    BY <1>4 DEF ForgetProvider, SnapshotChanges, vars, envVars, TypeOK
<1>5. InflightExact'
    BY <1>1, <1>4 DEF InflightExact, LeasesOn, callVars
<1> QED
    BY <1>2, <1>3, <1>5

(***************************************************************************)
(* The inductive invariant holds in every execution.                       *)
(***************************************************************************)
THEOREM DispatchInvariant == Spec => []DispatchInv
<1>1. DispatchInv /\ [Next]_vars => DispatchInv'
    BY QuietStep, TakeStep, SecondStep, FallBackStep, SwitchStep, EndStep, EnvStep
        DEF Next, CallNext
<1> QED
    BY <1>1, InitInv, PTL DEF Spec

\* All variables keep their types, the counters within their width.
THEOREM DispatchTypes == Spec => []TypeOK
BY DispatchInvariant, PTL DEF DispatchInv

(***************************************************************************)
(* The counter of a provider that is not deleted is the number of leases   *)
(* on it, whichever way calls end and however many there are.              *)
(***************************************************************************)
THEOREM LeasesCounted == Spec => []InflightExact
BY DispatchInvariant, PTL DEF DispatchInv

\* No upstream gets a request twice, and no request more than two upstreams.
THEOREM NoneAskedTwice == Spec => []RetriedElsewhere
<1>1. DispatchInv => RetriedElsewhere
    <2> SUFFICES ASSUME DispatchInv, NEW c \in Calls
                 PROVE  /\ Len(sent[c]) <= 2
                        /\ \A i, j \in DOMAIN sent[c] : i # j => sent[c][i] # sent[c][j]
        BY DEF RetriedElsewhere
    <2>1. Place(c) /\ sent[c] \in Seq(Providers)
        BY DEF DispatchInv, Places, TypeOK
    <2>2. DOMAIN sent[c] = 1 .. Len(sent[c]) /\ Len(sent[c]) \in Nat
        BY <2>1
    <2>3. Len(sent[c]) <= 2 /\ (Len(sent[c]) = 2 => sent[c][1] # sent[c][2])
        BY <2>1 DEF Place
    <2>4. ASSUME NEW i \in 1 .. Len(sent[c]), NEW j \in 1 .. Len(sent[c]), i # j
          PROVE  sent[c][i] # sent[c][j]
        <3> DEFINE n == Len(sent[c])
        <3>0. n \in Nat /\ n <= 2 /\ i \in 1 .. n /\ j \in 1 .. n /\ i # j
            BY <2>2, <2>3, <2>4
        <3> HIDE DEF n
        <3>1. (i = 1 /\ j = 2) \/ (i = 2 /\ j = 1)
            BY <3>0
        <3>2. n = 2
            BY <3>0, <3>1
        <3> USE DEF n
        <3> QED
            BY <2>3, <3>1, <3>2
    <2> QED
        BY <2>2, <2>3, <2>4
<1> QED
    BY <1>1, DispatchInvariant, PTL

\* The answer that is relayed belongs to the one lease that is held.
THEOREM RelayedUnderLease == Spec => []RelayHoldsLease
<1>1. DispatchInv => RelayHoldsLease
    BY DEF DispatchInv, Places, Place, RelayHoldsLease
<1> QED
    BY <1>1, DispatchInvariant, PTL

\* A spool file lives no longer than the attempts that may need it.
THEOREM SpoolEndsInTime == Spec => []SpoolForRetryOnly
BY DispatchInvariant, PTL DEF DispatchInv
=============================================================================
