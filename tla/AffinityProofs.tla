--------------------------- MODULE AffinityProofs ---------------------------
(***************************************************************************)
(* Proofs about Affinity, for any number of handlers, sessions, providers  *)
(* and restarts.                                                           *)
(*                                                                         *)
(* What an actor has in hand between two of its steps is what makes the    *)
(* second one right: a deletion forgets a provider that is gone for good   *)
(* (InHand), an entry that the maintenance task did not write names such a *)
(* provider, and one it wrote is in the table for as long as it matters    *)
(* (Collected); until the transaction ends a collected key keeps its mark  *)
(* (StillMarked).                                                          *)
(***************************************************************************)
EXTENDS Affinity, TLAPS

\* Handlers and the maintenance task hold what their next step needs.
InHand ==
    /\ \A t \in Tasks :
         /\ pc[t] \in {"insert", "mark"} => session[t] \in Sessions /\ entry[t] \in Entry
         /\ pc[t] \in {"unmark", "remark"} => session[t] \in Sessions
         /\ pc[t] \in {"forget", "remove", "unmark", "remark"} =>
                provider[t] \in Providers /\ provider[t] \notin providers
    /\ mnow <= time
    /\ mpc \in {"remove", "unmark", "remark"} => mkey \in Sessions /\ batch[mkey] # None
    /\ mpc = "remove" => mkey \notin written
    /\ mpc \in {"idle", "commit"} => todo = {}
    /\ \A h \in todo : batch[h] # None

\* After the transaction: what was written is in the table while it matters,
\* and only what names a deleted provider was not.
Collected ==
    mpc \in {"compare", "remove", "unmark", "remark"} =>
        \A h \in Sessions : batch[h] # None =>
            \/ h \in written /\ table[h] = batch[h]
            \/ h \in written /\ batch[h].expires_at <= time
            \/ batch[h].provider_id \notin providers

\* Before the transaction: what was collected is still marked.
StillMarked ==
    mpc = "commit" =>
        \A h \in Sessions : batch[h] # None /\ affinities[h] # None =>
            h \in dirty \/ BeingMarked(h)

AffinityInv == TypeOK /\ InHand /\ Collected /\ StillMarked /\ MarkedOrWritten

\* The constants, in the form the provers use.
LEMMA Constants == TTL \in Nat /\ None \notin Providers /\ None \notin Sessions /\ None \notin Entry
BY AffinityAssumption, EntryAssumption

\* The initial states satisfy the invariant.
LEMMA InitInv == Init => AffinityInv
<1> SUFFICES ASSUME Init PROVE AffinityInv
    OBVIOUS
<1> USE Constants DEF Init, NoEntries
<1>1. TypeOK
    BY DEF TypeOK
<1>2. InHand /\ Collected /\ StillMarked
    BY DEF InHand, Collected, StillMarked
<1>3. MarkedOrWritten
    BY DEF MarkedOrWritten
<1> QED
    BY <1>1, <1>2, <1>3 DEF AffinityInv

-----------------------------------------------------------------------------
(* Types.                                                                  *)

\* Every step of a handler keeps the types.
LEMMA HandlerTypes ==
    ASSUME TypeOK, InHand, NEW t \in Tasks,
           \/ \E h \in Sessions, eligible \in SUBSET snapshot, p \in Providers :
                  Select(t, h, eligible, p)
           \/ \E p \in Providers : DeleteProvider(t, p)
           \/ Drop(t)
           \/ Continue(t)
    PROVE  TypeOK'
<1> USE Constants DEF Goto, memory, database, maintenance
<1>1. ASSUME NEW h \in Sessions, NEW eligible \in SUBSET snapshot, NEW p \in Providers,
             Select(t, h, eligible, p)
      PROVE  TypeOK'
    <2>1. Chosen(h, eligible, p) \in Providers
        BY DEF Chosen, Remembered, TypeOK
    <2>2. [provider_id |-> Chosen(h, eligible, p), expires_at |-> time + TTL, updated_at |-> time]
            \in Entry
        BY <2>1 DEF Entry, TypeOK
    <2>3. entry' \in [Tasks -> Entry \cup {None}]
        BY <1>1, <2>2 DEF Select, TypeOK
    <2> QED
        BY <1>1, <2>3 DEF Select, TypeOK
<1>2. ASSUME NEW p \in Providers, DeleteProvider(t, p) PROVE TypeOK'
    <2>1. table' \in [Sessions -> Entry \cup {None}]
        BY <1>2 DEF DeleteProvider, TypeOK
    <2> QED
        BY <1>2, <2>1 DEF DeleteProvider, TypeOK
<1>3. CASE Drop(t) \/ ForgetDone(t)
    BY <1>3 DEF Drop, ForgetDone, TypeOK
<1>4. CASE Insert(t)
    BY <1>4 DEF Insert, TypeOK, InHand
<1>5. CASE Mark(t)
    BY <1>5 DEF Mark, TypeOK, InHand
<1>6. CASE ForgetCollect(t)
    BY <1>6 DEF ForgetCollect, TypeOK
<1>7. CASE ForgetRemove(t)
    BY <1>7 DEF ForgetRemove, TypeOK
<1>8. CASE ForgetUnmark(t)
    BY <1>8 DEF ForgetUnmark, TypeOK
<1>9. CASE ForgetRemark(t)
    BY <1>9 DEF ForgetRemark, Remarked, TypeOK, InHand
<1> QED
    BY <1>1, <1>2, <1>3, <1>4, <1>5, <1>6, <1>7, <1>8, <1>9 DEF Continue

\* Every other step keeps the types.
LEMMA MaintainTypes ==
    ASSUME TypeOK, InHand, Maintain \/ Restart \/ Tick \/ UNCHANGED vars
    PROVE  TypeOK'
<1> USE Constants DEF memory, database, handlers, maintenance, NoEntries
<1>1. CASE MaintainCollect
    BY <1>1 DEF MaintainCollect, TypeOK
<1>2. CASE MaintainCommit
    <2>1. table' \in [Sessions -> Entry \cup {None}]
        BY <1>2 DEF MaintainCommit, TypeOK
    <2>2. written' \subseteq Sessions /\ todo' \subseteq Sessions
        BY <1>2 DEF MaintainCommit, Written
    <2> QED
        BY <1>2, <2>1, <2>2 DEF MaintainCommit, TypeOK
<1>3. CASE MaintainFail
    BY <1>3 DEF MaintainFail, TypeOK
<1>4. ASSUME NEW h \in Sessions, MaintainCompare(h) PROVE TypeOK'
    BY <1>4 DEF MaintainCompare, TypeOK
<1>5. CASE MaintainRemove
    BY <1>5 DEF MaintainRemove, AfterRemoveIf, TypeOK
<1>6. CASE MaintainUnmark
    BY <1>6 DEF MaintainUnmark, TypeOK, InHand
<1>7. CASE MaintainRemark
    BY <1>7 DEF MaintainRemark, Remarked, TypeOK, InHand
<1>8. CASE MaintainRetain
    BY <1>8 DEF MaintainRetain, TypeOK
<1>9. CASE Restart
    <2>1. /\ affinities' \in [Sessions -> Entry \cup {None}]
          /\ batch' \in [Sessions -> Entry \cup {None}]
        BY <1>9 DEF Restart, TypeOK
    <2>2. /\ pc' \in [Tasks -> {"idle", "insert", "mark", "forget", "remove", "unmark", "remark"}]
          /\ session' \in [Tasks -> Sessions \cup {None}]
          /\ entry' \in [Tasks -> Entry \cup {None}]
          /\ provider' \in [Tasks -> Providers \cup {None}]
          /\ hashes' \in [Tasks -> SUBSET Sessions]
        BY <1>9 DEF Restart
    <2>3. restarts' \in Nat
        BY <1>9 DEF Restart, TypeOK
    <2>4. replaying' \in BOOLEAN
        BY <1>9, Zenon DEF Restart
    <2> QED
        BY <1>9, <2>1, <2>2, <2>3, <2>4 DEF Restart, TypeOK
<1>10. CASE Tick \/ UNCHANGED vars
    BY <1>10 DEF Tick, vars, TypeOK
<1> QED
    BY <1>1, <1>2, <1>3, <1>4, <1>5, <1>6, <1>7, <1>8, <1>9, <1>10 DEF Maintain

-----------------------------------------------------------------------------
(* What the actors hold.                                                   *)

\* Every step of a handler keeps what the actors hold.
LEMMA HandlerHands ==
    ASSUME TypeOK, InHand, NEW t \in Tasks,
           \/ \E h \in Sessions, eligible \in SUBSET snapshot, p \in Providers :
                  Select(t, h, eligible, p)
           \/ \E p \in Providers : DeleteProvider(t, p)
           \/ Drop(t)
           \/ Continue(t)
    PROVE  InHand'
<1> USE Constants DEF Goto, memory, database, maintenance
<1>1. ASSUME NEW h \in Sessions, NEW eligible \in SUBSET snapshot, NEW p \in Providers,
             Select(t, h, eligible, p)
      PROVE  InHand'
    <2>1. Chosen(h, eligible, p) \in Providers
        BY DEF Chosen, Remembered, TypeOK
    <2>2. entry'[t] \in Entry
        BY <1>1, <2>1 DEF Select, Entry, TypeOK
    <2>3. \A u \in Tasks : u # t => entry'[u] = entry[u]
        BY <1>1 DEF Select, TypeOK
    <2> QED
        BY <1>1, <2>2, <2>3 DEF Select, TypeOK, InHand
<1>2. ASSUME NEW p \in Providers, DeleteProvider(t, p) PROVE InHand'
    BY <1>2 DEF DeleteProvider, TypeOK, InHand
<1>3. CASE Drop(t) \/ ForgetDone(t)
    BY <1>3 DEF Drop, ForgetDone, TypeOK, InHand
<1>4. CASE Insert(t)
    BY <1>4 DEF Insert, TypeOK, InHand
<1>5. CASE Mark(t)
    BY <1>5 DEF Mark, TypeOK, InHand
<1>6. CASE ForgetCollect(t)
    BY <1>6 DEF ForgetCollect, TypeOK, InHand
<1>7. CASE ForgetRemove(t)
    BY <1>7 DEF ForgetRemove, TypeOK, InHand
<1>8. CASE ForgetUnmark(t)
    BY <1>8 DEF ForgetUnmark, TypeOK, InHand
<1>9. CASE ForgetRemark(t)
    BY <1>9 DEF ForgetRemark, TypeOK, InHand
<1> QED
    BY <1>1, <1>2, <1>3, <1>4, <1>5, <1>6, <1>7, <1>8, <1>9 DEF Continue

\* Every other step does.
LEMMA MaintainHands ==
    ASSUME TypeOK, InHand, Maintain \/ Restart \/ Tick \/ UNCHANGED vars
    PROVE  InHand'
<1> USE Constants DEF memory, database, handlers, maintenance, NoEntries
<1>1. CASE MaintainCollect
    BY <1>1 DEF MaintainCollect, TypeOK, InHand
<1>2. CASE MaintainCommit
    BY <1>2 DEF MaintainCommit, TypeOK, InHand
<1>3. CASE MaintainFail
    BY <1>3 DEF MaintainFail, TypeOK, InHand
<1>4. ASSUME NEW h \in Sessions, MaintainCompare(h) PROVE InHand'
    BY <1>4 DEF MaintainCompare, TypeOK, InHand
<1>5. CASE MaintainRemove
    BY <1>5 DEF MaintainRemove, TypeOK, InHand
<1>6. CASE MaintainUnmark
    BY <1>6 DEF MaintainUnmark, TypeOK, InHand
<1>7. CASE MaintainRemark
    BY <1>7 DEF MaintainRemark, TypeOK, InHand
<1>8. CASE MaintainRetain
    BY <1>8 DEF MaintainRetain, TypeOK, InHand
<1>9. CASE Restart
    BY <1>9 DEF Restart, TypeOK, InHand
<1>10. CASE Tick \/ UNCHANGED vars
    BY <1>10 DEF Tick, vars, TypeOK, InHand
<1> QED
    BY <1>1, <1>2, <1>3, <1>4, <1>5, <1>6, <1>7, <1>8, <1>9, <1>10 DEF Maintain

\* Every step keeps Collected: rows are deleted with their provider only.
LEMMA CollectedStep ==
    ASSUME TypeOK, InHand, Collected, [Next]_vars
    PROVE  Collected'
<1> USE Constants DEF memory, database, handlers, maintenance, NoEntries
<1>1. ASSUME NEW t \in Tasks, NEW p \in Providers, DeleteProvider(t, p) PROVE Collected'
    <2>1. /\ UNCHANGED <<maintenance, time>> /\ providers' = providers \ {p}
          /\ \A h \in Sessions : table'[h] = table[h] \/ table[h].provider_id = p
        BY <1>1 DEF DeleteProvider, TypeOK
    <2>2. ASSUME NEW h \in Sessions, table[h] = batch[h], table[h].provider_id = p
          PROVE  batch[h].provider_id \notin providers'
        BY <2>1, <2>2
    <2> QED
        BY <2>1, <2>2 DEF Collected
<1>2. CASE MaintainCommit
    <2> SUFFICES ASSUME NEW h \in Sessions, batch[h] # None, batch[h].provider_id \in providers
                 PROVE  h \in written' /\ (table'[h] = batch[h] \/ batch[h].expires_at <= time)
        BY <1>2 DEF MaintainCommit, Collected
    <2>1. h \in Written /\ h \in written'
        BY <1>2 DEF MaintainCommit, Written
    <2>2. table'[h] = IF batch[h] # None /\ batch[h].expires_at <= mnow THEN None ELSE batch[h]
        BY <1>2, <2>1 DEF MaintainCommit
    <2>3. batch[h] \in Entry /\ batch[h].expires_at \in Nat
        BY DEF TypeOK, Entry
    <2> QED
        BY <2>1, <2>2, <2>3 DEF InHand, TypeOK
<1>3. CASE MaintainCollect \/ MaintainFail \/ MaintainRetain \/ Restart
    BY <1>3 DEF MaintainCollect, MaintainFail, MaintainRetain, Restart, Collected
<1>4. CASE Tick
    <2>1. ASSUME NEW h \in Sessions, batch[h] # None
          PROVE  batch[h].expires_at \in Nat
        BY <2>1 DEF TypeOK, Entry
    <2> QED
        BY <1>4, <2>1 DEF Tick, Collected, TypeOK
<1>5. ASSUME UNCHANGED <<batch, written, database, time>>,
             mpc' \in {"compare", "remove", "unmark", "remark"}
                 => mpc \in {"compare", "remove", "unmark", "remark"}
      PROVE  Collected'
    BY <1>5 DEF Collected
<1>6. CASE (\E h \in Sessions : MaintainCompare(h)) \/ MaintainRemove \/ MaintainUnmark \/ MaintainRemark
    BY <1>5, <1>6 DEF MaintainCompare, MaintainRemove, MaintainUnmark, MaintainRemark
<1>7. ASSUME NEW t \in Tasks,
             \/ \E h \in Sessions, eligible \in SUBSET snapshot, p \in Providers :
                    Select(t, h, eligible, p)
             \/ Drop(t)
             \/ Continue(t)
      PROVE  Collected'
    BY <1>5, <1>7 DEF Select, Drop, Continue, Insert, Mark, ForgetCollect, ForgetRemove,
                      ForgetUnmark, ForgetRemark, ForgetDone
<1>8. CASE UNCHANGED vars
    BY <1>5, <1>8 DEF vars
<1> QED
    BY <1>1, <1>2, <1>3, <1>4, <1>6, <1>7, <1>8 DEF Next, Maintain

-----------------------------------------------------------------------------
(* Marks.  Facts about one session and one step that is no restart.        *)

\* An entry that is there after a step was there before it, or the request
\* that has put it in goes on to mark it.
LEMMA NewEntryMarked ==
    ASSUME TypeOK, InHand, [Next]_vars, ~Restart, NEW h \in Sessions
    PROVE  affinities'[h] = affinities[h] \/ affinities'[h] = None \/ BeingMarked(h)'
<1> USE Constants DEF memory, Goto
<1>1. ASSUME NEW t \in Tasks, Insert(t)
      PROVE  affinities'[h] = affinities[h] \/ BeingMarked(h)'
    <2>1. session'[t] = session[t] /\ pc'[t] = "mark"
        BY <1>1 DEF Insert, TypeOK
    <2>2. CASE session[t] = h
        BY <2>1, <2>2 DEF BeingMarked
    <2>3. CASE session[t] # h
        BY <1>1, <2>3 DEF Insert, TypeOK
    <2> QED
        BY <2>2, <2>3
<1>2. ASSUME NEW t \in Tasks, ForgetRemove(t)
      PROVE  affinities'[h] = affinities[h] \/ affinities'[h] = None
    BY <1>2 DEF ForgetRemove, TypeOK
<1>3. CASE MaintainRemove
    BY <1>3 DEF MaintainRemove, AfterRemoveIf, TypeOK
<1>4. CASE MaintainRetain
    BY <1>4 DEF MaintainRetain, TypeOK
<1>5. CASE MaintainCollect \/ MaintainCommit \/ MaintainFail \/ MaintainUnmark \/ MaintainRemark
           \/ (\E k \in Sessions : MaintainCompare(k)) \/ Tick \/ UNCHANGED vars
    BY <1>5 DEF MaintainCollect, MaintainCommit, MaintainFail, MaintainUnmark, MaintainRemark,
                MaintainCompare, Tick, vars
<1>6. ASSUME NEW t \in Tasks,
             \/ \E k \in Sessions, eligible \in SUBSET snapshot, p \in Providers :
                    Select(t, k, eligible, p)
             \/ \E p \in Providers : DeleteProvider(t, p)
             \/ Drop(t) \/ Mark(t) \/ ForgetCollect(t) \/ ForgetUnmark(t) \/ ForgetRemark(t)
             \/ ForgetDone(t)
      PROVE  affinities' = affinities
    BY <1>6 DEF Select, DeleteProvider, Drop, Mark, ForgetCollect, ForgetUnmark, ForgetRemark,
                ForgetDone
<1> QED
    BY <1>1, <1>2, <1>3, <1>4, <1>5, <1>6 DEF Next, Maintain, Continue

\* A handler that leaves its key leaves it marked.
LEMMA BeingMarkedStep ==
    ASSUME TypeOK, InHand, NEW h \in Sessions, NEW t \in Tasks,
           UNCHANGED <<mkey, mpc>>,
           \A u \in Tasks : u # t => session'[u] = session[u] /\ pc'[u] = pc[u],
           BeingMarked(h),
           session[t] = h /\ pc[t] \in {"mark", "remark"} =>
               (session'[t] = h /\ pc'[t] \in {"mark", "remark"}) \/ h \in dirty'
    PROVE  h \in dirty' \/ BeingMarked(h)'
BY DEF BeingMarked

\* The same of every step: only the maintenance task takes a mark for good.
LEMMA MarksKept ==
    ASSUME TypeOK, InHand, [Next]_vars, ~Restart, NEW h \in Sessions,
           h \in dirty \/ BeingMarked(h), affinities'[h] # None, affinities'[h] = affinities[h]
    PROVE  h \in dirty' \/ BeingMarked(h)' \/ (MaintainUnmark /\ mkey = h /\ h \in written)
<1> USE Constants DEF memory, handlers, maintenance, Goto
<1>1. ASSUME NEW t \in Tasks, Mark(t) PROVE h \in dirty' \/ BeingMarked(h)'
    BY <1>1, BeingMarkedStep DEF Mark, TypeOK
<1>2. ASSUME NEW t \in Tasks, ForgetUnmark(t) PROVE h \in dirty' \/ BeingMarked(h)'
    <2>1. session' = session /\ pc'[t] = "remark"
        BY <1>2 DEF ForgetUnmark, TypeOK
    <2>2. CASE session[t] = h
        BY <2>1, <2>2 DEF BeingMarked
    <2>3. CASE session[t] # h
        BY <1>2, <2>3, BeingMarkedStep DEF ForgetUnmark, TypeOK
    <2> QED
        BY <2>2, <2>3
<1>3. ASSUME NEW t \in Tasks, ForgetRemark(t) PROVE h \in dirty' \/ BeingMarked(h)'
    BY <1>3, BeingMarkedStep DEF ForgetRemark, Remarked, TypeOK
<1>4. ASSUME NEW t \in Tasks,
             \/ \E k \in Sessions, eligible \in SUBSET snapshot, p \in Providers :
                    Select(t, k, eligible, p)
             \/ \E p \in Providers : DeleteProvider(t, p)
             \/ Drop(t) \/ Insert(t) \/ ForgetCollect(t) \/ ForgetRemove(t) \/ ForgetDone(t)
      PROVE  h \in dirty' \/ BeingMarked(h)'
    <2>1. /\ UNCHANGED <<dirty, mkey, mpc>>
          /\ pc[t] \notin {"mark", "remark"}
          /\ \A u \in Tasks : u # t => session'[u] = session[u] /\ pc'[u] = pc[u]
        BY <1>4 DEF Select, DeleteProvider, Drop, Insert, ForgetCollect, ForgetRemove, ForgetDone, TypeOK
    <2> QED
        BY <2>1, BeingMarkedStep
<1>5. CASE MaintainUnmark
    <2>1. CASE mkey = h /\ h \notin written
        BY <1>5, <2>1 DEF MaintainUnmark, BeingMarked
    <2>2. CASE mkey # h
        BY <1>5, <2>2 DEF MaintainUnmark, BeingMarked
    <2> QED
        BY <1>5, <2>1, <2>2
<1>6. CASE MaintainRemark
    BY <1>6 DEF MaintainRemark, Remarked, BeingMarked
<1>7. CASE MaintainCollect \/ MaintainCommit \/ MaintainFail \/ MaintainRemove \/ MaintainRetain
           \/ (\E k \in Sessions : MaintainCompare(k)) \/ Tick \/ UNCHANGED vars
    BY <1>7 DEF MaintainCollect, MaintainCommit, MaintainFail, MaintainRemove, MaintainRetain,
                MaintainCompare, Tick, vars, BeingMarked
<1> QED
    BY <1>1, <1>2, <1>3, <1>4, <1>5, <1>6, <1>7 DEF Next, Maintain, Continue

\* A key leaves unmarked when it is marked.
LEMMA UnmarkedKept ==
    ASSUME [Next]_vars, ~Restart, NEW h \in unmarked
    PROVE  h \in unmarked' \/ h \in dirty'
<1>1. CASE \E t \in Tasks : Mark(t)
    BY <1>1 DEF Mark
<1>2. CASE MaintainUnmark
    BY <1>2 DEF MaintainUnmark
<1>3. CASE UNCHANGED unmarked
    BY <1>3
<1> QED
    BY <1>1, <1>2, <1>3 DEF Next, Maintain, Continue, vars, Select, DeleteProvider, Drop, Insert,
        ForgetCollect, ForgetRemove, ForgetUnmark, ForgetRemark, ForgetDone, MaintainCollect,
        MaintainCommit, MaintainFail, MaintainCompare, MaintainRemove, MaintainRemark,
        MaintainRetain, Tick

-----------------------------------------------------------------------------
(* The invariant.                                                          *)

\* Until the transaction ends a collected key stays marked.
LEMMA StillMarkedStep ==
    ASSUME TypeOK, InHand, StillMarked, [Next]_vars
    PROVE  StillMarked'
<1>1. CASE MaintainCollect
    BY <1>1 DEF MaintainCollect, StillMarked, memory, TypeOK
<1>2. CASE ~MaintainCollect /\ ~Restart
    <2>1. mpc' = "commit" => mpc = "commit" /\ batch' = batch /\ ~MaintainUnmark
        BY <1>2 DEF Next, Maintain, Continue, vars, Select, DeleteProvider, Drop, Insert, Mark,
            ForgetCollect, ForgetRemove, ForgetUnmark, ForgetRemark, ForgetDone, MaintainCommit,
            MaintainFail, MaintainCompare, MaintainRemove, MaintainUnmark, MaintainRemark,
            MaintainRetain, Tick, maintenance
    <2> SUFFICES ASSUME mpc' = "commit", NEW h \in Sessions, batch'[h] # None, affinities'[h] # None
                 PROVE  h \in dirty' \/ BeingMarked(h)'
        BY DEF StillMarked
    <2>2. CASE affinities'[h] = affinities[h]
        <3>1. h \in dirty \/ BeingMarked(h)
            BY <2>1, <2>2 DEF StillMarked
        <3> QED
            BY <1>2, <2>1, <2>2, <3>1, MarksKept
    <2> QED
        BY <1>2, <2>2, NewEntryMarked
<1>3. CASE Restart
    BY <1>3 DEF Restart, StillMarked
<1> QED
    BY <1>1, <1>2, <1>3

\* A row that is gone after a step was of a deleted provider, has expired, or
\* was replaced by the transaction.
LEMMA RowsKept ==
    ASSUME TypeOK, InHand, [Next]_vars, NEW h \in Sessions, table[h] # None,
           table[h].expires_at > time, table[h].provider_id \in providers'
    PROVE  table'[h] = table[h] \/ (MaintainCommit /\ batch[h] # None)
<1> USE Constants DEF database
<1>1. ASSUME NEW t \in Tasks, NEW p \in Providers, DeleteProvider(t, p) PROVE table'[h] = table[h]
    BY <1>1 DEF DeleteProvider, TypeOK
<1>2. CASE MaintainCommit /\ batch[h] = None
    <2>1. h \notin Written
        BY <1>2 DEF Written
    <2>2. table'[h] = IF table[h] # None /\ table[h].expires_at <= mnow THEN None ELSE table[h]
        BY <1>2, <2>1 DEF MaintainCommit
    <2>3. table[h].expires_at \in Nat
        BY DEF TypeOK, Entry
    <2> QED
        BY <2>2, <2>3 DEF InHand, TypeOK
<1>3. CASE UNCHANGED table
    BY <1>3
<1> QED
    BY <1>1, <1>2, <1>3 DEF Next, Maintain, Continue, vars, Select, Drop, Insert, Mark,
        ForgetCollect, ForgetRemove, ForgetUnmark, ForgetRemark, ForgetDone, MaintainCollect,
        MaintainCommit, MaintainFail, MaintainCompare, MaintainRemove, MaintainUnmark,
        MaintainRemark, MaintainRetain, Restart, Tick

\* Time passes and providers go.
LEMMA Onward ==
    ASSUME TypeOK, [Next]_vars
    PROVE  time <= time' /\ time' \in Nat /\ providers' \subseteq providers
BY DEF Next, Maintain, Continue, vars, Select, DeleteProvider, Drop, Insert, Mark,
    ForgetCollect, ForgetRemove, ForgetUnmark, ForgetRemark, ForgetDone, MaintainCollect,
    MaintainCommit, MaintainFail, MaintainCompare, MaintainRemove, MaintainUnmark,
    MaintainRemark, MaintainRetain, Restart, Tick, database, TypeOK

\* Every step keeps MarkedOrWritten.
LEMMA MarkedStep ==
    ASSUME AffinityInv, [Next]_vars
    PROVE  MarkedOrWritten'
<1> USE DEF AffinityInv
<1>1. CASE Restart
    <2> SUFFICES ASSUME NEW h \in Sessions, affinities'[h] # None PROVE table'[h] = affinities'[h]
        BY DEF MarkedOrWritten
    <2> QED
        BY <1>1 DEF Restart, database
<1>2. CASE ~Restart
    <2> SUFFICES ASSUME NEW h \in Sessions, affinities'[h] # None,
                        affinities'[h].expires_at > time', affinities'[h].provider_id \in providers'
                 PROVE  table'[h] = affinities'[h] \/ h \in dirty' \cup unmarked' \/ BeingMarked(h)'
        BY DEF MarkedOrWritten
    <2>1. CASE affinities'[h] # affinities[h]
        BY <1>2, <2>1, NewEntryMarked
    <2>2. CASE affinities'[h] = affinities[h]
        <3>1. affinities[h] \in Entry /\ affinities[h].expires_at \in Nat
            BY <2>2 DEF TypeOK, Entry
        <3>2. affinities[h].expires_at > time /\ affinities[h].provider_id \in providers
            BY <2>2, <3>1, Onward DEF TypeOK
        <3>3. table[h] = affinities[h] \/ h \in dirty \cup unmarked \/ BeingMarked(h)
            BY <2>2, <3>2 DEF MarkedOrWritten
        <3>4. CASE h \in dirty \/ BeingMarked(h)
            <4>1. CASE MaintainUnmark /\ mkey = h /\ h \in written /\ affinities[h] = batch[h]
                <5>1. UNCHANGED <<table, providers, time>>
                    BY <4>1 DEF MaintainUnmark, database
                <5>2. table[h] = batch[h]
                    BY <2>2, <3>1, <3>2, <4>1 DEF Collected, MaintainUnmark, TypeOK
                <5> QED
                    BY <2>2, <4>1, <5>1, <5>2
            <4>2. CASE MaintainUnmark /\ mkey = h /\ h \in written /\ affinities[h] # batch[h]
                BY <4>2 DEF MaintainUnmark
            <4> QED
                BY <1>2, <2>2, <3>4, <4>1, <4>2, MarksKept
        <3>5. CASE h \in unmarked
            BY <1>2, <3>5, UnmarkedKept
        <3>6. CASE table[h] = affinities[h]
            <4>1. table'[h] = table[h] \/ (MaintainCommit /\ batch[h] # None)
                BY <2>2, <3>2, <3>6, RowsKept
            <4>2. CASE MaintainCommit /\ batch[h] # None
                <5>1. h \in dirty \/ BeingMarked(h)
                    BY <2>2, <4>2 DEF MaintainCommit, StillMarked
                <5> QED
                    BY <3>4, <5>1
            <4> QED
                BY <2>2, <3>6, <4>1, <4>2
        <3> QED
            BY <3>3, <3>4, <3>5, <3>6
    <2> QED
        BY <2>1, <2>2
<1> QED
    BY <1>1, <1>2

\* The inductive invariant holds in every execution.
THEOREM AffinityInvariant == Spec => []AffinityInv
<1>1. AffinityInv /\ [Next]_vars => AffinityInv'
    <2> SUFFICES ASSUME AffinityInv, [Next]_vars PROVE AffinityInv'
        OBVIOUS
    <2>1. TypeOK' /\ InHand'
        BY HandlerTypes, MaintainTypes, HandlerHands, MaintainHands DEF AffinityInv, Next
    <2>2. Collected' /\ StillMarked' /\ MarkedOrWritten'
        BY CollectedStep, StillMarkedStep, MarkedStep DEF AffinityInv
    <2> QED
        BY <2>1, <2>2 DEF AffinityInv
<1> QED
    BY <1>1, InitInv, PTL DEF Spec

\* All variables keep their types.
THEOREM AffinityTypes == Spec => []TypeOK
BY AffinityInvariant, PTL DEF AffinityInv

(***************************************************************************)
(* An entry of an existing provider is written or marked to be written,    *)
(* but for the mark that maintain takes from a later entry: forget_provider*)
(* and maintain lose no other mark between them, whatever comes in between.*)
(***************************************************************************)
THEOREM EntriesMarked == Spec => []MarkedOrWritten
BY AffinityInvariant, PTL DEF AffinityInv

\* A step of the two that remove entries takes none that a request has put
\* in the place of the one it had decided on.
LEMMA KeptStep ==
    ASSUME AffinityInv, [Next]_vars, NEW h \in Sessions,
           affinities[h] # None, affinities'[h] # affinities[h]
    PROVE  \/ \E t \in Tasks : pc[t] = "insert" /\ session[t] = h /\ pc'[t] = "mark"
           \/ affinities[h].expires_at <= time
           \/ affinities[h].provider_id \notin providers
           \/ restarts' # restarts
<1> USE DEF AffinityInv
<1>1. ASSUME NEW t \in Tasks, Insert(t)
      PROVE  pc[t] = "insert" /\ session[t] = h /\ pc'[t] = "mark"
    BY <1>1 DEF Insert, Goto, TypeOK
<1>2. ASSUME NEW t \in Tasks, ForgetRemove(t)
      PROVE  affinities[h].provider_id \notin providers
    <2>1. affinities[h].provider_id = provider[t]
        BY <1>2 DEF ForgetRemove, RemovedIf, TypeOK
    <2> QED
        BY <1>2, <2>1 DEF ForgetRemove, InHand
<1>3. CASE MaintainRemove
    <2>1. mkey = h /\ affinities[h] = batch[h] /\ h \notin written /\ mpc = "remove"
        BY <1>3 DEF MaintainRemove, AfterRemoveIf, InHand, TypeOK
    <2> QED
        BY <2>1 DEF Collected
<1>4. CASE MaintainRetain
    <2>1. affinities[h].expires_at <= mnow /\ affinities[h].expires_at \in Nat
        BY <1>4 DEF MaintainRetain, TypeOK, Entry
    <2> QED
        BY <2>1 DEF InHand, TypeOK
<1>5. CASE Restart
    BY <1>5 DEF Restart, TypeOK
<1>6. CASE UNCHANGED affinities
    BY <1>6
<1> QED
    BY <1>1, <1>2, <1>3, <1>4, <1>5, <1>6 DEF Next, Maintain, Continue, vars, Select,
        DeleteProvider, Drop, Mark, ForgetCollect, ForgetUnmark, ForgetRemark, ForgetDone,
        MaintainCollect, MaintainCommit, MaintainFail, MaintainCompare, MaintainUnmark,
        MaintainRemark, Tick, memory

(***************************************************************************)
(* An entry changes only by a request of its session, when it has expired, *)
(* when its provider was deleted, or by a restart.                         *)
(***************************************************************************)
THEOREM EntriesKept == Spec => AffinityKept
<1>1. AffinityInv /\ [Next]_vars =>
          [\A h \in Sessions :
              affinities[h] # None /\ affinities'[h] # affinities[h] =>
                  \/ \E t \in Tasks : pc[t] = "insert" /\ session[t] = h /\ pc'[t] = "mark"
                  \/ affinities[h].expires_at <= time
                  \/ affinities[h].provider_id \notin providers
                  \/ restarts' # restarts]_vars
    BY KeptStep
<1> QED
    BY <1>1, AffinityInvariant, PTL DEF Spec, AffinityKept
=============================================================================
