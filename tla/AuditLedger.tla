---------------------------- MODULE AuditLedger ----------------------------
(***************************************************************************)
(* What the audit of API calls promises, without channel, writer, batches  *)
(* and tables.  A call is either refused an audit when it begins, because  *)
(* the queue is full, or its audit is opened; an open audit is settled     *)
(* with one outcome, a settled audit is recorded with that outcome, and a  *)
(* record disappears only when it is erased with its consumer.  Nothing is *)
(* recorded twice, or forgotten between being settled and being recorded.  *)
(***************************************************************************)
CONSTANTS Calls, Outcomes, None

VARIABLE ledger

Stages == {"none", "open", "settled", "recorded", "gone"}

Entry(stage, outcome) == [stage |-> stage, outcome |-> outcome]

LedgerTypeOK ==
    ledger \in [Calls -> [stage : Stages, outcome : Outcomes \cup {None}]]

Init == ledger = [c \in Calls |-> Entry("none", None)]

\* The entries of the calls in S become those of the function new.
Move(S, new(_)) ==
    ledger' = [c \in Calls |-> IF c \in S THEN new(c) ELSE ledger[c]]

Open(c) ==
    /\ ledger[c].stage = "none"
    /\ Move({c}, LAMBDA x : Entry("open", None))

Refuse(c) ==
    /\ ledger[c].stage = "none"
    /\ Move({c}, LAMBDA x : Entry("gone", None))

Settle(c, outcome) ==
    /\ ledger[c].stage = "open"
    /\ Move({c}, LAMBDA x : Entry("settled", outcome))

\* A batch of settled audits is recorded in one transaction.
Record(S) ==
    /\ \A c \in S : ledger[c].stage = "settled"
    /\ Move(S, LAMBDA x : Entry("recorded", ledger[x].outcome))

\* A consumer is deleted with all its records.
Erase(S) ==
    /\ \A c \in S : ledger[c].stage = "recorded"
    /\ Move(S, LAMBDA x : Entry("gone", None))

Next ==
    \/ \E c \in Calls : Open(c) \/ Refuse(c) \/ \E o \in Outcomes : Settle(c, o)
    \/ \E S \in SUBSET Calls : Record(S) \/ Erase(S)

Spec == Init /\ [][Next]_ledger
=============================================================================
