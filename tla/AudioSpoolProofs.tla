-------------------------- MODULE AudioSpoolProofs --------------------------
(***************************************************************************)
(* Proofs about AudioSpool, for any number of calls and any retention,     *)
(* interval and time of use.                                               *)
(*                                                                         *)
(* Two arguments, each inductive with the types.  Files in use: the time a *)
(* call has been sending bounds how much older its file can have grown     *)
(* (InUseYoung), so the scan never decides to remove it (Condemned).       *)
(* Orphans: from the end of a complete scan to the start of the next the   *)
(* age of a file and the time to that start add up to less than the        *)
(* maximum (Scheduled), and during a scan what it has passed is young      *)
(* (Passed).                                                               *)
(***************************************************************************)
EXTENDS AudioSpool, TLAPS

\* A call that has not begun has no file.
Fresh == \A c \in Calls : phase[c] = "idle" => ~exists[c] /\ age[c] = 0 /\ inUse[c] = 0

\* The file of a call is younger than the time it has been used and the
\* longest pause that is taken into account allow.
InUseYoung ==
    \A c \in Calls : c \notin paused =>
        /\ phase[c] = "uploading" =>
               exists[c] /\ inUse[c] = 0 /\ age[c] < RETENTION - USE_LIMIT
        /\ phase[c] = "sending" =>
               exists[c] /\ age[c] < RETENTION - USE_LIMIT + inUse[c]

\* What the scan is about to remove is not in use.
Condemned == scan = "remove" => phase[at] = "ended" \/ at \in paused

UseInv == TypeOK /\ Fresh /\ InUseYoung /\ Condemned

\* Time to the next scan: all of the interval while one is under way.
Timely == scan # "idle" => up /\ timer = CLEANUP_INTERVAL

\* After a complete scan each file has time left until the next one starts.
Scheduled ==
    complete => /\ up
                /\ \A c \in Calls : exists[c] =>
                      /\ age[c] < MAX_RETENTION
                      /\ scan = "idle" => age[c] + timer < MAX_RETENTION

\* What a scan under way has passed is young.
Passed ==
    scan # "idle" =>
        \A c \in Calls : exists[c] /\ c \notin listed /\ c # at => age[c] < RETENTION

OrphanInv == TypeOK /\ Fresh /\ Timely /\ Scheduled /\ Passed

\* The constants, in the form the provers use.
LEMMA Constants ==
    /\ MAX_RETENTION \in Nat /\ CLEANUP_INTERVAL \in Nat /\ USE_LIMIT \in Nat
    /\ CLEANUP_INTERVAL > 0
    /\ RETENTION \in Int /\ RETENTION = MAX_RETENTION - CLEANUP_INTERVAL
    /\ USE_LIMIT < RETENTION
    /\ None \notin Calls
BY SpoolAssumption DEF RETENTION

\* The initial states satisfy both invariants.
LEMMA InitInv == Init => UseInv /\ OrphanInv
<1> SUFFICES ASSUME Init PROVE UseInv /\ OrphanInv
    OBVIOUS
<1> USE Constants DEF Init
<1>1. TypeOK
    <2>1. phase \in [Calls -> {"idle", "uploading", "sending", "ended"}]
            /\ exists \in [Calls -> BOOLEAN]
        OBVIOUS
    <2>2. age \in [Calls -> 0 .. MAX_RETENTION] /\ inUse \in [Calls -> 0 .. USE_LIMIT]
            /\ timer \in 0 .. CLEANUP_INTERVAL
        OBVIOUS
    <2> QED
        BY <2>1, <2>2 DEF TypeOK
<1>2. Fresh /\ InUseYoung /\ Condemned
    BY DEF Fresh, InUseYoung, Condemned
<1>3. Timely /\ Scheduled /\ Passed
    BY DEF Timely, Scheduled, Passed
<1> QED
    BY <1>1, <1>2, <1>3 DEF UseInv, OrphanInv

\* Every step keeps the types.
LEMMA TypeStep == TypeOK /\ [Next]_vars => TypeOK'
<1> SUFFICES ASSUME TypeOK, [Next]_vars PROVE TypeOK'
    OBVIOUS
<1> USE Constants DEF TypeOK, callVars, scanVars
<1>1. ASSUME NEW c \in Calls, Create(c) PROVE TypeOK'
    BY <1>1 DEF Create
<1>2. ASSUME NEW c \in Calls, Write(c) \/ Uploaded(c) PROVE TypeOK'
    BY <1>2 DEF Write, Uploaded
<1>3. ASSUME NEW c \in Calls, Drop(c) PROVE TypeOK'
    BY <1>3 DEF Drop
<1>4. ASSUME NEW c \in Calls, ScanNext(c) PROVE TypeOK'
    BY <1>4 DEF ScanNext
<1>5. CASE ScanStart
    <2>1. timer' \in 0 .. CLEANUP_INTERVAL /\ listed' \subseteq Calls
        BY <1>5 DEF ScanStart
    <2> QED
        BY <1>5, <2>1 DEF ScanStart
<1>5a. CASE ScanEnd
    BY <1>5a DEF ScanEnd
<1>6. CASE ScanStat
    BY <1>6 DEF ScanStat, Abort
<1>7. CASE ScanRemove
    BY <1>7 DEF ScanRemove
<1>8. CASE ScanRemoveErr
    BY <1>8 DEF ScanRemoveErr, Abort
<1>9. CASE Crash
    <2>1. phase' \in [Calls -> {"idle", "uploading", "sending", "ended"}]
        BY <1>9 DEF Crash
    <2>2. timer' \in 0 .. CLEANUP_INTERVAL
        BY <1>9 DEF Crash
    <2> QED
        BY <1>9, <2>1, <2>2 DEF Crash
<1>9a. CASE Boot
    BY <1>9a DEF Boot
<1>10. CASE Tick
    BY <1>10 DEF Tick, Older
<1>11. CASE UNCHANGED vars
    BY <1>11 DEF vars
<1> QED
    BY <1>1, <1>2, <1>3, <1>4, <1>5, <1>5a, <1>6, <1>7, <1>8, <1>9, <1>9a,
        <1>10, <1>11 DEF Next, Scan

\* Every step keeps the calls that have not begun without a file.
LEMMA FreshStep == TypeOK /\ Fresh /\ [Next]_vars => Fresh'
<1> SUFFICES ASSUME TypeOK, Fresh, [Next]_vars, NEW c \in Calls, phase'[c] = "idle"
             PROVE  ~exists'[c] /\ age'[c] = 0 /\ inUse'[c] = 0
    BY DEF Fresh
<1> USE DEF TypeOK, Fresh, callVars, scanVars
<1>1. ASSUME NEW d \in Calls, Create(d) \/ Write(d) \/ Uploaded(d) \/ Drop(d)
      PROVE  ~exists'[c] /\ age'[c] = 0 /\ inUse'[c] = 0
    BY <1>1 DEF Create, Write, Uploaded, Drop, Live
<1>2. CASE Scan
    BY <1>2 DEF Scan, ScanStart, ScanNext, ScanStat, ScanRemove, ScanRemoveErr, ScanEnd
<1>3. CASE Crash \/ Boot \/ UNCHANGED vars
    BY <1>3 DEF Crash, Boot, Live, vars
<1>4. CASE Tick
    BY <1>4 DEF Tick, Live
<1> QED
    BY <1>1, <1>2, <1>3, <1>4 DEF Next

\* Every step keeps the files in use young and what is condemned unused.
LEMMA UseStep == UseInv /\ [Next]_vars => InUseYoung' /\ Condemned'
<1> SUFFICES ASSUME UseInv, [Next]_vars PROVE InUseYoung' /\ Condemned'
    OBVIOUS
<1> USE Constants DEF UseInv, callVars, scanVars
<1>1. ASSUME NEW c \in Calls, Create(c) PROVE InUseYoung' /\ Condemned'
    BY <1>1 DEF Create, TypeOK, Fresh, InUseYoung, Condemned
<1>2. ASSUME NEW c \in Calls, Write(c) \/ Uploaded(c) PROVE InUseYoung' /\ Condemned'
    BY <1>2 DEF Write, Uploaded, TypeOK, InUseYoung, Condemned
<1>3. ASSUME NEW c \in Calls, Drop(c) PROVE InUseYoung' /\ Condemned'
    BY <1>3 DEF Drop, TypeOK, InUseYoung, Condemned
<1>4. CASE ScanStart \/ (\E c \in Calls : ScanNext(c)) \/ ScanRemoveErr \/ ScanEnd
    BY <1>4 DEF ScanStart, ScanNext, ScanRemoveErr, ScanEnd, Abort, InUseYoung, Condemned
<1>5. CASE ScanStat
    <2>1. InUseYoung'
        BY <1>5 DEF ScanStat, InUseYoung
    <2>2. ASSUME exists[at], IsOld(at), scan = "stat"
          PROVE  phase[at] = "ended" \/ at \in paused
        BY <2>2 DEF IsOld, TypeOK, Fresh, InUseYoung
    <2>3. Condemned'
        BY <1>5, <2>2 DEF ScanStat, Abort, Condemned
    <2> QED
        BY <2>1, <2>3
<1>6. CASE ScanRemove
    <2>1. at \in Calls /\ (phase[at] = "ended" \/ at \in paused)
        BY <1>6 DEF ScanRemove, TypeOK, Condemned
    <2> QED
        BY <1>6, <2>1 DEF ScanRemove, TypeOK, InUseYoung, Condemned
<1>7. CASE Crash
    BY <1>7 DEF Crash, Live, TypeOK, InUseYoung, Condemned
<1>8. CASE Boot \/ UNCHANGED vars
    BY <1>8 DEF Boot, vars, InUseYoung, Condemned
<1>9. CASE Tick
    <2>1. Condemned'
        BY <1>9 DEF Tick, Condemned
    <2>2. ASSUME NEW c \in Calls, c \notin paused'
          PROVE  /\ phase'[c] = "uploading" =>
                        exists'[c] /\ inUse'[c] = 0 /\ age'[c] < RETENTION - USE_LIMIT
                 /\ phase'[c] = "sending" =>
                        exists'[c] /\ age'[c] < RETENTION - USE_LIMIT + inUse'[c]
        <3>1. c \notin paused /\ ~Paused(c)
            BY <1>9, <2>2 DEF Tick
        <3> QED
            BY <1>9, <3>1 DEF Tick, Paused, Older, TypeOK, InUseYoung
    <2> QED
        BY <2>1, <2>2 DEF InUseYoung
<1> QED
    BY <1>1, <1>2, <1>3, <1>4, <1>5, <1>6, <1>7, <1>8, <1>9 DEF Next, Scan

\* Every step keeps the interval of a scan.
LEMMA TimelyStep == TypeOK /\ Timely /\ [Next]_vars => Timely'
<1> USE DEF TypeOK, Timely, callVars, scanVars
<1> SUFFICES ASSUME TypeOK, Timely, [Next]_vars PROVE Timely'
    OBVIOUS
<1>1. CASE \E c \in Calls : Create(c) \/ Write(c) \/ Uploaded(c) \/ Drop(c)
    BY <1>1 DEF Create, Write, Uploaded, Drop
<1>2. CASE Scan
    BY <1>2 DEF Scan, ScanStart, ScanNext, ScanStat, ScanRemove, ScanRemoveErr, ScanEnd, Abort
<1>3. CASE Crash \/ Boot \/ Tick \/ UNCHANGED vars
    BY <1>3 DEF Crash, Boot, Tick, vars
<1> QED
    BY <1>1, <1>2, <1>3 DEF Next

\* Every step of a call keeps the ages within the schedule.
LEMMA CallSchedule ==
    ASSUME OrphanInv, NEW c \in Calls, Create(c) \/ Write(c) \/ Uploaded(c) \/ Drop(c)
    PROVE  Scheduled' /\ Passed'
<1> USE Constants DEF OrphanInv, callVars, scanVars, TypeOK
<1>1. CASE Create(c)
    BY <1>1 DEF Create, Fresh, Scheduled, Passed
<1>2. CASE Write(c)
    BY <1>2 DEF Write, Scheduled, Passed
<1>3. CASE Uploaded(c)
    BY <1>3 DEF Uploaded, Scheduled, Passed
<1>4. CASE Drop(c)
    BY <1>4 DEF Drop, Scheduled, Passed
<1> QED
    BY <1>1, <1>2, <1>3, <1>4

\* Every step of the scan keeps the ages within the schedule.
LEMMA ScanSchedule == OrphanInv /\ Scan => Scheduled' /\ Passed'
<1> SUFFICES ASSUME OrphanInv, Scan PROVE Scheduled' /\ Passed'
    OBVIOUS
<1> USE Constants DEF OrphanInv, callVars, scanVars, TypeOK
<1>1. CASE ScanStart
    BY <1>1 DEF ScanStart, Scheduled, Passed
<1>2. ASSUME NEW c \in Calls, ScanNext(c) PROVE Scheduled' /\ Passed'
    BY <1>2 DEF ScanNext, Scheduled, Passed
<1>3. CASE ScanStat
    BY <1>3 DEF ScanStat, Abort, IsOld, Scheduled, Passed
<1>4. CASE ScanRemove
    BY <1>4 DEF ScanRemove, Scheduled, Passed
<1>5. CASE ScanRemoveErr
    BY <1>5 DEF ScanRemoveErr, Abort, Scheduled, Passed
<1>6. CASE ScanEnd
    <2>1. \A c \in Calls : exists[c] => age[c] < RETENTION
        BY <1>6 DEF ScanEnd, Passed
    <2>2. up /\ timer = CLEANUP_INTERVAL
        BY <1>6 DEF ScanEnd, Timely
    <2> QED
        BY <1>6, <2>1, <2>2 DEF ScanEnd, Scheduled, Passed
<1> QED
    BY <1>1, <1>2, <1>3, <1>4, <1>5, <1>6 DEF Scan

\* Every step keeps the ages within the schedule.
LEMMA ScheduleStep == OrphanInv /\ [Next]_vars => Scheduled' /\ Passed'
<1> SUFFICES ASSUME OrphanInv, [Next]_vars PROVE Scheduled' /\ Passed'
    OBVIOUS
<1> USE Constants DEF OrphanInv, callVars, scanVars, TypeOK
<1>1. CASE Crash \/ Boot \/ UNCHANGED vars
    BY <1>1 DEF Crash, Boot, vars, Scheduled, Passed
<1>2. CASE Tick
    BY <1>2 DEF Tick, Older, Timely, Scheduled, Passed
<1> QED
    BY <1>1, <1>2, CallSchedule, ScanSchedule DEF Next

(***************************************************************************)
(* The inductive invariants hold in every execution.                       *)
(***************************************************************************)
THEOREM SpoolInvariant == Spec => [](UseInv /\ OrphanInv)
<1>1. UseInv /\ OrphanInv /\ [Next]_vars => UseInv' /\ OrphanInv'
    BY TypeStep, FreshStep, UseStep, TimelyStep, ScheduleStep DEF UseInv, OrphanInv
<1> QED
    BY <1>1, InitInv, PTL DEF Spec

\* All variables keep their types in every execution.
THEOREM SpoolTypes == Spec => []TypeOK
<1>1. UseInv => TypeOK
    BY DEF UseInv
<1> QED
    BY <1>1, SpoolInvariant, PTL

(***************************************************************************)
(* After a scan that came to its end no orphan reaches the maximum before  *)
(* the next one has looked at it (audio_spool.rs:19).                      *)
(***************************************************************************)
THEOREM OrphansStayYoung == Spec => []OrphansExpire
<1>1. OrphanInv => OrphansExpire
    BY DEF OrphanInv, Scheduled, OrphansExpire, Orphan
<1> QED
    BY <1>1, SpoolInvariant, PTL

(***************************************************************************)
(* The scan never removes the file of a call that is being answered, but   *)
(* after a pause of the client close to the retention.                     *)
(***************************************************************************)
THEOREM FilesInUseKept == Spec => []SentFilesKept
<1>1. UseInv => SentFilesKept
    BY DEF UseInv, InUseYoung, SentFilesKept
<1> QED
    BY <1>1, SpoolInvariant, PTL
=============================================================================
