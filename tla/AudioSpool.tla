----------------------------- MODULE AudioSpool -----------------------------
(***************************************************************************)
(* The directory of audio uploads that are kept for a retry: each call     *)
(* writes its upload to a file of its own, reads it for one or two         *)
(* attempts and removes it when it ends; a task looks through the          *)
(* directory every minute and removes what a crash or a failed removal has *)
(* left behind.                                                            *)
(*                                                                         *)
(* The age of a file is the time since its last write, in the units of the *)
(* constants.  A scan takes no time, but calls go on between its steps, so *)
(* that a file can go while the scan is at it.  Dispatch has the attempts  *)
(* of a call in detail.                                                    *)
(***************************************************************************)
EXTENDS Integers

CONSTANTS
    Calls,              \* audio calls; each has a file of its own (a UUID)
    MAX_RETENTION,      \* 24 hours in the code
    CLEANUP_INTERVAL,   \* 1 minute in the code
    USE_LIMIT,          \* the longest time the attempts of a call can take:
                        \* the HTTP client gives up on each after 10 minutes
    None

RETENTION == MAX_RETENTION - CLEANUP_INTERVAL

ASSUME SpoolAssumption ==
    /\ MAX_RETENTION \in Nat /\ CLEANUP_INTERVAL \in Nat \ {0} /\ USE_LIMIT \in Nat
    /\ USE_LIMIT < RETENTION
    /\ None \notin Calls

VARIABLES
    phase,      \* of a call: idle, uploading, sending, ended
    exists,     \* is its file there?
    age,        \* of its file, up to MAX_RETENTION
    inUse,      \* time since its upload was complete, up to USE_LIMIT
    up,         \* the process runs
    timer,      \* time until the next scan is due
    scan,       \* idle, next, stat or remove
    listed,     \* files the scan may still be shown
    at,         \* the file the scan is at, or None
    complete,   \* history: the last scan came to its end
    paused      \* history: calls whose client stopped sending for so long
                \* that their file may grow old while it is used

callVars == <<phase, exists, age, inUse, paused>>
scanVars == <<timer, scan, listed, at, complete>>
vars == <<callVars, scanVars, up>>

Init ==
    /\ phase = [c \in Calls |-> "idle"]
    /\ exists = [c \in Calls |-> FALSE]
    /\ age = [c \in Calls |-> 0]
    /\ inUse = [c \in Calls |-> 0]
    /\ up = TRUE
    /\ timer = 0
    /\ scan = "idle"
    /\ listed = {}
    /\ at = None
    /\ complete = FALSE
    /\ paused = {}

Live(c) == phase[c] \in {"uploading", "sending"}

-----------------------------------------------------------------------------
(***************************************************************************)
(* A call: AudioSpool::create, body and drop.                              *)
(***************************************************************************)
\* The scan may or may not be shown a file that is new in the directory.
Create(c) ==
    /\ up /\ phase[c] = "idle"
    /\ phase' = [phase EXCEPT ![c] = "uploading"]
    /\ exists' = [exists EXCEPT ![c] = TRUE]
    /\ \/ scan # "idle" /\ listed' = listed \cup {c}
       \/ UNCHANGED listed
    /\ UNCHANGED <<age, inUse, paused, timer, scan, at, complete, up>>

\* A chunk is written, to a file that may have been unlinked meanwhile.
Write(c) ==
    /\ up /\ phase[c] = "uploading"
    /\ age' = [age EXCEPT ![c] = 0]
    /\ UNCHANGED <<phase, exists, inUse, paused, scanVars, up>>

Uploaded(c) ==
    /\ up /\ phase[c] = "uploading"
    /\ phase' = [phase EXCEPT ![c] = "sending"]
    /\ UNCHANGED <<exists, age, inUse, paused, scanVars, up>>

\* Drop: after the last attempt, when the file cannot be opened, when the
\* upload fails, or when the client leaves.  The removal itself may fail.
Drop(c) ==
    /\ up /\ Live(c)
    /\ phase' = [phase EXCEPT ![c] = "ended"]
    /\ \/ exists' = [exists EXCEPT ![c] = FALSE]
       \/ UNCHANGED exists
    /\ UNCHANGED <<age, inUse, paused, scanVars, up>>

-----------------------------------------------------------------------------
(***************************************************************************)
(* The scan: start_cleanup and cleanup.                                    *)
(***************************************************************************)
ScanStart ==
    /\ up /\ scan = "idle" /\ timer = 0
    /\ scan' = "next"
    /\ timer' = CLEANUP_INTERVAL
    /\ listed' = {c \in Calls : exists[c]}
    /\ UNCHANGED <<at, complete, callVars, up>>

\* next_entry.  The directory may have been read ahead, so a file that is
\* gone by now may be shown, or not.
ScanNext(c) ==
    /\ scan = "next" /\ c \in listed
    /\ listed' = listed \ {c}
    /\ \/ scan' = "stat" /\ at' = c
       \/ ~exists[c] /\ UNCHANGED <<scan, at>>
    /\ UNCHANGED <<timer, complete, callVars, up>>

Abort_RetriesEntry == UNCHANGED <<scan, at, listed, complete>>

\* An error ends the scan; start_cleanup logs it and waits for the next.
Abort ==
    /\ scan' = "idle"
    /\ at' = None
    /\ listed' = {}
    /\ complete' = FALSE

IsOld_AfterMaximum(c) == age[c] >= MAX_RETENTION

IsOld_AfterInterval(c) == age[c] >= CLEANUP_INTERVAL

IsOld(c) == age[c] >= RETENTION

\* metadata, an error if the file is gone.
ScanStat ==
    /\ scan = "stat"
    /\ IF ~exists[at] THEN Abort
       ELSE /\ scan' = IF IsOld(at) THEN "remove" ELSE "next"
            /\ at' = IF IsOld(at) THEN at ELSE None
            /\ UNCHANGED <<listed, complete>>
    /\ UNCHANGED <<timer, callVars, up>>

\* remove_file
ScanRemove ==
    /\ scan = "remove" /\ exists[at]
    /\ exists' = [exists EXCEPT ![at] = FALSE]
    /\ scan' = "next"
    /\ at' = None
    /\ UNCHANGED <<listed, complete, timer, phase, age, inUse, paused, up>>

\* The file is gone, or the file system refuses for the time being.
ScanRemoveErr ==
    /\ scan = "remove"
    /\ Abort
    /\ UNCHANGED <<timer, callVars, up>>

ScanEnd ==
    /\ scan = "next" /\ listed = {}
    /\ scan' = "idle"
    /\ complete' = TRUE
    /\ UNCHANGED <<timer, listed, at, callVars, up>>

Scan ==
    \/ ScanStart
    \/ \E c \in Calls : ScanNext(c)
    \/ ScanStat
    \/ ScanRemove
    \/ ScanRemoveErr
    \/ ScanEnd

-----------------------------------------------------------------------------
\* The process ends, with every call; its files stay.
Crash ==
    /\ up
    /\ up' = FALSE
    /\ phase' = [c \in Calls |-> IF Live(c) THEN "ended" ELSE phase[c]]
    /\ timer' = 0
    /\ scan' = "idle"
    /\ listed' = {}
    /\ at' = None
    /\ complete' = FALSE
    /\ UNCHANGED <<exists, age, inUse, paused>>

\* The first tick of an interval is due at once.
Boot ==
    /\ ~up
    /\ up' = TRUE
    /\ UNCHANGED <<callVars, scanVars>>

Older(n) == IF n < MAX_RETENTION THEN n + 1 ELSE n

Paused(c) == phase[c] = "uploading" /\ age[c] + 1 >= RETENTION - USE_LIMIT

\* Time passes when no scan is due or under way, and no longer than the
\* attempts of a call can take.
Tick ==
    /\ up => scan = "idle" /\ timer > 0
    /\ \A c \in Calls : phase[c] = "sending" => inUse[c] < USE_LIMIT
    /\ timer' = IF timer > 0 THEN timer - 1 ELSE 0
    /\ age' = [c \in Calls |-> IF exists[c] \/ Live(c) THEN Older(age[c]) ELSE age[c]]
    /\ inUse' = [c \in Calls |-> IF phase[c] = "sending" THEN inUse[c] + 1 ELSE inUse[c]]
    /\ paused' = paused \cup {c \in Calls : Paused(c)}
    /\ UNCHANGED <<phase, exists, scan, listed, at, complete, up>>

Next ==
    \/ \E c \in Calls : Create(c) \/ Write(c) \/ Uploaded(c) \/ Drop(c)
    \/ Scan
    \/ Crash
    \/ Boot
    \/ Tick

Spec == Init /\ [][Next]_vars

\* Time passes; the task is scheduled; the process is restarted; an attempt
\* ends by the time-out of the HTTP client at the latest; and the file system
\* does not refuse the removal of one file for ever.
Fairness ==
    /\ WF_vars(Tick) /\ WF_vars(Scan) /\ WF_vars(Boot)
    /\ \A c \in Calls :
        /\ WF_vars(phase[c] = "sending" /\ Drop(c))
        /\ SF_vars(at = c /\ ScanRemove)

FairSpec == Spec /\ Fairness

-----------------------------------------------------------------------------
(***************************************************************************)
(* Properties.                                                             *)
(***************************************************************************)
\* The types of the variables: ages within the retention, and a scan that is
\* at a file exactly between next_entry and the end of what it does with it.
TypeOK ==
    /\ phase \in [Calls -> {"idle", "uploading", "sending", "ended"}]
    /\ exists \in [Calls -> BOOLEAN]
    /\ age \in [Calls -> 0 .. MAX_RETENTION]
    /\ inUse \in [Calls -> 0 .. USE_LIMIT]
    /\ timer \in 0 .. CLEANUP_INTERVAL
    /\ scan \in {"idle", "next", "stat", "remove"}
    /\ listed \subseteq Calls
    /\ at \in Calls \cup {None}
    /\ at \in Calls <=> scan \in {"stat", "remove"}
    /\ complete \in BOOLEAN /\ up \in BOOLEAN
    /\ paused \subseteq Calls

Orphan(c) == exists[c] /\ phase[c] = "ended"

\* "Delete one scan early so an orphan never reaches the 24-hour maximum
\* between scans" (audio_spool.rs:19): a file that its call has left behind
\* stays below MAX_RETENTION from one scan that came to its end to the next,
\* though it is shown to the task only once an interval and the task keeps
\* what is younger than RETENTION.
OrphansExpire ==
    up /\ complete => \A c \in Calls : Orphan(c) => age[c] < MAX_RETENTION

\* The scan does not take the file of a call that is being answered: body()
\* opens it by its name for the second attempt.  Only a client that stopped
\* sending for most of a day before the end of its upload can lose it.
SentFilesKept ==
    \A c \in Calls : phase[c] = "sending" => exists[c] \/ c \in paused

\* A file left behind by a crash or a failed removal goes in the end, though
\* a scan ends at its first error, once the process stays up and calls no
\* longer remove their files under the scan.
OrphansRemoved ==
    \A c \in Calls : <>[]up => (Orphan(c) ~> ~exists[c])
=============================================================================
