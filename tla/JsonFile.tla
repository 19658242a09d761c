------------------------------- MODULE JsonFile -------------------------------
(***************************************************************************)
(* persistence/json-store.ts: one JSON file that is replaced as a whole, by  *)
(* way of a .tmp file, with a .bak of what it replaces. Writes to a path     *)
(* queue, and the files of a path hold the number of a write. A synchronous  *)
(* write takes the same steps with nothing of the process in between.        *)
(***************************************************************************)
EXTENDS Naturals

CONSTANTS MaxWrites,  \* bound: writes asked for
          MaxFaults   \* bound: failures, kills and damages

ASSUME JsonAssumption == MaxWrites \in Nat /\ MaxFaults \in Nat

Missing == 0
Torn == MaxWrites + 1

VARIABLES
    main, bak, tmp,  \* what the three files hold
    wanted,           \* writes asked for; those after "writing" queue
    writing,         \* the write under way, or the last one
    stage,            \* "idle", or how far it is
    acked,           \* the newest write whose caller was told so
    alive,              \* the process runs
    harm,          \* bound
    spoilt,          \* history: the file was damaged from outside since the last rename
    unbacked         \* history: the last copy to .bak failed or was cut off

jsonVars == <<main, bak, tmp, wanted, writing, stage, acked, alive, harm, spoilt, unbacked>>

Readable(text) == text \notin {Missing, Torn}
Fault == harm < MaxFaults /\ harm' = harm + 1

\* readJsonFile: null for no file, the backup for an unreadable one, and else it throws.
ReadResult == IF main = Torn /\ Readable(bak) THEN bak ELSE main

-----------------------------------------------------------------------------
\* atomicWriteJsonAsync: queue behind the writes of this path.
Ask ==
    /\ alive /\ wanted < MaxWrites /\ wanted' = wanted + 1
    /\ UNCHANGED <<main, bak, tmp, writing, stage, acked, alive, harm, spoilt, unbacked>>

\* doAtomicWriteJsonAsync: the whole payload goes to .tmp, in pieces.
WriteTmp ==
    /\ alive /\ stage = "idle" /\ writing < wanted
    /\ writing' = writing + 1 /\ stage' = "writing" /\ tmp' = Torn
    /\ UNCHANGED <<main, bak, wanted, acked, alive, harm, spoilt, unbacked>>

TmpWritten ==
    /\ alive /\ stage = "writing" /\ stage' = "written" /\ tmp' = writing
    /\ UNCHANGED <<main, bak, wanted, writing, acked, alive, harm, spoilt, unbacked>>

\* Slip: whatever the file holds becomes the backup.
Healthy_Any == main # Missing

\* backupHealthySync: "a corrupt main must never be cloned over the last good backup".
Healthy == Readable(main)

\* Copy the file to .bak, if it may become the recovery point.
Backup ==
    /\ alive /\ stage = "written"
    /\ IF Healthy THEN stage' = "copying" /\ bak' = Torn /\ unbacked' = TRUE
                  ELSE stage' = "copied" /\ UNCHANGED <<bak, unbacked>>
    /\ UNCHANGED <<main, tmp, wanted, writing, acked, alive, harm, spoilt>>

\* The copy is done; one that fails is logged, and the write goes on.
BackupEnds ==
    /\ alive /\ stage = "copying" /\ stage' = "copied"
    /\ \/ bak' = main /\ unbacked' = FALSE /\ UNCHANGED harm
       \/ Fault /\ UNCHANGED <<bak, unbacked>>
    /\ UNCHANGED <<main, tmp, wanted, writing, acked, alive, spoilt>>

\* The rename replaces the file at once, and the caller is told.
Rename ==
    /\ alive /\ stage = "copied" /\ stage' = "idle"
    /\ main' = tmp /\ tmp' = Missing
    /\ acked' = writing /\ spoilt' = FALSE
    /\ UNCHANGED <<bak, wanted, writing, alive, harm, unbacked>>

\* A full disk or a refused rename: the caller is told, the next write takes its turn.
WriteThrows ==
    /\ alive /\ stage \in {"writing", "copied"} /\ Fault /\ stage' = "idle"
    /\ UNCHANGED <<main, bak, tmp, wanted, writing, acked, alive, spoilt, unbacked>>

\* The process is killed between any two steps.
KillWriter ==
    /\ alive /\ Fault /\ alive' = FALSE /\ stage' = "idle" /\ wanted' = writing
    /\ UNCHANGED <<main, bak, tmp, writing, acked, spoilt, unbacked>>

\* sweepOrphanTempFiles, when nothing is in flight.
StartUp ==
    /\ ~alive /\ alive' = TRUE /\ tmp' = Missing
    /\ UNCHANGED <<main, bak, wanted, writing, stage, acked, harm, spoilt, unbacked>>

\* The file is damaged from outside, or by a loss of power after a rename.
Damage ==
    /\ Readable(main) /\ stage # "copying" /\ Fault
    /\ main' = Torn /\ spoilt' = TRUE
    /\ UNCHANGED <<bak, tmp, wanted, writing, stage, acked, alive, unbacked>>

JsonInit ==
    /\ main = Missing /\ bak = Missing /\ tmp = Missing
    /\ wanted = 0 /\ writing = 0 /\ stage = "idle" /\ acked = 0 /\ alive = TRUE
    /\ harm = 0 /\ spoilt = FALSE /\ unbacked = FALSE

JsonNext == \/ Ask \/ WriteTmp \/ TmpWritten \/ Backup \/ BackupEnds \/ Rename
            \/ WriteThrows \/ KillWriter \/ StartUp \/ Damage

JsonSpec == JsonInit /\ [][JsonNext]_jsonVars

-----------------------------------------------------------------------------
JsonTypeOK ==
    /\ {main, bak, tmp} \subseteq 0 .. MaxWrites + 1
    /\ wanted \in 0 .. MaxWrites /\ writing \in 0 .. wanted /\ acked \in 0 .. writing
    /\ stage \in {"idle", "writing", "written", "copying", "copied"}
    /\ {alive, spoilt, unbacked} \subseteq BOOLEAN /\ harm \in 0 .. MaxFaults

\* "Replace files atomically" and "every atomic write leaves a .bak of the last good
\* payload, so a parse failure falls back to it": the file is whole unless something
\* outside has spoilt it, and then holds the newest write a caller was told of; a spoilt
\* file is read from a backup of that write or of an earlier one, which no later write cut off by a
\* crash or a failure has overwritten with the damage.
FileSurvives ==
    /\ main = Torn <=> spoilt
    /\ Readable(main) => main = acked
    /\ spoilt => \/ Readable(ReadResult) /\ ReadResult <= acked
                 \/ unbacked \/ bak = Missing
=============================================================================
