------------------------------ MODULE MCStorage ------------------------------
(***************************************************************************)
(* One instance for the server's two stores, the JSON file under the others  *)
(* and the end of the process, which knows a store by its flush alone. They  *)
(* share no file and no variable, so a behaviour moves one of them, the      *)
(* subject, and leaves the others at their initial state: their product      *)
(* would only interleave steps that cannot affect each other.                *)
(***************************************************************************)
EXTENDS SessionLedger, BuilderStorage, JsonFile, ServerShutdown

VARIABLE subject  \* "ledger", "builder", "json" or "exit"

vars == <<subject, ledgerVars, storageVars, jsonVars, shutdownVars>>

Init ==
    /\ subject \in {"ledger", "builder", "json", "exit"}
    /\ LedgerInit /\ StorageInit /\ JsonInit /\ ShutdownInit

\* A step of this subject; the others are left alone.
Ledger(Act) == subject = "ledger" /\ Act
               /\ UNCHANGED <<subject, storageVars, jsonVars, shutdownVars>>
Builder(Act) == subject = "builder" /\ Act
                /\ UNCHANGED <<subject, ledgerVars, jsonVars, shutdownVars>>
Json(Act) == subject = "json" /\ Act
             /\ UNCHANGED <<subject, ledgerVars, storageVars, shutdownVars>>
End(Act) == subject = "exit" /\ Act
            /\ UNCHANGED <<subject, ledgerVars, storageVars, jsonVars>>

LedgerStep == Ledger(LedgerNext)
BuilderStep == Builder(StorageNext)
JsonStep == Json(JsonNext)
EndStep == End(ShutdownNext)
Next == LedgerStep \/ BuilderStep \/ JsonStep \/ EndStep

Safety == Init /\ [][Next]_vars

\* Every subject has the fairness of its own specification.
Spec ==
    /\ Safety
    /\ WF_vars(Ledger(Work))
    /\ WF_vars(Builder(TimerFires)) /\ WF_vars(Builder(JournalWrite))
    /\ WF_vars(Builder(SnapTimerFires)) /\ WF_vars(Builder(SnapshotWrite))
    /\ WF_vars(End(Watchdogs))

StoresTypeOK == LedgerTypeOK /\ StorageTypeOK /\ JsonTypeOK /\ ShutdownTypeOK

\* What was acknowledged is still there after a crash, in the ledger and in any JSON file.
StoresSurvive == CrashKeepsCommitted /\ FileSurvives

\* "Awaited on shutdown so the last committed turn survives": the exit waits for the
\* flush (BuilderStorage), and the flush comes when no turn is served any more.
ExitKeepsTurns == OrderlyExitKeepsTurns /\ CleanExitKeepsServed

\* Every call is answered, everything accepted reaches its file, and a process that was
\* told to end, or crashed, does end.
EveryWriteSettles == EveryCallSettles /\ CommitsReachDisk /\ RecordsReachDisk /\ ProcessEnds
=============================================================================
