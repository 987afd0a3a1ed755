---------------------- MODULE MachineConfigPoolController ----------------------
(***************************************************************************)
(* The MachineConfigPool controller: it records in the UpgradeConfig when  *)
(* the worker machines began and finished upgrading, by a status update of *)
(* its own that races the ones of the UpgradeConfig controller.            *)
(***************************************************************************)
EXTENDS UpgradeConfigController

VARIABLE
    machines   \* UpdatedMachineCount as read by this reconcile, Nil between two

MCPTypeOK == machines \in 0..NumWorkers \cup {Nil}

MCPInit == machines = Nil

mcpFrame == <<policy, mgrVars, recVars, clusterVars>>

\* Get the worker MachineConfigPool ...
MCPGetPool ==
    /\ machines = Nil
    /\ machines' = pool.updated
    /\ UNCHANGED <<crVars, mcpFrame>>

\* ... then the UpgradeConfig, which must be Upgrading ...
MCPGetUpgradeConfig ==
    /\ machines # Nil
    /\ held["mcp"] = Nil
    /\ GetUC("mcp")
    /\ uc.phase = "Upgrading"
    /\ UNCHANGED <<machines, mcpFrame>>

\* Faulty variant: an end is also recorded without a start.
WorkerTimesUnguarded(obj, updated) ==
    LET started ==
          IF updated = 0 /\ obj.workerStartTime = Nil
            THEN [obj EXCEPT !.workerStartTime = now]
            ELSE obj
    IN  IF updated = NumWorkers /\ started.workerCompleteTime = Nil
          THEN [started EXCEPT !.workerCompleteTime = now]
          ELSE started

\* The timestamps a reconcile adds: the start when no machine is updated, the end
\* when all are, and never an end without a start.
WorkerTimes(obj, updated) ==
    LET started ==
          IF updated = 0 /\ obj.workerStartTime = Nil
            THEN [obj EXCEPT !.workerStartTime = now]
            ELSE obj
    IN  IF /\ updated = NumWorkers
           /\ started.workerStartTime # Nil
           /\ started.workerCompleteTime = Nil
          THEN [started EXCEPT !.workerCompleteTime = now]
          ELSE started

\* ... and write the timestamps.
MCPRecord ==
    /\ held["mcp"] # Nil
    /\ UpdateStatusAndReturn("mcp", WorkerTimes(held["mcp"], machines), FALSE)
    /\ machines' = Nil
    /\ UNCHANGED mcpFrame

\* No UpgradeConfig or not an Upgrading one, an error, or a refused write.
MCPReturn ==
    /\ machines # Nil
    /\ DropUC("mcp")
    /\ machines' = Nil
    /\ UNCHANGED mcpFrame

MachineConfigPoolReconcile ==
    MCPGetPool \/ MCPGetUpgradeConfig \/ MCPRecord \/ MCPReturn

================================================================================
