---------------------------- MODULE MCAutomation ----------------------------
(* Instances of Automation.                                                *)
EXTENDS Automation

\* A queue of one, a second attempt, a crash, and agents that exit.
QueueConf ==
    [horizon |-> 2, manual |-> 0, crashes |-> 1, errors |-> 0, prunes |-> FALSE,
     overlap |-> "Queue", manualPolicies |-> {}, misfire |-> "Queue", grace |-> 1, queueCap |-> 1, maxAttempts |-> 2, threshold |-> 1,
     maxScheduled |-> 0, precheck |-> FALSE, reuse |-> FALSE,
     requests |-> {}, reports |-> {}]

\* People start, cancel, take over and stop waiting beside the schedule.
PeopleConf ==
    [horizon |-> 1, manual |-> 1, crashes |-> 0, errors |-> 0, prunes |-> FALSE, overlap |-> "Skip",
     manualPolicies |-> {"ForceParallel"}, misfire |-> "RunLatestOnce", grace |-> 0,
     queueCap |-> 1, maxAttempts |-> 1, threshold |-> 1, maxScheduled |-> 0,
     precheck |-> TRUE, reuse |-> FALSE,
     requests |-> {"cancel", "takeOver", "wait"}, reports |-> {"Success"}]

\* A bound conversation, a precheck, a limit of one run, and agents that wait.
ReuseConf ==
    [horizon |-> 2, manual |-> 0, crashes |-> 1, errors |-> 0, prunes |-> FALSE, overlap |-> "RunLatestOnce",
     manualPolicies |-> {}, misfire |-> "RunLatestOnce", grace |-> 0, queueCap |-> 1,
     maxAttempts |-> 2, threshold |-> 1, maxScheduled |-> 1, precheck |-> TRUE, reuse |-> TRUE,
     requests |-> {"trash", "extend"}, reports |-> {"Success", "waiting", "working"}]

\* One run with a third attempt, so that a resumed conversation is replaced.
RetryConf == [QueueConf EXCEPT !.horizon = 1, !.maxAttempts = 3]

\* A run by hand beside a scheduled one, both interrupted by a crash.
ParallelConf ==
    [QueueConf EXCEPT !.horizon = 1, !.manual = 1, !.manualPolicies = {"ForceParallel"}]

\* A schedule that people pause and resume, and rows that get old.
PauseConf == [QueueConf EXCEPT !.maxAttempts = 1, !.prunes = TRUE, !.requests = {"pause"}]

\* A limit, rows that get old, store errors, and misfires that are dropped.
FaultConf ==
    [QueueConf EXCEPT !.horizon = 3, !.crashes = 0, !.errors = 1, !.prunes = TRUE, !.misfire = "RunLatestOnce",
                      !.grace = 0, !.maxAttempts = 1, !.maxScheduled = 1]

\* A longer queue with one attempt, which people may cancel.
LiveConf ==
    [QueueConf EXCEPT !.queueCap = 2, !.maxAttempts = 1,
                      !.requests = {"cancel"}, !.reports = {"waiting"}]

\* The same queue, where the store fails instead of the host.
LiveErrorConf == [QueueConf EXCEPT !.queueCap = 2, !.maxAttempts = 1, !.crashes = 0, !.errors = 1]

\* One run by hand that reports blocked.
ManualConf ==
    [QueueConf EXCEPT !.horizon = 1, !.manual = 1, !.crashes = 0, !.maxAttempts = 1,
                      !.reports = {"Blocked"}]

SafeConfigs   ==
    {QueueConf, PeopleConf, ReuseConf, RetryConf, ParallelConf, PauseConf, FaultConf}
LiveConfigs   == {LiveConf, LiveErrorConf}
ManualConfigs == {ManualConf}
=============================================================================
