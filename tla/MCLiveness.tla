----------------------------- MODULE MCLiveness -----------------------------
(* Smallest instances, for TLC, of the services that must eventually do       *)
(* something.  A behaviour is about one of them, its part; the others rest.  *)
EXTENDS SyncFeed, Cron, Connector, HarnessLogin, RemoteControl, Relay,
        GuidanceSearch, Learning, Behavior, BrowserRuns

VARIABLE part   \* the component this behaviour is about

vars == <<part, feedVars, cronVars, connectorVars, loginVars, rcVars,
          relayVars, supervisorVars, searchVars, learningVars, behaviorVars,
          browserVars, analysisVars>>

Parts == {"feed", "cron", "connector", "login", "remote", "relay",
          "supervisor", "guidance", "experience", "behavior", "browser",
          "analysis"}

\* A component that is not the part of the behaviour rests in an initial state.
Init ==
    /\ part \in Parts
    /\ FeedInit
    /\ CronInit /\ (part # "cron" => \A j \in Jobs : job[j].kind = "at")
    /\ ConnectorInit
    /\ HarnessLoginInit /\ (part # "login" => place = [device |-> "gateway", harness |-> "codex"])
    /\ RemoteControlInit
    /\ RelayInit
    /\ SupervisorInit
    /\ GuidanceInit
    /\ ExperienceInit
    /\ BehaviorInit /\ (part # "behavior" => ~consent.enabled)
    /\ BrowserInit
    /\ AnalysisInit

FeedPart ==
    /\ part = "feed" /\ FeedNext
    /\ UNCHANGED <<part, cronVars, connectorVars, loginVars, rcVars,
                   relayVars, supervisorVars, searchVars, learningVars,
                   behaviorVars, browserVars, analysisVars>>

CronPart ==
    /\ part = "cron" /\ CronNext
    /\ UNCHANGED <<part, feedVars, connectorVars, loginVars, rcVars,
                   relayVars, supervisorVars, searchVars, learningVars,
                   behaviorVars, browserVars, analysisVars>>

ConnectorPart ==
    /\ part = "connector" /\ ConnectorNext
    /\ UNCHANGED <<part, feedVars, cronVars, loginVars, rcVars, relayVars,
                   supervisorVars, searchVars, learningVars, behaviorVars,
                   browserVars, analysisVars>>

LoginPart ==
    /\ part = "login" /\ HarnessLoginNext
    /\ UNCHANGED <<part, feedVars, cronVars, connectorVars, rcVars,
                   relayVars, supervisorVars, searchVars, learningVars,
                   behaviorVars, browserVars, analysisVars>>

RemotePart ==
    /\ part = "remote" /\ RemoteControlNext
    /\ UNCHANGED <<part, feedVars, cronVars, connectorVars, loginVars,
                   relayVars, supervisorVars, searchVars, learningVars,
                   behaviorVars, browserVars, analysisVars>>

RelayPart ==
    /\ part = "relay" /\ RelayNext
    /\ UNCHANGED <<part, feedVars, cronVars, connectorVars, loginVars,
                   rcVars, supervisorVars, searchVars, learningVars,
                   behaviorVars, browserVars, analysisVars>>

SupervisorPart ==
    /\ part = "supervisor" /\ SupervisorNext
    /\ UNCHANGED <<part, feedVars, cronVars, connectorVars, loginVars,
                   rcVars, relayVars, searchVars, learningVars, behaviorVars,
                   browserVars, analysisVars>>

GuidancePart ==
    /\ part = "guidance" /\ GuidanceNext
    /\ UNCHANGED <<part, feedVars, cronVars, connectorVars, loginVars,
                   rcVars, relayVars, supervisorVars, learningVars,
                   behaviorVars, browserVars, analysisVars>>

ExperiencePart ==
    /\ part = "experience" /\ ExperienceNext
    /\ UNCHANGED <<part, feedVars, cronVars, connectorVars, loginVars,
                   rcVars, relayVars, supervisorVars, searchVars,
                   behaviorVars, browserVars, analysisVars>>

BehaviorPart ==
    /\ part = "behavior" /\ BehaviorNext
    /\ UNCHANGED <<part, feedVars, cronVars, connectorVars, loginVars,
                   rcVars, relayVars, supervisorVars, searchVars,
                   learningVars, browserVars, analysisVars>>

BrowserPart ==
    /\ part = "browser" /\ BrowserNext
    /\ UNCHANGED <<part, feedVars, cronVars, connectorVars, loginVars,
                   rcVars, relayVars, supervisorVars, searchVars,
                   learningVars, behaviorVars, analysisVars>>

AnalysisPart ==
    /\ part = "analysis" /\ AnalysisNext
    /\ UNCHANGED <<part, feedVars, cronVars, connectorVars, loginVars,
                   rcVars, relayVars, supervisorVars, searchVars,
                   learningVars, behaviorVars, browserVars>>

Next ==
    \/ FeedPart
    \/ CronPart
    \/ ConnectorPart
    \/ LoginPart
    \/ RemotePart
    \/ RelayPart
    \/ SupervisorPart
    \/ GuidancePart
    \/ ExperiencePart
    \/ BehaviorPart
    \/ BrowserPart
    \/ AnalysisPart

\* Every loop, task and pending request of the component keeps running.
Fairness ==
    /\ WF_feedVars(part = "feed" /\ listen_once)
    /\ \A w \in Writers : WF_feedVars(part = "feed" /\ notify_sync_change(w))
    /\ \A t \in Tabs : WF_feedVars(part = "feed" /\ TabStep(t))
    /\ \A j \in Jobs : WF_cronVars(part = "cron" /\ ClaimAges(j))
    /\ \A s \in Schedulers : WF_cronVars(part = "cron" /\ SchedulerStep(s))
    /\ WF_connectorVars(part = "connector" /\ ConnectorStep)
    /\ \A t \in Turns : WF_connectorVars(part = "connector" /\ TurnStep(t))
    /\ \A t \in Turns : WF_connectorVars(part = "connector" /\ HeartbeatRejected(t))
    /\ \A l \in Logins : WF_loginVars(part = "login" /\ DriverStep(l))
    /\ \A l \in Logins : WF_loginVars(part = "login" /\ SocketStep(l))
    /\ WF_rcVars(part = "remote" /\ BridgeStep)
    /\ WF_relayVars(part = "relay" /\ HostReads)
    /\ \A d \in RelayDevices : WF_relayVars(part = "relay" /\ DeviceStep(d))
    /\ \A r \in Requests : WF_relayVars(part = "relay" /\ execute_http(r))
    /\ WF_supervisorVars(part = "supervisor" /\ SupervisorStep)
    /\ \A c \in Configs : WF_supervisorVars(part = "supervisor" /\ ConnectorStarts(c))
    /\ \A c \in Configs : WF_supervisorVars(part = "supervisor" /\ DelayPasses(c))
    /\ \A w \in Evaluators : WF_searchVars(part = "guidance" /\ EvaluatorStep(w))
    /\ WF_searchVars(part = "guidance" /\ AbandonedLeaseEnds)
    /\ \A w \in Learners : WF_learningVars(part = "experience" /\ LearnerStep(w))
    /\ WF_learningVars(part = "experience" /\ LearningLeaseEnds)
    /\ \A w \in Preparers : WF_behaviorVars(part = "behavior" /\ run_preparation(w))
    /\ \A w \in Publishers : WF_behaviorVars(part = "behavior" /\ run_community(w))
    /\ \A e \in Events : WF_behaviorVars(part = "behavior" /\ BehaviorLeaseEnds(e) /\ behaviorEvents[e].token \notin Holders(e))
    /\ WF_behaviorVars(part = "behavior" /\ link_commits)
    /\ \A r \in BrowserIds : WF_browserVars(part = "browser" /\ BrowserTime(r))
    /\ \A r \in BrowserIds : WF_browserVars(part = "browser" /\ run_steps(r))
    /\ \A r \in BrowserIds : WF_browserVars(part = "browser" /\ close_session(r))
    /\ WF_browserVars(part = "browser" /\ CompletionStep)

Spec == Init /\ [][Next]_vars /\ Fairness

(* Work that is due is done in the end: tabs catch up, jobs are dispatched, *)
(* requests end, devices and configurations are served, evaluations end,    *)
(* records are learned, events settled, receipts delivered.                 *)
WorkIsFinished ==
    /\ TabsCatchUp /\ DueJobIsDispatched /\ ActiveDeviceIsServed
    /\ EveryRequestEnds /\ ConfigIsServed /\ EvaluationEnds
    /\ RecordsAreLearned /\ EventsAreSettled /\ ReceiptsAreDelivered

(* Work that was given up ends: a turn that lost its lease, a revoked       *)
(* connector, a cancelled sign-in and its terminal, a removed configuration. *)
StoppedWorkEnds ==
    /\ LostLeaseEndsTurn /\ RevokedConnectorStops /\ CancelledDriverStops
    /\ ClosedLoginEndsTerminal /\ RemovedConfigStops
=============================================================================
