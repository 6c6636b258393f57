----------------------------- MODULE MCServices -----------------------------
(* Small instances, for TLC, of the background services: feeds, schedules,    *)
(* connectors, relays, learning.  A behaviour is about one of them, its part; *)
(* the others rest.                                                           *)
EXTENDS SyncFeed, Cron, Connector, HarnessLogin, RemoteControl, Relay,
        GuidanceSearch, Learning, Behavior, BrowserRuns

CONSTANTS w1, w2   \* two of a kind: jobs, instances, devices, run ids

VARIABLE part   \* the component this behaviour is about

vars == <<part, feedVars, cronVars, connectorVars, loginVars, rcVars,
          relayVars, supervisorVars, searchVars, learningVars, behaviorVars,
          browserVars, analysisVars>>

Parts == {"feed", "cron", "connector", "login", "remote", "relay",
          "supervisor", "guidance", "experience", "behavior", "browser",
          "analysis"}

\* A component that is not the part of the behaviour rests in an initial state.
Init ==
    /\ part \in Parts
    /\ FeedInit
    /\ CronInit /\ (part # "cron" => \A j \in Jobs : job[j].kind = "at")
    /\ ConnectorInit
    /\ HarnessLoginInit /\ (part # "login" => place = [device |-> "gateway", harness |-> "codex"])
    /\ RemoteControlInit
    /\ RelayInit
    /\ SupervisorInit
    /\ GuidanceInit
    /\ ExperienceInit
    /\ BehaviorInit /\ (part # "behavior" => ~consent.enabled)
    /\ BrowserInit
    /\ AnalysisInit

FeedPart ==
    /\ part = "feed" /\ FeedNext
    /\ UNCHANGED <<part, cronVars, connectorVars, loginVars, rcVars,
                   relayVars, supervisorVars, searchVars, learningVars,
                   behaviorVars, browserVars, analysisVars>>

CronPart ==
    /\ part = "cron" /\ CronNext
    /\ UNCHANGED <<part, feedVars, connectorVars, loginVars, rcVars,
                   relayVars, supervisorVars, searchVars, learningVars,
                   behaviorVars, browserVars, analysisVars>>

ConnectorPart ==
    /\ part = "connector" /\ ConnectorNext
    /\ UNCHANGED <<part, feedVars, cronVars, loginVars, rcVars, relayVars,
                   supervisorVars, searchVars, learningVars, behaviorVars,
                   browserVars, analysisVars>>

LoginPart ==
    /\ part = "login" /\ HarnessLoginNext
    /\ UNCHANGED <<part, feedVars, cronVars, connectorVars, rcVars,
                   relayVars, supervisorVars, searchVars, learningVars,
                   behaviorVars, browserVars, analysisVars>>

RemotePart ==
    /\ part = "remote" /\ RemoteControlNext
    /\ UNCHANGED <<part, feedVars, cronVars, connectorVars, loginVars,
                   relayVars, supervisorVars, searchVars, learningVars,
                   behaviorVars, browserVars, analysisVars>>

\* Two requests, two streams or one of each, numbered as they are made; two messages and lost
\* connections, or one when a request meets a stream.
RelayBound ==
    LET used == {i \in ids : reqOwner'[i] # NoOne}
    IN  /\ Cardinality(used) <= 2
        /\ \A k \in {"r", "s"} : <<2, k>> \in used => <<1, k>> \in used
        /\ sent'[1] + sent'[2] + relayFaults' <= IF used = {1} \X {"r", "s"} THEN 1 ELSE 2

RelayPart ==
    /\ part = "relay" /\ RelayNext /\ RelayBound
    /\ UNCHANGED <<part, feedVars, cronVars, connectorVars, loginVars,
                   rcVars, supervisorVars, searchVars, learningVars,
                   behaviorVars, browserVars, analysisVars>>

SupervisorPart ==
    /\ part = "supervisor" /\ SupervisorNext
    /\ UNCHANGED <<part, feedVars, cronVars, connectorVars, loginVars,
                   rcVars, relayVars, searchVars, learningVars, behaviorVars,
                   browserVars, analysisVars>>

GuidancePart ==
    /\ part = "guidance" /\ GuidanceNext
    /\ UNCHANGED <<part, feedVars, cronVars, connectorVars, loginVars,
                   rcVars, relayVars, supervisorVars, learningVars,
                   behaviorVars, browserVars, analysisVars>>

\* Settings change once, or something fails once.
ExperienceBound == policy'.generation + learningFaults' <= 2

ExperiencePart ==
    /\ part = "experience" /\ ExperienceNext /\ ExperienceBound
    /\ UNCHANGED <<part, feedVars, cronVars, connectorVars, loginVars,
                   rcVars, relayVars, supervisorVars, searchVars,
                   behaviorVars, browserVars, analysisVars>>

BehaviorPart ==
    /\ part = "behavior" /\ BehaviorNext
    /\ UNCHANGED <<part, feedVars, cronVars, connectorVars, loginVars,
                   rcVars, relayVars, supervisorVars, searchVars,
                   learningVars, browserVars, analysisVars>>

\* Permission changes once, or something fails once.
BrowserBound == standing'.generation + browserFaults' <= 1

BrowserPart ==
    /\ part = "browser" /\ BrowserNext /\ BrowserBound
    /\ UNCHANGED <<part, feedVars, cronVars, connectorVars, loginVars,
                   rcVars, relayVars, supervisorVars, searchVars,
                   learningVars, behaviorVars, analysisVars>>

AnalysisPart ==
    /\ part = "analysis" /\ AnalysisNext
    /\ UNCHANGED <<part, feedVars, cronVars, connectorVars, loginVars,
                   rcVars, relayVars, supervisorVars, searchVars,
                   learningVars, behaviorVars, browserVars>>

Next ==
    \/ FeedPart
    \/ CronPart
    \/ ConnectorPart
    \/ LoginPart
    \/ RemotePart
    \/ RelayPart
    \/ SupervisorPart
    \/ GuidancePart
    \/ ExperiencePart
    \/ BehaviorPart
    \/ BrowserPart
    \/ AnalysisPart

\* Which of the two is which makes no difference.
Symmetry == Permutations({w1, w2})

Spec == Init /\ [][Next]_vars

\* Every component keeps the types of its state (the others rest in theirs).
TypeOK ==
    /\ (part = "feed" => FeedTypeOK)
    /\ (part = "cron" => CronTypeOK)
    /\ (part = "connector" => ConnectorTypeOK)
    /\ (part = "login" => HarnessLoginTypeOK)
    /\ (part = "remote" => RemoteControlTypeOK)
    /\ (part = "relay" => RelayTypeOK)
    /\ (part = "supervisor" => SupervisorTypeOK)
    /\ (part = "guidance" => GuidanceTypeOK)
    /\ (part = "experience" => ExperienceTypeOK)
    /\ (part = "behavior" => BehaviorTypeOK)
    /\ (part = "browser" => BrowserTypeOK)
    /\ (part = "analysis" => AnalysisTypeOK)

(* What costs or acts is done once, though its outcome may be unknown: cron *)
(* occurrences, pairings, paid actions and stages, records read,            *)
(* contributions, browser runs.                                             *)
DoneOnce ==
    /\ (part = "remote" => PairingIsUsedOnce)
    /\ (part = "experience" => NotChargedAgain /\ ReadOnce)
    /\ (part = "behavior" => ContributedOnce)
    /\ (part = "browser" => NeverRepeated)

(* What was stopped, closed or removed runs nothing and keeps nothing, though *)
(* work claimed before is under way.                                        *)
EndedIsGone ==
    /\ (part = "connector" => StoppedConnectorRunsNothing)
    /\ (part = "supervisor" => NoStrayConnector)
    /\ (part = "login" => /\ ClosedLoginKeepsNoCode
                          /\ RemovedAccountIsNotRevived
                          /\ RemovedAccountHasNoProcess)
    /\ (part = "browser" => StoppedBeforeStart)

(* The two sides of a feed, a turn, a pairing, a stream, a selection or a   *)
(* card agree on what has happened and in which order.                      *)
InStep ==
    /\ (part = "feed" => VisibleRowsAreApplied /\ AckFollowsApply)
    /\ (part = "connector" => CompletionFollowsOutbox)
    /\ (part = "remote" => PairedClientIsStored /\ BridgeFollowsDevices)
    /\ (part = "relay" => StreamInOrder /\ StreamsAgree)
    /\ (part = "experience" => ActiveAgrees)
    /\ (part = "behavior" => CardsAgree)

(* What is selected, applied, committed, sent or dispatched is what was     *)
(* measured, consented to or matched, though settings change meanwhile.     *)
AsDecided ==
    /\ (part = "guidance" => /\ ClaimNeverFails
                             /\ SelectionIsHonest
                             /\ AppliedBeatsActive)
    /\ (part = "experience" => CommittedUnderItsSettings)
    /\ (part = "analysis" => RecurrenceIsEarned)
    /\ (part = "behavior" => SentWithConsent /\ SentUnderItsProblem)
    /\ (part = "browser" => DispatchedAsMatched /\ ReceiptIsFinal)

(* No step changes a closed login, a cached card or an intervention.        *)
FinalStaysFinal ==
    /\ ClosedLoginIsFinal /\ CacheIsImmutable /\ InterventionStays
=============================================================================
