------------------------------ MODULE Behavior ------------------------------
(***************************************************************************)
(* The behavior library: evidence of a problem is prepared into a card     *)
(* under a lease, and a card is redacted, reviewed and contributed to the  *)
(* public community dataset while the owner withdraws or renews consent,   *)
(* learning links the problem to one the community already knows, and      *)
(* gateways stall or crash. All events belong to one problem of one        *)
(* policy. A card is known by the problem id it carries: 1 is the id made  *)
(* for the problem here, 2 the one of the community's record. Altered is a *)
(* record whose published text the community has changed.                  *)
(***************************************************************************)
EXTENDS Integers, FiniteSets

CONSTANTS
    Events,              \* experience_behavior_event rows
    Preparers,           \* preparation loops of all gateways
    Publishers,          \* community loops of all gateways
    MaxConsentChanges,   \* bound on changes of the policy
    MaxHubRevision,      \* bound on revisions of the dataset
    MaxRetries,          \* bound on retries by the owner
    MaxBehaviorFaults    \* bound on stalls, crashes and failed calls

VARIABLES
    consent,         \* the policy row: enabled, contribute, generation
    problemId,       \* community_problem_id of the problem, 0 when none
    linking,         \* a save of learning between its two statements
    behaviorEvents,  \* event -> its row
    preparer,        \* preparation loop -> the claim it works on
    publisher,       \* community loop -> the claim or snapshot it works on
    hub,             \* external: the dataset, its revision and its records
    proposals,       \* external: records in open contributions
    cached,          \* experience_community_record and _sync
    uploads,         \* history: event -> contributions sent
    retries,
    behaviorFaults

behaviorVars == <<consent, problemId, linking, behaviorEvents, preparer, publisher, hub, proposals,
                  cached, uploads, retries, behaviorFaults>>

Altered == 9
NoRecords == [e \in Events |-> 0]
Free == [at |-> "idle"]
Spent == behaviorFaults < MaxBehaviorFaults /\ behaviorFaults' = behaviorFaults + 1

BehaviorTypeOK ==
    /\ consent \in [enabled : BOOLEAN, contribute : BOOLEAN, generation : 0 .. MaxConsentChanges]
    /\ problemId \in 0 .. 2 /\ linking \in BOOLEAN
    /\ behaviorEvents \in
         [Events -> [state : {"preparing", "local", "publishing", "pending", "uncertain", "accepted", "blocked"},
                     payload : 0 .. 2, public : 0 .. 2, error : BOOLEAN, url : BOOLEAN,
                     token : {0} \cup Preparers \cup Publishers, live : BOOLEAN]]
    /\ \A w \in Preparers : preparer[w].at \in {"idle", "preparing"}
    /\ \A w \in Publishers : publisher[w].at \in {"idle", "fetched", "synced", "reviewing", "sending", "sent"}
    /\ hub.revision \in 0 .. MaxHubRevision

BehaviorInit ==
    /\ \E on \in BOOLEAN : consent = [enabled |-> on, contribute |-> TRUE, generation |-> 0]
    /\ problemId = 0 /\ linking = FALSE
    /\ behaviorEvents = [e \in Events |->
         [state |-> "preparing", payload |-> 0, public |-> 0, error |-> FALSE, url |-> FALSE,
          token |-> 0, live |-> FALSE]]
    /\ preparer = [w \in Preparers |-> Free]
    /\ publisher = [w \in Publishers |-> Free]
    /\ hub = [revision |-> 0, records |-> NoRecords]
    /\ proposals = NoRecords
    /\ cached = [revision |-> -1, records |-> NoRecords]
    /\ uploads = [e \in Events |-> 0]
    /\ retries = 0 /\ behaviorFaults = 0

\* A row whose lease is over or was never taken.
Unleased(e) == ~behaviorEvents[e].live
Released(row) == [row EXCEPT !.token = 0, !.live = FALSE]

----------------------------------------------------------------------------
\* Preparation of a card.

\* The first claim of a problem gives it its id, every later one finds that id. The
\* statement waits for the problem row, so it cannot run inside a save that links it.
claim_behavior(w) ==
    /\ preparer[w].at = "idle" /\ consent.enabled /\ ~linking
    /\ \E e \in Events :
         /\ behaviorEvents[e].state = "preparing" /\ Unleased(e)
         /\ problemId' = IF problemId = 0 THEN 1 ELSE problemId
         /\ behaviorEvents' = [behaviorEvents EXCEPT ![e].token = w, ![e].live = TRUE]
         /\ preparer' = [preparer EXCEPT ![w] =
              [at |-> "preparing", event |-> e, problem |-> problemId', generation |-> consent.generation]]
    /\ UNCHANGED <<consent, linking, publisher, hub, proposals, cached, uploads, retries, behaviorFaults>>

MayFinish(w) ==
    LET c == preparer[w] IN
    /\ behaviorEvents[c.event].token = w /\ behaviorEvents[c.event].live
    /\ consent.enabled /\ consent.generation = c.generation

\* prepare recovers the evidence and has the analyst draft the card; a failure of any
\* of its calls is stored as the reason the event is blocked.
finish_behavior(w, card) ==
    LET e == preparer[w].event IN
    /\ preparer[w].at = "preparing"
    /\ IF card THEN UNCHANGED behaviorFaults ELSE Spent
    /\ behaviorEvents' =
         IF ~MayFinish(w) THEN behaviorEvents
         ELSE [behaviorEvents EXCEPT ![e] =
                 Released([@ EXCEPT !.payload = IF card THEN preparer[w].problem ELSE 0,
                                    !.state = IF card THEN "local" ELSE "blocked", !.error = ~card])]
    /\ preparer' = [preparer EXCEPT ![w] = Free]
    /\ UNCHANGED <<consent, problemId, linking, publisher, hub, proposals, cached, uploads, retries>>

PreparerCrashes(w) ==
    /\ preparer[w].at /= "idle" /\ Spent
    /\ preparer' = [preparer EXCEPT ![w] = Free]
    /\ UNCHANGED <<consent, problemId, linking, behaviorEvents, publisher, hub, proposals, cached, uploads, retries>>

\* A lease runs out: ten minutes passed, because its holder crashed or stalls.
Holders(e) == {w \in Preparers : preparer[w].at /= "idle" /\ preparer[w].event = e}
              \cup {w \in Publishers : publisher[w].at \in {"reviewing", "sending", "sent"} /\ publisher[w].event = e}

BehaviorLeaseEnds(e) ==
    /\ behaviorEvents[e].live
    /\ IF behaviorEvents[e].token \in Holders(e) THEN Spent ELSE UNCHANGED behaviorFaults
    /\ behaviorEvents' = [behaviorEvents EXCEPT ![e].live = FALSE]
    /\ UNCHANGED <<consent, problemId, linking, preparer, publisher, hub, proposals, cached, uploads, retries>>

----------------------------------------------------------------------------
\* Contribution of a card.

\* An interrupted contribution is marked uncertain before anything is claimed.
Interrupted == [e \in Events |->
    IF behaviorEvents[e].state = "publishing" /\ Unleased(e)
    THEN [behaviorEvents[e] EXCEPT !.state = "uncertain", !.error = TRUE] ELSE behaviorEvents[e]]

Publishable(e) ==
    /\ consent.enabled /\ consent.contribute
    /\ Interrupted[e].payload /= 0 /\ Interrupted[e].state = "local" /\ ~Interrupted[e].error /\ Unleased(e)

claim_behavior_publication(w) ==
    /\ publisher[w].at \in {"idle", "synced"}
    /\ \/ \E e \in {x \in Events : Publishable(x)} :
            /\ behaviorEvents' = [Interrupted EXCEPT ![e].token = w, ![e].live = TRUE]
            /\ publisher' = [publisher EXCEPT ![w] =
                 [at |-> "reviewing", event |-> e, record |-> Interrupted[e].payload,
                  generation |-> consent.generation, consented |-> TRUE]]
       \/ /\ \A e \in Events : ~Publishable(e)
          /\ behaviorEvents' = Interrupted
          /\ publisher' = [publisher EXCEPT ![w] = Free]
    /\ UNCHANGED <<consent, problemId, linking, preparer, hub, proposals, cached, uploads, retries, behaviorFaults>>

\* Wrong version: the settings are only asked about as they are now.
MayBeginUnfenced(w) ==
    LET row == behaviorEvents[publisher[w].event] IN
    /\ row.token = w /\ row.live /\ row.state = "local"
    /\ consent.enabled /\ consent.contribute

MayBegin(w) ==
    LET c == publisher[w]
        row == behaviorEvents[c.event] IN
    /\ row.token = w /\ row.live /\ row.state = "local"
    /\ consent.generation = c.generation /\ consent.enabled /\ consent.contribute

\* The projection was made and passed its review, or the claim changed meanwhile.
begin_behavior_publication(w) ==
    LET e == publisher[w].event IN
    /\ publisher[w].at = "reviewing"
    /\ IF MayBegin(w)
       THEN /\ behaviorEvents' = [behaviorEvents EXCEPT ![e].public = publisher[w].record, ![e].state = "publishing"]
            /\ publisher' = [publisher EXCEPT ![w] =
                 [at |-> "sending", event |-> e, record |-> publisher[w].record,
                  consented |-> publisher[w].consented, problem |-> problemId]]
       ELSE publisher' = [publisher EXCEPT ![w] = Free] /\ UNCHANGED behaviorEvents
    /\ UNCHANGED <<consent, problemId, linking, preparer, hub, proposals, cached, uploads, retries, behaviorFaults>>

\* finish_behavior_publication, by the holder of the token whatever the state has become.
Finished(w, state, url) ==
    LET e == publisher[w].event IN
    IF behaviorEvents[e].token /= w THEN behaviorEvents
    ELSE [behaviorEvents EXCEPT ![e] = Released([@ EXCEPT !.state = state, !.url = url, !.error = ~url])]

\* The projection abstained, kept a credential or was rejected, or a call failed.
review_refused(w) ==
    /\ publisher[w].at = "reviewing" /\ Spent
    /\ behaviorEvents' = Finished(w, "blocked", FALSE)
    /\ publisher' = [publisher EXCEPT ![w] = Free]
    /\ UNCHANGED <<consent, problemId, linking, preparer, hub, proposals, cached, uploads, retries>>

\* The request leaves; whether the dataset takes it is not known until it answers.
contribute(w) ==
    LET e == publisher[w].event IN
    /\ publisher[w].at = "sending"
    /\ uploads' = [uploads EXCEPT ![e] = @ + 1]
    /\ \/ proposals' = [proposals EXCEPT ![e] = publisher[w].record] /\ UNCHANGED behaviorFaults
       \/ Spent /\ UNCHANGED proposals
    /\ publisher' = [publisher EXCEPT ![w] = [at |-> "sent", event |-> e, confirmed |-> proposals' /= proposals]]
    /\ UNCHANGED <<consent, problemId, linking, behaviorEvents, preparer, hub, cached, retries>>

\* The answer confirms the proposal, or is lost.
finish_behavior_publication(w) ==
    /\ publisher[w].at = "sent"
    /\ \/ /\ publisher[w].confirmed /\ UNCHANGED behaviorFaults
          /\ behaviorEvents' = Finished(w, "pending", TRUE)
       \/ /\ IF publisher[w].confirmed THEN Spent ELSE UNCHANGED behaviorFaults
          /\ behaviorEvents' = Finished(w, "uncertain", FALSE)
    /\ publisher' = [publisher EXCEPT ![w] = Free]
    /\ UNCHANGED <<consent, problemId, linking, preparer, hub, proposals, cached, uploads, retries>>

PublisherCrashes(w) ==
    /\ publisher[w].at /= "idle" /\ Spent
    /\ publisher' = [publisher EXCEPT ![w] = Free]
    /\ UNCHANGED <<consent, problemId, linking, behaviorEvents, preparer, hub, proposals, cached, uploads, retries>>

----------------------------------------------------------------------------
\* The community's records.

\* external: a proposal is merged, or a record is altered or taken out.
HubChanges ==
    /\ hub.revision < MaxHubRevision
    /\ \E e \in Events :
         \/ /\ proposals[e] /= 0
            /\ hub' = [revision |-> hub.revision + 1, records |-> [hub.records EXCEPT ![e] = proposals[e]]]
            /\ proposals' = [proposals EXCEPT ![e] = 0]
         \/ /\ hub.records[e] \in 1 .. 2
            /\ \E r \in {0, Altered} :
                 hub' = [revision |-> hub.revision + 1, records |-> [hub.records EXCEPT ![e] = r]]
            /\ UNCHANGED proposals
    /\ UNCHANGED <<consent, problemId, linking, behaviorEvents, preparer, publisher, cached, uploads, retries, behaviorFaults>>

\* A revision newer than the cached one is read whole; the read takes up to two minutes.
snapshot(w) ==
    /\ publisher[w].at = "idle" /\ consent.enabled /\ consent.contribute
    /\ hub.revision /= cached.revision
    /\ publisher' = [publisher EXCEPT ![w] = [at |-> "fetched", revision |-> hub.revision, records |-> hub.records]]
    /\ UNCHANGED <<consent, problemId, linking, behaviorEvents, preparer, hub, proposals, cached, uploads, retries, behaviorFaults>>

\* Wrong version: the records of a snapshot are taken as they are.
Mutable(records) == TRUE

Immutable(records) == \A e \in Events : cached.records[e] /= 0 /\ records[e] /= 0 => records[e] = cached.records[e]

\* The cache is replaced, or kept when the snapshot changed a record it holds; the round
\* then goes on to the publication queue.
save_community_snapshot(w) ==
    LET s == publisher[w] IN
    /\ s.at = "fetched"
    /\ IF Immutable(s.records)
       THEN /\ cached' = [revision |-> s.revision, records |-> s.records]
            /\ behaviorEvents' = [e \in Events |->
                 IF /\ s.records[e] /= 0 /\ behaviorEvents[e].public = s.records[e]
                    /\ behaviorEvents[e].state \in {"pending", "uncertain"}
                 THEN [behaviorEvents[e] EXCEPT !.state = "accepted"] ELSE behaviorEvents[e]]
       ELSE UNCHANGED <<cached, behaviorEvents>>
    /\ publisher' = [publisher EXCEPT ![w] = [at |-> "synced"]]
    /\ UNCHANGED <<consent, problemId, linking, preparer, hub, proposals, uploads, retries, behaviorFaults>>

----------------------------------------------------------------------------
\* The owner and the learner.

\* Claims under review when consent is withdrawn.
Withdrawn(withdrawn) == [w \in Publishers |->
    IF withdrawn /\ publisher[w].at = "reviewing" THEN [publisher[w] EXCEPT !.consented = FALSE] ELSE publisher[w]]

\* Saving the same permissions changes nothing; a change fences what is under way.
configure_behavior_community ==
    /\ ~linking /\ consent.generation < MaxConsentChanges
    /\ consent' = [consent EXCEPT !.contribute = ~@, !.generation = @ + 1]
    /\ behaviorEvents' = [e \in Events |->
         IF behaviorEvents[e].state /= "publishing" THEN Released(behaviorEvents[e]) ELSE behaviorEvents[e]]
    /\ publisher' = Withdrawn(consent.contribute)
    /\ UNCHANGED <<problemId, linking, preparer, hub, proposals, cached, uploads, retries, behaviorFaults>>

\* configure_experience turns learning off and on; the events keep their leases.
configure_learning ==
    /\ ~linking /\ consent.generation < MaxConsentChanges
    /\ consent' = [consent EXCEPT !.enabled = ~@, !.generation = @ + 1]
    /\ publisher' = Withdrawn(consent.enabled)
    /\ UNCHANGED <<problemId, linking, behaviorEvents, preparer, hub, proposals, cached, uploads, retries, behaviorFaults>>

retry_behavior(e) ==
    /\ consent.enabled /\ retries < MaxRetries
    /\ behaviorEvents[e].state = "blocked" /\ ~behaviorEvents[e].url
    /\ behaviorEvents' = [behaviorEvents EXCEPT ![e] =
         Released([@ EXCEPT !.state = IF behaviorEvents[e].payload = 0 THEN "preparing" ELSE "local",
                            !.error = FALSE, !.public = 0])]
    /\ retries' = retries + 1
    /\ UNCHANGED <<consent, problemId, linking, preparer, publisher, hub, proposals, cached, uploads, behaviorFaults>>

\* A committed report matches the problem with one the community knows, unless a card
\* of it has been made public: the first statement of the save, not yet committed.
link_problem ==
    /\ ~linking /\ consent.enabled /\ problemId /= 2
    /\ \A e \in Events : behaviorEvents[e].public = 0
    /\ linking' = TRUE
    /\ UNCHANGED <<consent, problemId, behaviorEvents, preparer, publisher, hub, proposals, cached, uploads, retries, behaviorFaults>>

\* The unpublished cards take the id over and every claim on them ends.
Reconciled(e) ==
    IF behaviorEvents[e].public = 0
    THEN Released([behaviorEvents[e] EXCEPT !.payload = IF @ = 0 THEN 0 ELSE 2]) ELSE behaviorEvents[e]

\* The second statement and the commit; or the save is rolled back.
link_commits ==
    /\ linking /\ linking' = FALSE
    /\ \/ /\ problemId' = 2 /\ behaviorEvents' = [e \in Events |-> Reconciled(e)]
          /\ UNCHANGED behaviorFaults
       \/ Spent /\ UNCHANGED <<problemId, behaviorEvents>>
    /\ UNCHANGED <<consent, preparer, publisher, hub, proposals, cached, uploads, retries>>

----------------------------------------------------------------------------
run_preparation(w) == claim_behavior(w) \/ \E card \in BOOLEAN : finish_behavior(w, card)

run_community(w) ==
    \/ claim_behavior_publication(w) \/ begin_behavior_publication(w) \/ review_refused(w)
    \/ contribute(w) \/ finish_behavior_publication(w)
    \/ snapshot(w) \/ save_community_snapshot(w)

BehaviorNext ==
    \/ \E w \in Preparers : run_preparation(w) \/ PreparerCrashes(w)
    \/ \E w \in Publishers : run_community(w) \/ PublisherCrashes(w)
    \/ \E e \in Events : BehaviorLeaseEnds(e) \/ retry_behavior(e)
    \/ HubChanges \/ configure_behavior_community \/ configure_learning
    \/ link_problem \/ link_commits

----------------------------------------------------------------------------
\* Properties.

\* A card is sent to the community at most once, however often its sender crashes,
\* stalls past its lease or is retried: retry_behavior "never duplicates an uncertain upload".
ContributedOnce == \A e \in Events : uploads[e] <= 1

\* A card is never sent when the owner withdrew consent, or turned learning off, between
\* the claim and the commit of the projection, not even when consent was given again.
SentWithConsent == \A w \in Publishers : publisher[w].at = "sending" => publisher[w].consented

\* A projection that is committed for sending carries the problem id in force at that
\* time: linking the problem to the community's ends every claim made under the old id.
SentUnderItsProblem == \A w \in Publishers : publisher[w].at = "sending" => publisher[w].record = publisher[w].problem

\* Cards of one problem that are not public agree on its id, whichever claim made them.
CardsAgree == \A e \in Events :
    behaviorEvents[e].payload /= 0 /\ behaviorEvents[e].public = 0 => behaviorEvents[e].payload = problemId

\* A record the cache holds never changes its contents; it is only added or taken out.
CacheIsImmutable == [][\A e \in Events :
    cached.records[e] /= 0 /\ cached'.records[e] /= 0 => cached'.records[e] = cached.records[e]]_cached

\* While learning stays on and contributing is permitted, every event leaves the queues:
\* it is prepared, and sent, blocked or marked uncertain, whoever crashed holding it.
EventsAreSettled == \A e \in Events :
    <>[](consent.enabled /\ consent.contribute =>
           behaviorEvents[e].state \in {"pending", "uncertain", "accepted", "blocked"})
=============================================================================
