------------------------------ MODULE SyncFeed ------------------------------
(***************************************************************************)
(* The dashboard feed of one principal: writer transactions that append    *)
(* rows to sync_change, the LISTEN connection that wakes the sockets, the  *)
(* socket that pages through the rows, and the browser tabs that apply a   *)
(* page, persist its cursor and acknowledge it.                            *)
(*                                                                         *)
(* A row's cursor is a BIGSERIAL: it is taken when the row is inserted and *)
(* the row becomes visible when its transaction commits.  Tabs of one      *)
(* browser share the IndexedDB record of the device.                       *)
(***************************************************************************)
EXTENDS Integers, FiniteSets, Sequences, SequencesExt, FiniteSetsExt

CONSTANTS
    Writers,        \* transactions that append one row each
    Tabs,           \* tabs of the principal's browser
    PageSize,       \* PAGE_SIZE of the socket
    MaxFeedFaults   \* closed sockets, reloads, listener outages and rollbacks

VARIABLES
    txn,        \* writer -> its transaction: [at, cursor]
    feed,       \* the committed cursors
    serial,     \* the last cursor handed out
    overtaken,  \* history: tab -> rows that committed behind its position
    ack,        \* device -> sync_device.ack_cursor
    users,      \* history: device -> tabs that used it
    stored,     \* the IndexedDB record: [dev, cursor], dev 0 when absent
    tab,        \* tab -> its page state
    sock,       \* tab -> the server side of its socket
    listening,  \* is the LISTEN connection up
    feedFaults  \* faults spent

feedVars == <<txn, feed, serial, overtaken, ack, users, stored, tab, sock, listening, feedFaults>>

Devices == 1 .. Cardinality(Tabs) + MaxFeedFaults

Newest == Max(feed \cup {0})
Closed == [open |-> FALSE, sent |-> 0, phase |-> "idle", head |-> 0, woken |-> FALSE,
           frames |-> <<>>, acking |-> 0]
Fresh == [at |-> "start", boot |-> 0, cursor |-> 0, dev |-> 0, applied |-> {}, busy |-> FALSE]

FeedTypeOK ==
    /\ feed \subseteq 1 .. serial
    /\ txn \in [Writers -> [at : {"idle", "open", "done"}, cursor : 0 .. serial]]
    /\ ack \in [Devices -> 0 .. serial]
    /\ stored \in [dev : 0 .. Max(Devices), cursor : 0 .. serial]
    /\ \A t \in Tabs : /\ tab[t].at \in {"start", "snapshot", "load", "closed", "open"}
                       /\ tab[t].applied \subseteq feed /\ overtaken[t] \subseteq feed
                       /\ sock[t].open = (tab[t].at = "open")
                       /\ sock[t].phase \in {"idle", "rows", "more"}

FeedInit ==
    /\ txn = [w \in Writers |-> [at |-> "idle", cursor |-> 0]]
    /\ feed = {} /\ serial = 0
    /\ overtaken = [t \in Tabs |-> {}]
    /\ ack = [d \in Devices |-> 0]
    /\ users = [d \in Devices |-> {}]
    /\ stored = [dev |-> 0, cursor |-> 0]
    /\ tab = [t \in Tabs |-> Fresh]
    /\ sock = [t \in Tabs |-> Closed]
    /\ listening = TRUE
    /\ feedFaults = 0

FeedFault == feedFaults < MaxFeedFaults /\ feedFaults' = feedFaults + 1

Wake == [t \in Tabs |-> IF sock[t].open THEN [sock[t] EXCEPT !.woken = TRUE] ELSE sock[t]]

\* How far the tab, its bootstrap and its socket have read.
Position(t) == Max({tab[t].boot, tab[t].cursor, sock[t].sent})

-----------------------------------------------------------------------------
(* Writers: the emit_*_sync_change triggers and notify_sync_change.        *)

emit_sync_change(w) ==
    /\ txn[w].at = "idle"
    /\ serial' = serial + 1
    /\ txn' = [txn EXCEPT ![w] = [at |-> "open", cursor |-> serial + 1]]
    /\ UNCHANGED <<feed, overtaken, ack, users, stored, tab, sock, listening, feedFaults>>

\* pg_notify is delivered at commit, and only to a connection that listens.
notify_sync_change(w) ==
    /\ txn[w].at = "open"
    /\ txn' = [txn EXCEPT ![w].at = "done"]
    /\ feed' = feed \cup {txn[w].cursor}
    /\ overtaken' = [t \in Tabs |-> overtaken[t] \cup {c \in {txn[w].cursor} : c <= Position(t)}]
    /\ sock' = IF listening THEN Wake ELSE sock
    /\ UNCHANGED <<serial, ack, users, stored, tab, listening, feedFaults>>

Rollback(w) ==
    /\ txn[w].at = "open" /\ FeedFault
    /\ txn' = [txn EXCEPT ![w].at = "done"]
    /\ UNCHANGED <<feed, serial, overtaken, ack, users, stored, tab, sock, listening>>

-----------------------------------------------------------------------------
(* WakeupHub: the listener and its restarts.                               *)

ListenerClosed ==
    /\ listening /\ FeedFault
    /\ listening' = FALSE
    /\ UNCHANGED <<txn, feed, serial, overtaken, ack, users, stored, tab, sock>>

listen_once ==
    /\ ~listening
    /\ listening' = TRUE
    /\ sock' = Wake
    /\ UNCHANGED <<txn, feed, serial, overtaken, ack, users, stored, tab, feedFaults>>

-----------------------------------------------------------------------------
(* The tab: bootstrap, then one socket at a time.                          *)

\* bootstrap reads the high-water mark first ...
current_sync_cursor(t) ==
    /\ tab[t].at = "start"
    /\ tab' = [tab EXCEPT ![t].at = "snapshot", ![t].boot = Newest]
    /\ UNCHANGED <<txn, feed, serial, overtaken, ack, users, stored, sock, listening, feedFaults>>

\* ... and the snapshot after it.
bootstrap(t) ==
    /\ tab[t].at = "snapshot"
    /\ tab' = [tab EXCEPT ![t].at = "load", ![t].applied = feed]
    /\ UNCHANGED <<txn, feed, serial, overtaken, ack, users, stored, sock, listening, feedFaults>>

\* The stored device is kept unless its cursor is ahead of the snapshot's.
loadDashboardSyncState(t) ==
    LET keep == stored.dev # 0 /\ stored.cursor <= tab[t].boot
        dev  == IF keep THEN stored.dev ELSE Min({d \in Devices : users[d] = {}})
    IN  /\ tab[t].at = "load"
        /\ tab' = [tab EXCEPT ![t].at = "closed", ![t].dev = dev, ![t].cursor = tab[t].boot]
        /\ stored' = IF keep THEN stored ELSE [dev |-> dev, cursor |-> tab[t].boot]
        /\ users' = [users EXCEPT ![dev] = @ \cup {t}]
        /\ UNCHANGED <<txn, feed, serial, overtaken, ack, sock, listening, feedFaults>>

register_sync_device(dev, cursor) == ack' = [ack EXCEPT ![dev] = Max({@, cursor})]

\* wait_ready, register, subscribe; the first drain follows the subscription.
sync_socket(t) ==
    /\ tab[t].at = "closed" /\ listening
    /\ tab[t].cursor <= Newest
    /\ register_sync_device(tab[t].dev, tab[t].cursor)
    /\ tab' = [tab EXCEPT ![t].at = "open", ![t].busy = FALSE]
    /\ sock' = [sock EXCEPT ![t] = [Closed EXCEPT !.open = TRUE, !.woken = TRUE,
                                                  !.sent = ack'[tab[t].dev]]]
    /\ UNCHANGED <<txn, feed, serial, overtaken, users, stored, listening, feedFaults>>

\* list_sync_changes, first statement: the head of the feed.
list_sync_changes_head(t) ==
    /\ sock[t].open
    /\ (sock[t].phase = "idle" /\ sock[t].woken) \/ sock[t].phase = "more"
    /\ sock' = [sock EXCEPT ![t].phase = "rows", ![t].head = Newest,
                            ![t].woken = @ /\ sock[t].phase = "more"]
    /\ UNCHANGED <<txn, feed, serial, overtaken, ack, users, stored, tab, listening, feedFaults>>

Page(unseen) == {c \in unseen : Cardinality({d \in unseen : d < c}) < PageSize}

\* Wrong version: the cursor of a truncated page is the head of the feed.
drain_changes_to_head(t) ==
    LET unseen == {c \in feed : sock[t].sent < c /\ c <= sock[t].head}
        page   == Page(unseen)
    IN  /\ sock[t].open /\ sock[t].phase = "rows"
        /\ sock' = [sock EXCEPT ![t].phase = "idle",
               ![t].sent = sock[t].head,
               ![t].frames = IF page = {} THEN @ ELSE Append(@, [rows |-> page, upto |-> sock[t].head])]
        /\ UNCHANGED <<txn, feed, serial, overtaken, ack, users, stored, tab, listening, feedFaults>>

\* Second statement: the rows up to that head, oldest first, one page.
drain_changes(t) ==
    LET unseen == {c \in feed : sock[t].sent < c /\ c <= sock[t].head}
        page   == Page(unseen)
    IN  /\ sock[t].open /\ sock[t].phase = "rows"
        /\ sock' = [sock EXCEPT ![t].phase = IF page = unseen THEN "idle" ELSE "more",
               ![t].sent = IF page = {} THEN @ ELSE Max(page),
               ![t].frames = IF page = {} THEN @ ELSE Append(@, [rows |-> page, upto |-> Max(page)])]
        /\ UNCHANGED <<txn, feed, serial, overtaken, ack, users, stored, tab, listening, feedFaults>>

\* applyChain: apply the page, ...
applyChanges(t) ==
    /\ tab[t].at = "open" /\ ~tab[t].busy /\ sock[t].frames # <<>>
    /\ tab' = [tab EXCEPT ![t].applied = @ \cup sock[t].frames[1].rows, ![t].busy = TRUE]
    /\ UNCHANGED <<txn, feed, serial, overtaken, ack, users, stored, sock, listening, feedFaults>>

\* ... persist its cursor and send the acknowledgement.
persistDashboardSyncCursor(t) ==
    LET cursor == Max({tab[t].cursor, sock[t].frames[1].upto})
    IN  /\ tab[t].at = "open" /\ tab[t].busy
        /\ tab' = [tab EXCEPT ![t].cursor = cursor, ![t].busy = FALSE]
        /\ stored' = [dev |-> tab[t].dev, cursor |-> cursor]
        /\ sock' = [sock EXCEPT ![t].frames = Tail(@), ![t].acking = sock[t].frames[1].upto]
        /\ UNCHANGED <<txn, feed, serial, overtaken, ack, users, listening, feedFaults>>

acknowledge_sync_device(t) ==
    /\ sock[t].open /\ sock[t].acking # 0 /\ sock[t].phase = "idle"
    /\ sock[t].acking <= sock[t].sent
    /\ ack' = [ack EXCEPT ![tab[t].dev] = Max({@, sock[t].acking})]
    /\ sock' = [sock EXCEPT ![t].acking = 0]
    /\ UNCHANGED <<txn, feed, serial, overtaken, users, stored, tab, listening, feedFaults>>

\* onclose, or the server leaving its loop: frames and acknowledgements in
\* flight are lost, the tab keeps its state and reconnects.
CloseFeedSocket(t) ==
    /\ tab[t].at = "open" /\ FeedFault
    /\ tab' = [tab EXCEPT ![t].at = "closed"]
    /\ sock' = [sock EXCEPT ![t] = Closed]
    /\ overtaken' = [overtaken EXCEPT ![t] = {c \in @ : c <= tab[t].cursor}]
    /\ UNCHANGED <<txn, feed, serial, ack, users, stored, listening>>

\* The page is reloaded: only IndexedDB survives.
Reload(t) ==
    /\ tab[t].at \in {"closed", "open"} /\ FeedFault
    /\ tab' = [tab EXCEPT ![t] = Fresh]
    /\ sock' = [sock EXCEPT ![t] = Closed]
    /\ overtaken' = [overtaken EXCEPT ![t] = {}]
    /\ UNCHANGED <<txn, feed, serial, ack, users, stored, listening>>

TabStep(t) ==
    \/ current_sync_cursor(t) \/ bootstrap(t) \/ loadDashboardSyncState(t)
    \/ sync_socket(t) \/ list_sync_changes_head(t) \/ drain_changes(t)
    \/ applyChanges(t) \/ persistDashboardSyncCursor(t) \/ acknowledge_sync_device(t)

FeedNext ==
    \/ \E w \in Writers : emit_sync_change(w) \/ notify_sync_change(w) \/ Rollback(w)
    \/ ListenerClosed \/ listen_once
    \/ \E t \in Tabs : TabStep(t) \/ CloseFeedSocket(t) \/ Reload(t)

-----------------------------------------------------------------------------
FeedSpec == FeedInit /\ [][FeedNext]_feedVars

Live(t) == tab[t].at \in {"closed", "open"}
Alone(t) == users[tab[t].dev] = {t}
Behind(t) == {c \in feed : c <= tab[t].cursor}

\* What the comment on bootstrap and the feed's documentation promise: since
\* the cursor is read before the snapshot, a change that races them may be
\* replayed but is never missed.  Everything behind the cursor of a tab that
\* does not share its device is in what the tab shows.
NoChangeIsMissed ==
    \A t \in Tabs : Live(t) /\ Alone(t) => Behind(t) \subseteq tab[t].applied

\* What holds of the code: a row that was visible when the bootstrap or the
\* socket of such a tab read past it is in what the tab shows, whatever closed
\* sockets, reloads, outages and page boundaries there were.  Only a row that
\* commits behind the position of the tab can be missing.
VisibleRowsAreApplied ==
    \A t \in Tabs : Live(t) /\ Alone(t) => Behind(t) \ overtaken[t] \subseteq tab[t].applied

\* A device's durable cursor never passes what one of its tabs has applied
\* and persisted (or bootstrapped from): sending a page moves nothing.
AckFollowsApply ==
    \A d \in Devices : users[d] # {} /\ (\A t \in users[d] : Live(t) /\ tab[t].dev = d) =>
        ack[d] <= Max({tab[t].cursor : t \in users[d]})

\* Every row that commits is in the end applied by the tab and covered by the
\* cursor it stored, unless the row committed behind its position or the tab
\* shares its device: no lost notification, listener outage, closed socket or
\* page boundary leaves it waiting.
TabsCatchUp ==
    \A t \in Tabs, c \in 1 .. Cardinality(Writers) :
        (c \in feed) ~> \/ c \in tab[t].applied /\ c <= tab[t].cursor
                        \/ c \in overtaken[t]
                        \/ Live(t) /\ ~Alone(t)
=============================================================================
