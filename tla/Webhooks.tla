------------------------------ MODULE Webhooks ------------------------------
(***************************************************************************)
(* Events for a principal and their delivery to its webhook, after         *)
(* db_service/events.rs and the gateway's webhook.rs.  An event gets its   *)
(* delivery_seq (a BIGSERIAL) when its transaction inserts it and becomes  *)
(* visible when the transaction commits.  Requests that changed something  *)
(* each run a flush, so several flushes overlap.                           *)
(***************************************************************************)
EXTENDS Naturals, Sequences, FiniteSets, FiniteSetsExt, SequencesExt

CONSTANTS
    Receivers,     \* principals with events
    MaxDeliverySeq,\* bound: events inserted
    Flushes,       \* overlapping flushes
    MaxFlushes,    \* bound: flushes begun
    MaxHookFaults  \* bound: refused deliveries, storage errors, crashes

VARIABLES
    hookEvents,    \* delivery_seq -> [to, wanted, committed, acked]
    hookCursor,    \* principal -> cursor of its event_webhook row, NoHook without
    flush,         \* flush -> its remaining deliveries, without those of blocked principals,
                   \* and, as history, what it collected
    flushes,       \* flushes begun
    receivedEvents,      \* history: <<principal, delivery_seq>> the receiver accepted
    hookFaults

hookVars == <<hookEvents, hookCursor, flush, flushes, receivedEvents, hookFaults>>

NoHook == MaxDeliverySeq + 1
Idle == [on |-> FALSE]
Seqs == DOMAIN hookEvents
EventsOf(p) == {s \in Seqs : hookEvents[s].to = p /\ hookEvents[s].committed}

---------------------------------------------------------------------------
(* Events *)

\* push_event and send_message insert a row per recipient; it takes the next
\* delivery_seq at once.  wanted: its type is one the webhook asked for.
InsertEvent(p, wanted) ==
    /\ Len(hookEvents) < MaxDeliverySeq
    /\ hookEvents' = Append(hookEvents,
         [to |-> p, wanted |-> wanted, committed |-> FALSE, acked |-> FALSE])
    /\ UNCHANGED <<hookCursor, flush, flushes, receivedEvents, hookFaults>>

\* The transactions commit in any order.
CommitEvent(s) ==
    /\ ~hookEvents[s].committed
    /\ hookEvents' = [hookEvents EXCEPT ![s].committed = TRUE]
    /\ UNCHANGED <<hookCursor, flush, flushes, receivedEvents, hookFaults>>

\* The principal reads its events itself and acknowledges a prefix.
ack_events(p, upto) ==
    /\ \E s \in EventsOf(p) : s = upto /\ ~hookEvents[s].acked
    /\ hookEvents' = [s \in Seqs |->
         IF s \in EventsOf(p) /\ s <= upto
         THEN [hookEvents[s] EXCEPT !.acked = TRUE] ELSE hookEvents[s]]
    /\ UNCHANGED <<hookCursor, flush, flushes, receivedEvents, hookFaults>>

\* A new webhook starts after the last acknowledged event; a changed one keeps
\* its cursor.
set_event_webhook(p) ==
    LET start == Max({0} \cup {s \in EventsOf(p) : hookEvents[s].acked}) IN
    /\ hookCursor[p] = NoHook
    /\ hookCursor' = [hookCursor EXCEPT ![p] = start]
    /\ UNCHANGED <<hookEvents, flush, flushes, receivedEvents, hookFaults>>

---------------------------------------------------------------------------
(* One flush *)

\* Every configured principal's wanted events behind its cursor, sorted by
\* principal and delivery_seq.
collect_pending_webhook_deliveries(f) ==
    LET pending == {d \in Receivers \X Seqs :
                      /\ hookCursor[d[1]] # NoHook
                      /\ d[2] \in EventsOf(d[1]) /\ hookEvents[d[2]].wanted
                      /\ d[2] > hookCursor[d[1]]}
    IN
    /\ ~flush[f].on /\ \A g \in Flushes : g < f => flush[g].on  \* first free one
    /\ flushes < MaxFlushes
    /\ flushes' = flushes + 1
    /\ pending # {}
    /\ flush' = [flush EXCEPT ![f] =
         [on |-> TRUE, marking |-> FALSE, collected |-> pending,
          todo |-> SetToSortSeq(pending, LAMBDA d, e :
                     d[1] < e[1] \/ (d[1] = e[1] /\ d[2] < e[2]))]]
    /\ UNCHANGED <<hookEvents, hookCursor, receivedEvents, hookFaults>>

Delivering(f) == flush[f].on /\ ~flush[f].marking
Next_(f) == Head(flush[f].todo)
GoesOn(f, rest) == IF rest = <<>> THEN Idle ELSE [flush[f] EXCEPT !.marking = FALSE, !.todo = rest]
AdvanceFlush(f) == GoesOn(f, Tail(flush[f].todo))

PostAccepted(f) ==
    /\ Delivering(f)
    /\ receivedEvents' = receivedEvents \cup {Next_(f)}
    /\ flush' = [flush EXCEPT ![f].marking = TRUE]
    /\ UNCHANGED <<hookEvents, hookCursor, flushes, hookFaults>>

\* Wrong version: the flush goes on with the principal's next event.
Blocked_once(f) == GoesOn(f, Tail(flush[f].todo))

\* Every later event of the principal is skipped in this flush.
Blocked(f) == GoesOn(f, SelectSeq(flush[f].todo, LAMBDA d : d[1] # Next_(f)[1]))

\* The receiver refuses or cannot be reached within the timeout.
PostRefused(f) ==
    /\ Delivering(f)
    /\ hookFaults < MaxHookFaults /\ hookFaults' = hookFaults + 1
    /\ flush' = [flush EXCEPT ![f] = Blocked(f)]
    /\ UNCHANGED <<hookEvents, hookCursor, flushes, receivedEvents>>

\* Wrong version: the cursor takes the value of the last flush to write it.
CursorAfter_last(cursor, seq) == seq

\* cursor = GREATEST(cursor, $2)
CursorAfter(cursor, seq) == Max({cursor, seq})

mark_webhook_delivered(f) ==
    LET p == Next_(f)[1] IN
    /\ flush[f].on /\ flush[f].marking
    /\ hookCursor' = [hookCursor EXCEPT ![p] = CursorAfter(@, Next_(f)[2])]
    /\ flush' = [flush EXCEPT ![f] = AdvanceFlush(f)]
    /\ UNCHANGED <<hookEvents, flushes, receivedEvents, hookFaults>>

\* A storage error ends the flush, as does a crash of the gateway.
FlushDies(f) ==
    /\ flush[f].on
    /\ hookFaults < MaxHookFaults /\ hookFaults' = hookFaults + 1
    /\ flush' = [flush EXCEPT ![f] = Idle]
    /\ UNCHANGED <<hookEvents, hookCursor, flushes, receivedEvents>>

WebhooksInit ==
    /\ hookEvents = <<>>
    /\ hookCursor = [p \in Receivers |-> NoHook]
    /\ flush = [f \in Flushes |-> Idle]
    /\ flushes = 0
    /\ receivedEvents = {}
    /\ hookFaults = 0

WebhooksNext ==
    \/ \E p \in Receivers :
        \/ \E wanted \in BOOLEAN : InsertEvent(p, wanted)
        \/ \E s \in Seqs : ack_events(p, s)
        \/ set_event_webhook(p)
    \/ \E s \in Seqs : CommitEvent(s)
    \/ \E f \in Flushes :
        \/ collect_pending_webhook_deliveries(f)
        \/ PostAccepted(f)
        \/ PostRefused(f)
        \/ mark_webhook_delivered(f)
        \/ FlushDies(f)

---------------------------------------------------------------------------
WebhooksTypeOK ==
    /\ \A s \in Seqs : hookEvents[s] \in
         [to : Receivers, wanted : BOOLEAN, committed : BOOLEAN, acked : BOOLEAN]
    /\ hookCursor \in [Receivers -> 0..NoHook]
    /\ receivedEvents \subseteq Receivers \X Seqs

\* No flush leaves a gap: when it moves a principal's cursor over a delivery, the
\* receiver has accepted every delivery before it that the flush collected for the
\* principal, whatever was refused, failed or was delivered by another flush. What
\* commits later with a smaller delivery_seq is in no flush, and the cursor passes
\* it: across flushes the delivered prefix has gaps.
FlushLeavesNoGap ==
    \A f \in Flushes : flush[f].on /\ flush[f].marking =>
        \A d \in flush[f].collected :
            d[1] = Next_(f)[1] /\ d[2] <= Next_(f)[2] => d \in receivedEvents

\* Flushes that overlap never move a cursor back: what one flush recorded as
\* delivered is not collected again.
CursorNeverGoesBack ==
    [][\A p \in Receivers : hookCursor[p] # NoHook => hookCursor'[p] >= hookCursor[p]]_hookVars
=============================================================================
