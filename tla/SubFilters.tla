----------------------------- MODULE SubFilters -----------------------------
(***************************************************************************)
(* The record the client keeps of its subscriptions, m_subFilters, against   *)
(* the ones the broker has: the client refuses messages on other topics      *)
(* (client/lib/src/op/SubscribeOp.cpp, UnsubscribeOp.cpp, RecvOp.cpp, and    *)
(* ConnectOp.cpp, which resets the record with the session).                 *)
(*                                                                           *)
(* The broker (external) takes requests in order and keeps or loses the      *)
(* session while the client is away.  It publishes to its subscriptions,      *)
(* which the reference of TopicFilter decides; MQTT also lets it publish to a *)
(* subscription before SUBACK (section 3.8.4) and deliver what it buffered    *)
(* after UNSUBACK (section 3.10.4), so other messages may come at any time.   *)
(* The client looks for a filter that matches by the code's isTopicMatch().   *)
(***************************************************************************)
EXTENDS TopicFilter

CONSTANTS
    Text,           \* the topic filters, in the order of a request
    Topics,         \* topics of messages
    FiltersLimit,   \* m_subFilters.max_size()
    MaxRequests,    \* bound: requests in a run
    MaxQueue,       \* bound: messages the broker has on their way
    Symbols,        \* symbols of the strings given to configTopic()
    MaxFilter,      \* bound: symbols in such a string
    MaxTopic        \* bound: symbols in the topics it is matched with

Filters == DOMAIN Text

ASSUME SubFiltersAssumption ==
    /\ FiltersLimit \in Nat /\ MaxRequests \in Nat /\ MaxQueue \in Nat
    /\ \A f \in Filters : verifySubFilter(Text[f], TRUE, TRUE)
    /\ \A t \in Topics : verifyPubTopic(t, FALSE)
    /\ Symbols \subseteq {"a", "b", "/", "+", "#", "$share"}
    /\ MaxFilter \in Nat /\ MaxTopic \in Nat

VARIABLES
    up,             \* there is a connection
    filters,        \* m_reuseState.m_subFilters
    waiting,        \* packet ids of the requests that wait for their answer
    count,          \* requests so far; the last one has this packet id
    toBroker,       \* external: requests on their way
    toClient,       \* external: answers and messages on their way
    subs,           \* external: subscriptions of the session at the broker
    refused,        \* the last step refused a message
    text,           \* the string the last step gave to configTopic(), or none
    unsure          \* history: an answer of the broker was missed in this session

vars == <<up, filters, waiting, count, toBroker, toClient, subs, refused,
          text, unsure>>

Kinds == {"subscribe", "unsubscribe"}

Init ==
    /\ up = TRUE
    /\ filters = {} /\ waiting = {} /\ count = 0
    /\ toBroker = <<>> /\ toClient = <<>> /\ subs = {}
    /\ refused = FALSE /\ text = <<>> /\ unsure = FALSE

------------------------------------------------------------------------------
(* The client. *)

Quiet == refused' = FALSE /\ text' = <<>>

\* Strings of up to n symbols.
Strings(n) == UNION {[1 .. k -> Symbols] : k \in 0 .. n}

\* SubscribeOp::configTopic() and UnsubscribeOp::configTopic() check a string.
\* The message they build is part of Send: bound, strings other than the filters
\* are tried before the first request only.
configTopic ==
    /\ up /\ count = 0 /\ text = <<>>
    /\ text' \in Strings(MaxFilter)
    /\ refused' = FALSE
    /\ UNCHANGED <<up, filters, waiting, count, toBroker, toClient, subs, unsure>>

\* SubscribeOp::send() and UnsubscribeOp::send()
Send(kind, fs) ==
    /\ up /\ count < MaxRequests
    /\ count' = count + 1
    /\ waiting' = waiting \cup {count'}
    /\ toBroker' = Append(toBroker, [kind |-> kind, id |-> count', fs |-> fs])
    /\ Quiet
    /\ UNCHANGED <<up, filters, toClient, subs, unsure>>

\* cancel() or opTimeoutInternal(): the operation is gone, its request is not.
GiveUp(i) ==
    /\ i \in waiting
    /\ waiting' = waiting \ {i}
    /\ Quiet /\ unsure' = TRUE
    /\ UNCHANGED <<up, filters, count, toBroker, toClient, subs>>

\* What can be added of the filters in fs, in their order.
Stored(fs) ==
    LET new == fs \ filters
    IN  {f \in new : Cardinality(filters) + Cardinality({g \in new : g <= f}) <= FiltersLimit}

\* The connection ends with everything that was on its way.
Disconnected ==
    /\ up' = FALSE
    /\ waiting' = {}
    /\ unsure' = (unsure \/ waiting # {})
    /\ toBroker' = <<>> /\ toClient' = <<>>

\* SubscribeOp::handle(SubackMsg&): the confirmed filters are recorded; without
\* room for them the client disconnects.
handleSuback ==
    LET m == Head(toClient)
        added == Stored(m.fs)
    IN  /\ up /\ toClient # <<>> /\ m.kind = "subscribe"
        /\ \/ /\ m.id \in waiting /\ m.fs \subseteq filters \cup added
              /\ filters' = filters \cup added
              /\ waiting' = waiting \ {m.id}
              /\ toClient' = Tail(toClient)
              /\ UNCHANGED <<up, toBroker, unsure>>
           \/ /\ m.id \in waiting /\ ~(m.fs \subseteq filters \cup added)
              /\ filters' = filters \cup added
              /\ Disconnected
           \/ /\ m.id \notin waiting        \* no operation with the packet id
              /\ toClient' = Tail(toClient)
              /\ UNCHANGED <<up, filters, waiting, toBroker, unsure>>
        /\ Quiet
        /\ UNCHANGED <<count, subs>>

\* Mutant: the whole record is cleared.
removedAll(fs) == {}

\* The record after UNSUBACK confirmed fs.
removed(fs) == filters \ fs

\* UnsubscribeOp::handle(UnsubackMsg&)
handleUnsuback ==
    LET m == Head(toClient)
    IN  /\ up /\ toClient # <<>> /\ m.kind = "unsubscribe"
        /\ filters' = IF m.id \in waiting THEN removed(m.fs) ELSE filters
        /\ waiting' = waiting \ {m.id}
        /\ toClient' = Tail(toClient)
        /\ Quiet
        /\ UNCHANGED <<up, count, toBroker, subs, unsure>>

\* RecvOp::handle(PublishMsg&): refused without a filter that matches.
handlePublish ==
    LET m == Head(toClient)
    IN  /\ up /\ toClient # <<>> /\ m.kind = "publish"
        /\ text' = <<>>
        /\ refused' = ~\E f \in filters : isTopicMatch(Text[f], m.topic)
        /\ toClient' = Tail(toClient)
        /\ UNCHANGED <<up, filters, waiting, count, toBroker, subs, unsure>>

\* notifyNetworkDisconnected() or a disconnection: terminateOps().
Lost ==
    /\ up
    /\ Disconnected
    /\ Quiet
    /\ UNCHANGED <<filters, count, subs>>

\* Mutant: the record of the old session is kept.
reuseAlways(present) == filters

\* ConnectOp::handle(ConnackMsg&): ReuseState() without a session at the broker.
reuse(present) == IF present THEN filters ELSE {}

Reconnected(present) ==
    /\ ~up
    /\ up' = TRUE
    /\ filters' = reuse(present)
    /\ subs' = IF present THEN subs ELSE {}
    /\ unsure' = (unsure /\ present)
    /\ Quiet
    /\ UNCHANGED <<waiting, count, toBroker, toClient>>

------------------------------------------------------------------------------
(* External: the broker. *)

\* A request is taken: the filters in no are not granted (or not removed).
BrokerTakes(no) ==
    LET m == Head(toBroker)
        done == m.fs \ no
    IN  /\ toBroker # <<>> /\ Len(toClient) < MaxQueue
        /\ subs' = IF m.kind = "subscribe" THEN subs \cup done ELSE subs \ done
        /\ toClient' = Append(toClient, [m EXCEPT !.fs = done])
        /\ toBroker' = Tail(toBroker)
        /\ Quiet
        /\ UNCHANGED <<up, filters, waiting, count, unsure>>

\* A message, marked by whether it is for a subscription that was confirmed and
\* not ended, as the answers queued before it tell the client.
BrokerPublishes(t) ==
    /\ up /\ Len(toClient) < MaxQueue
    /\ toClient' = Append(toClient, [kind |-> "publish", topic |-> t,
                                    confirmed |-> \E f \in subs : Matches(Text[f], t)])
    /\ Quiet
    /\ UNCHANGED <<up, filters, waiting, count, toBroker, subs, unsure>>

Next ==
    \/ configTopic
    \/ \E kind \in Kinds, fs \in SUBSET Filters \ {{}} : Send(kind, fs)
    \/ \E i \in 1 .. MaxRequests : GiveUp(i)
    \/ handleSuback
    \/ handleUnsuback
    \/ handlePublish
    \/ Lost
    \/ \E present \in BOOLEAN : Reconnected(present)
    \/ \E no \in SUBSET Filters : BrokerTakes(no)
    \/ \E t \in Topics : BrokerPublishes(t)

Spec == Init /\ [][Next]_vars

------------------------------------------------------------------------------
(* Correctness. *)

\* Once nothing is on its way, the client and the broker agree on the
\* subscriptions, unless the client gave up a request or lost it with the
\* connection in this session.
InSync ==
    up /\ waiting = {} /\ toBroker = <<>> /\ toClient = <<>> /\ ~unsure
        => filters = subs

\* RecvOp::handle(PublishMsg&) refuses no message of a subscription that the
\* broker had confirmed, and not ended, when it sent the message: in a resumed
\* session and after overlapping requests too, unless an answer of the broker was
\* missed in the session.  (A message that MQTT lets the broker send before
\* SUBACK, or after UNSUBACK, is refused unless another filter matches.)
LegitReported == [][refused' => unsure \/ ~Head(toClient).confirmed]_vars

\* verifySubFilterInternal() admits exactly the well-formed filters that the
\* broker accepts: every wildcard is a level of its own, '#' is the last one,
\* and a shared subscription has a name and a filter.
FilterAccepted ==
    text # <<>> => \A shared, wildcards \in BOOLEAN :
        verifySubFilter(text, shared, wildcards) = ValidFilter(text, shared, wildcards)

\* For an admitted filter that is not shared and a topic whose last level is
\* not empty, isTopicMatch() is the matching of MQTT: every message the broker
\* may send for the filter is matched, and nothing else is, but for topics that
\* begin with '$' and a filter that begins with a wildcard.  Those the broker
\* must not send ([MQTT-4.7.2-1]) and the code would match.
MatchExact ==
    verifySubFilter(text, TRUE, TRUE) /\ ~isSharedTopicFilter(text) =>
        \A t \in Strings(MaxTopic) :
            verifyPubTopic(t, FALSE) /\ Last(t) # Sep =>
                /\ Matches(text, t) => isTopicMatch(text, t)
                /\ isTopicMatch(text, t) => Matches(text, t) \/ Concealed(text, t)
==============================================================================
