----------------------------- MODULE TopicAlias -----------------------------
(***************************************************************************)
(* Topic aliases of published messages: their allocation                     *)
(* (client/lib/src/ClientImpl.cpp), their use by a "publish" operation       *)
(* (client/lib/src/op/SendOp.cpp) and what a reconnection does to both       *)
(* (client/lib/src/op/ConnectOp.cpp).                                        *)
(*                                                                           *)
(* Of the "publish" operations QoS 0 and 1 with CC_Mqtt5PublishOrdering_     *)
(* SameQos are kept; SendOps models the rest of them.  Topics are numbers in *)
(* the order the library sorts them.  The broker (external) is the table of  *)
(* aliases the MQTT specification asks of it.                                *)
(***************************************************************************)
EXTENDS Integers, Sequences, FiniteSets, FiniteSetsExt, SequencesExt

CONSTANTS
    Topics,         \* topics the application publishes to
    AliasMaxes,     \* Topic Alias Maximum values of CONNACK
    SendLimit,      \* Receive Maximum of the broker
    Preferences,    \* m_topicAliasPref values in use
    Reconnects,     \* bound: reconnections
    MaxPublishes    \* bound: "publish" operations

NoTopic == 0
NoAlias == 0

ASSUME TopicAliasAssumption ==
    /\ Topics \subseteq Nat \ {0} /\ IsFiniteSet(Topics)
    /\ AliasMaxes \subseteq Nat /\ SendLimit \in Nat \ {0}
    /\ Preferences \subseteq {"available", "aliasOnly", "topicOnly", "both"}
    /\ Reconnects \in Nat /\ MaxPublishes \in Nat

VARIABLES
    link,           \* "down", "connecting" (CONNECT sent) or "up"
    reconnects,     \* CONNACKs so far
    aliasMax,       \* m_maxSendTopicAlias
    table,          \* m_sendTopicAliases: topic |-> alias and m_lowQosRegRemCount
    freeAliases,    \* m_sendTopicFreeAliases
    prepared,       \* the operation between publishPrepare() and send()
    ops,            \* m_sendOps in flight or paused
    count,          \* operations prepared so far
    known,          \* external: the aliases the broker knows
    spoilt,         \* history: something that makes aliases unreliable was done
    out             \* the PUBLISH messages of the last step, as the broker sees them

vars == <<link, reconnects, aliasMax, table, freeAliases, prepared, ops, count,
          known, spoilt, out>>

Aliases == 1 .. Max(AliasMaxes \cup {1})

\* paused: waits for canSend().  History: it was paused in an earlier connection
\* (carried).
PublishOp == [meant : Topics, topic : Topics \cup {NoTopic},
              alias : Aliases \cup {NoAlias}, registered : BOOLEAN, qos : {0, 1},
              paused : BOOLEAN, carried : BOOLEAN]

Init ==
    /\ link = "down" /\ reconnects = 0
    /\ aliasMax = 0
    /\ table = <<>>
    /\ freeAliases = <<>>
    /\ prepared = <<>> /\ ops = <<>> /\ count = 0
    /\ known = [a \in Aliases |-> NoTopic] /\ spoilt = FALSE
    /\ out = <<>>

------------------------------------------------------------------------------
(* External: the broker's side of an alias.  A message with a topic and an   *)
(* alias defines the alias; one with the alias only uses it, and is a        *)
(* protocol error when the alias is not known (topic 0).                     *)

Learnt(k, m) ==
    IF m.topic # NoTopic /\ m.alias # NoAlias THEN [k EXCEPT ![m.alias] = m.topic]
                                              ELSE k

Understood(k, m) ==
    [meant |-> m.meant, alias |-> m.alias, carried |-> m.carried,
     topic |-> IF m.topic # NoTopic THEN m.topic ELSE k[m.alias]]

\* The messages s arrive at a broker that knows k.
Publishing(k, s) ==
    LET after == FoldLeft(LAMBDA acc, m : [known |-> Learnt(acc.known, m),
                                           out |-> Append(acc.out, Understood(acc.known, m))],
                          [known |-> k, out |-> <<>>], s)
    IN  known' = after.known /\ out' = after.out

------------------------------------------------------------------------------
(* Allocation. *)

\* Mutant: the alias stays on the free list.
allocatedFree(f) == f

\* The free list without the alias that is taken from its end.
takenFrom(f) == IF f = <<>> THEN f ELSE Front(f)

\* The alias of a new entry: one given back, or the size of the (then empty)
\* free list plus one.
newAlias == IF freeAliases # <<>> THEN Last(freeAliases) ELSE Len(freeAliases) + 1

\* The topics of the table that have the alias a.
TopicsOf(tab, a) == {t \in DOMAIN tab : tab[t].alias = a}

\* allocPubTopicAlias()
allocPubTopicAlias(t, regs) ==
    /\ link = "up"
    /\ Cardinality(DOMAIN table) < aliasMax
    /\ \/ /\ t \in DOMAIN table
          /\ table' = [table EXCEPT ![t].rem = Max({regs, 1})]
          /\ UNCHANGED <<freeAliases, spoilt>>
       \/ /\ t \notin DOMAIN table
          /\ spoilt' = (spoilt \/ TopicsOf(table, newAlias) # {})
          /\ table' = [x \in DOMAIN table \cup {t} |->
                         IF x = t THEN [alias |-> newAlias, rem |-> Max({regs, 1})]
                                  ELSE table[x]]
          /\ freeAliases' = takenFrom(freeAliases)
    /\ out' = <<>>
    /\ UNCHANGED <<link, reconnects, aliasMax, prepared, ops, count, known>>

\* freePubTopicAlias(): no connection is asked for.
freePubTopicAlias(t) ==
    /\ t \in DOMAIN table
    /\ freeAliases' = Append(freeAliases, table[t].alias)
    /\ table' = [x \in DOMAIN table \ {t} |-> table[x]]
    /\ spoilt' = (spoilt \/ \E op \in Range(ops \o prepared) : op.alias = table[t].alias)
    /\ out' = <<>>
    /\ UNCHANGED <<link, reconnects, aliasMax, prepared, ops, count, known>>

------------------------------------------------------------------------------
(* "publish" operations. *)

UsesAlias(t, pref) == pref # "topicOnly" /\ t \in DOMAIN table

\* Mutant: the alias is used alone one message too early.
aliasAloneEarly(t, pref) ==
    UsesAlias(t, pref) /\ (pref = "aliasOnly" \/ (pref = "available" /\ table[t].rem <= 1))

\* configBasic(): the topic string is left out (mustAssignTopic is false).
aliasAlone(t, pref) ==
    UsesAlias(t, pref) /\ (pref = "aliasOnly" \/ (pref = "available" /\ table[t].rem = 0))

\* publishPrepare() and configBasic().  Preferences that insist on an alias
\* fail without one.
Prepare(t, qos, pref) ==
    LET alone == aliasAlone(t, pref)
    IN  /\ link = "up" /\ prepared = <<>> /\ count < MaxPublishes
        /\ pref \in {"aliasOnly", "both"} => t \in DOMAIN table
        /\ prepared' = <<[meant |-> t,
                          topic |-> IF alone THEN NoTopic ELSE t,
                          alias |-> IF UsesAlias(t, pref) THEN table[t].alias ELSE NoAlias,
                          registered |-> UsesAlias(t, pref) /\ ~alone,
                          qos |-> qos, paused |-> FALSE, carried |-> FALSE]>>
        /\ count' = count + 1
        /\ table' = IF UsesAlias(t, pref) /\ pref = "available" /\ ~alone
                    THEN [table EXCEPT ![t].rem = @ - 1] ELSE table
        /\ spoilt' = (spoilt \/ (pref = "aliasOnly" /\ table[t].rem # 0))
        /\ out' = <<>>
        /\ UNCHANGED <<link, reconnects, aliasMax, freeAliases, ops, known>>

\* cancel() of an operation that was not sent.
Cancel ==
    /\ prepared # <<>>
    /\ prepared' = <<>>
    /\ spoilt' = (spoilt \/ prepared[1].registered)
    /\ out' = <<>>
    /\ UNCHANGED <<link, reconnects, aliasMax, table, freeAliases, ops, count, known>>

InFlight(s) == SelectSeq(s, LAMBDA op : ~op.paused)

\* canSend() with CC_Mqtt5PublishOrdering_SameQos.
canSend(s, qos) == qos = 0 \/ Len(InFlight(s)) < SendLimit

\* send(): QoS 0 completes at once.
Send ==
    LET op == prepared[1]
    IN  /\ link = "up" /\ prepared # <<>>
        /\ prepared' = <<>>
        /\ \/ /\ canSend(ops, op.qos)
              /\ Publishing(known, <<op>>)
              /\ ops' = IF op.qos = 0 THEN ops ELSE Append(ops, op)
              /\ UNCHANGED spoilt
           \/ /\ ~canSend(ops, op.qos)
              /\ ops' = Append(ops, [op EXCEPT !.paused = TRUE])
              /\ spoilt' = (spoilt \/ op.alias # NoAlias)
              /\ out' = <<>> /\ UNCHANGED known
        /\ UNCHANGED <<link, reconnects, aliasMax, table, freeAliases, count>>

\* resumeSendOpsSince(): as many paused operations as the limit allows.
resumable(s) ==
    {i \in DOMAIN s : /\ s[i].paused
                      /\ Cardinality({j \in 1 .. i : s[j].paused}) + Len(InFlight(s))
                            <= SendLimit}

\* confirmRegisteredAlias(): the entry lower_bound() finds, which is another
\* topic's when the entry of the acknowledged one is gone.
confirmed(topic) ==
    LET notBefore == {x \in DOMAIN table : x >= topic}
    IN  IF notBefore = {} THEN table
        ELSE [table EXCEPT ![Min(notBefore)].rem = 0]

\* PUBACK of the operation in flight at i: handle(), opComplete() and the
\* operations resumed.
Puback(i) ==
    LET s == RemoveAt(ops, i)
        again == resumable(s)
    IN  /\ link = "up"
        /\ i \in DOMAIN ops /\ ~ops[i].paused
        /\ table' = IF ops[i].registered THEN confirmed(ops[i].topic) ELSE table
        /\ ops' = [j \in DOMAIN s |-> IF j \in again THEN [s[j] EXCEPT !.paused = FALSE]
                                                     ELSE s[j]]
        /\ Publishing(known, [n \in 1 .. Cardinality(again) |-> s[SetToSortSeq(again, <)[n]]])
        /\ UNCHANGED <<link, reconnects, aliasMax, freeAliases, prepared, count, spoilt>>

------------------------------------------------------------------------------
(* Reconnection to a kept session. *)

NetworkDisconnected ==
    /\ link = "up" /\ prepared = <<>> /\ reconnects <= Reconnects
    /\ link' = "down"
    /\ out' = <<>>
    /\ UNCHANGED <<reconnects, aliasMax, table, freeAliases, prepared, ops, count, known,
                   spoilt>>

\* initInternal(): SessionState() has no free aliases and no maximum.
Connect ==
    /\ link = "down"
    /\ link' = "connecting"
    /\ aliasMax' = 0
    /\ freeAliases' = <<>>
    /\ out' = <<>>
    /\ UNCHANGED <<reconnects, table, prepared, ops, count, known, spoilt>>

\* m_sendTopicAliases.resize(): the first entries stay.
shortened(m) ==
    LET kept == {t \in DOMAIN table : Cardinality({x \in DOMAIN table : x <= t}) <= m}
    IN  [t \in kept |-> table[t]]

\* postReconnectionResend(): a message in flight gets its topic back and loses
\* its alias, or fails when the alias is gone; a paused one is left as it is.
Fails(tab, op) == ~op.paused /\ op.topic = NoTopic /\ TopicsOf(tab, op.alias) = {}

\* Mutant: the message keeps the alias.
ResentWithAlias(tab, op) ==
    IF op.paused THEN [op EXCEPT !.carried = TRUE]
    ELSE [op EXCEPT !.topic = IF @ = NoTopic THEN Min(TopicsOf(tab, op.alias)) ELSE @]

Resent(tab, op) ==
    IF op.paused THEN [op EXCEPT !.carried = TRUE]
    ELSE [op EXCEPT !.topic = IF @ = NoTopic THEN Min(TopicsOf(tab, op.alias)) ELSE @,
                    !.alias = NoAlias]

\* CONNACK with Session Present: the table is shortened, the operations resent,
\* the paused ones resumed, and the table cleared.  The broker starts without
\* aliases.
Connack(m) ==
    LET tab == shortened(m)
        left == SelectSeq(ops, LAMBDA op : ~Fails(tab, op))
        s == [i \in DOMAIN left |-> Resent(tab, left[i])]
        again == resumable(s)
    IN  /\ link = "connecting"
        /\ link' = "up" /\ reconnects' = reconnects + 1
        /\ aliasMax' = m
        /\ table' = <<>>
        /\ ops' = [i \in DOMAIN s |-> [s[i] EXCEPT !.paused = @ /\ i \notin again]]
        /\ spoilt' = \/ spoilt /\ s # <<>>
                     \/ \E op \in Range(s) : op.registered \/ op.alias # NoAlias
        /\ Publishing([a \in Aliases |-> NoTopic],
                      InFlight(s) \o [n \in 1 .. Cardinality(again) |->
                                        s[SetToSortSeq(again, <)[n]]])
        /\ UNCHANGED <<freeAliases, prepared, count>>

Next ==
    \/ \E t \in Topics, regs \in 0 .. 2 : allocPubTopicAlias(t, regs)
    \/ \E t \in Topics : freePubTopicAlias(t)
    \/ \E t \in Topics, qos \in {0, 1}, pref \in Preferences : Prepare(t, qos, pref)
    \/ Cancel
    \/ Send
    \/ \E i \in 1 .. MaxPublishes : Puback(i)
    \/ NetworkDisconnected
    \/ Connect
    \/ \E m \in AliasMaxes : Connack(m)

Spec == Init /\ [][Next]_vars

------------------------------------------------------------------------------
(* Correctness. *)

\* The variables keep their types; the count of registrations that are left, an
\* unsigned byte, never wraps.  Entries and free aliases together fit in the
\* storage that Topic Alias Maximum reserves: taking and giving back aliases in
\* any order does not grow it.
TypeOK ==
    /\ link \in {"down", "connecting", "up"} /\ reconnects \in Nat
    /\ aliasMax \in AliasMaxes \cup {0}
    /\ DOMAIN table \subseteq Topics
    /\ \A t \in DOMAIN table : table[t] \in [alias : Aliases, rem : 0 .. 255]
    /\ freeAliases \in Seq(Aliases)
    /\ Cardinality(DOMAIN table) + Len(freeAliases) <= Max(AliasMaxes)
    /\ prepared \in Seq(PublishOp) /\ ops \in Seq(PublishOp)
    /\ count \in 0 .. MaxPublishes
    /\ known \in [Aliases -> Topics \cup {NoTopic}] /\ spoilt \in BOOLEAN

\* A message is understood as published to the topic the application meant: an
\* alias is sent alone only when the broker knows it as that topic.  It holds on
\* a connection until one of these spoils it: two topics with one alias, an alias
\* freed in use, forced before its registration, or registered by a message that
\* was cancelled, paused or in flight over a reconnection.
MeantTopic == \A n \in DOMAIN out : out[n].topic = out[n].meant \/ spoilt

\* No alias above the Topic Alias Maximum of this connection is sent
\* [MQTT-3.2.2-17], [MQTT-3.2.2-18], but by an operation that was paused when the
\* connection was made.
AliasWithinMaximum == \A n \in DOMAIN out : out[n].alias <= aliasMax \/ out[n].carried

\* Two topics never share an alias.
AliasUnique ==
    \A t, u \in DOMAIN table : table[t].alias = table[u].alias => t = u

\* A QoS 1 message that was in flight when the connection was lost is sent again
\* with a topic and without the aliases of the
\* old connection [MQTT-3.3.2-7].
NoAliasCarriedOver ==
    [][link = "connecting" /\ link' = "up" =>
          \A n \in DOMAIN out' :
             out'[n].carried \/ (out'[n].alias = NoAlias /\ out'[n].topic # NoTopic)]_vars
==============================================================================
