---------------------------- MODULE TopicFilter ------------------------------
(***************************************************************************)
(* The checks on topic strings: Op::verifySubFilterInternal(), which admits   *)
(* the filters of SUBSCRIBE and UNSUBSCRIBE, verifyPubTopicInternal(), and    *)
(* isTopicMatch() of RecvOp.cpp, which decides whether a message is reported. *)
(*                                                                           *)
(* A string is a sequence of symbols: separators, wildcards, the word         *)
(* "$share", and ordinary characters.  The code cuts strings at the first     *)
(* separator; the reference definitions below speak of all levels at once.    *)
(***************************************************************************)
EXTENDS Integers, Sequences, FiniteSets, SequencesExt

Sep == "/"
Multi == "#"
Single == "+"

------------------------------------------------------------------------------
(* The code. *)

Seps(s, from) == {n \in from .. Len(s) : s[n] = Sep}

\* find_first_of("/"): 0 stands for npos.
FirstSep(s) == IF Seps(s, 1) = {} THEN 0 ELSE CHOOSE n \in Seps(s, 1) : \A m \in Seps(s, 1) : n <= m

isSharedTopicFilter(s) == Len(s) >= 2 /\ s[1] = "$share" /\ s[2] = Sep

\* A name without wildcards and something after it.
shareNamed(s) ==
    \E n \in Seps(s, 4) : n < Len(s) /\ \A m \in 3 .. n - 1 : s[m] \notin {Sep, Multi, Single}

\* Mutant: what precedes a wildcard is not looked at.
wildcardFirst(s, n) == TRUE

\* pos == 0U, or lastSep is the position before
wildcardAlone(s, n) == n = 1 \/ s[n - 1] = Sep

\* verifySubFilterInternal(); shared and wildcards say what the broker accepts
\* (m_sharedSubsAvailable, m_wildcardSubAvailable).
verifySubFilter(s, shared, wildcards) ==
    /\ s # <<>>
    /\ isSharedTopicFilter(s) => shared /\ shareNamed(s)
    /\ \A n \in 1 .. Len(s) :
        /\ s[n] = Multi => wildcards /\ n = Len(s) /\ wildcardAlone(s, n)
        /\ s[n] = Single => wildcards /\ (n = Len(s) \/ s[n + 1] = Sep) /\ wildcardAlone(s, n)

\* verifyPubTopicInternal()
verifyPubTopic(s, outgoing) ==
    /\ s # <<>>
    /\ outgoing => s[1] # "$share"
    /\ \A n \in 1 .. Len(s) : s[n] \notin {Multi, Single}

\* Mutant: a wildcard stands for nothing but itself.
levelMatchLiteral(f, t) == f = t

\* One level of the filter against one of the topic.
levelMatch(f, t) == f = <<Single>> \/ f = t

\* isTopicMatch() of what the filter has from i and the topic from j on; the
\* recursive calls give up the first level of both.  The last case compares an
\* empty rest of the filter too ('a/' with 'a/b'): filter[0] is then read past
\* the end of the string_view, and whatever it gives, the test of the size makes
\* the result FALSE, as levelMatch() does.
isTopicMatch(filter, topic) ==
    LET match[i \in 1 .. Len(filter) + 1, j \in 1 .. Len(topic) + 1] ==
            LET f == SubSeq(filter, i, Len(filter))
                t == SubSeq(topic, j, Len(topic))
                fSep == FirstSep(f)
                tSep == FirstSep(t)
            IN  CASE f = <<Multi>> -> TRUE
                  [] f # <<Multi>> /\ t = <<>> -> f = <<>>
                  [] f # <<Multi>> /\ t # <<>> /\ tSep # 0 ->
                        /\ fSep # 0
                        /\ levelMatch(SubSeq(f, 1, fSep - 1), SubSeq(t, 1, tSep - 1))
                        /\ match[i + fSep, j + tSep]
                  [] f # <<Multi>> /\ t # <<>> /\ tSep = 0 /\ fSep # 0 ->
                        /\ fSep < Len(f)
                        /\ levelMatch(SubSeq(f, 1, fSep - 1), t)
                        /\ match[i + fSep, Len(topic) + 1]
                  [] f # <<Multi>> /\ t # <<>> /\ tSep = 0 /\ fSep = 0 -> levelMatch(f, t)
    IN  match[1, 1]

------------------------------------------------------------------------------
(* The reference. *)

\* All levels of a string: what stands between its separators.
Levels(s) ==
    LET cuts == {0, Len(s) + 1} \cup Seps(s, 1)
        Cut(k) == CHOOSE n \in cuts : Cardinality({m \in cuts : m < n}) = k
    IN  [k \in 1 .. Cardinality(cuts) - 1 |-> SubSeq(s, Cut(k - 1) + 1, Cut(k) - 1)]

HasWildcard(level) == \E n \in DOMAIN level : level[n] \in {Multi, Single}

\* "$share/name/filter"
IsShared(levels) == Len(levels) >= 2 /\ levels[1] = <<"$share">>

ValidFilter(s, shared, wildcards) ==
    LET levels == Levels(s)
    IN  /\ s # <<>>
        /\ \A k \in DOMAIN levels : HasWildcard(levels[k]) =>
            wildcards /\ (levels[k] = <<Single>> \/ (levels[k] = <<Multi>> /\ k = Len(levels)))
        /\ IsShared(levels) =>
            /\ shared
            /\ Len(levels) >= 3 /\ levels[2] # <<>> /\ ~HasWildcard(levels[2])
            /\ Len(levels) = 3 => levels[3] # <<>>

\* The levels the broker compares with those of a topic.
Subscribed(s) ==
    LET levels == Levels(s)
    IN  IF IsShared(levels) THEN SubSeq(levels, 3, Len(levels)) ELSE levels

\* [MQTT-4.7.2-1]: a filter that begins with a wildcard is not matched with a
\* topic that begins with '$', of which the symbols have "$share".
Concealed(s, t) ==
    Subscribed(s)[1] \in {<<Single>>, <<Multi>>} /\ t # <<>> /\ t[1] = "$share"

Matches(s, t) ==
    LET f == Subscribed(s)
        levels == Levels(t)
        n == IF Last(f) = <<Multi>> THEN Len(f) - 1 ELSE Len(f)
    IN  /\ ~Concealed(s, t)
        /\ n <= Len(levels)
        /\ Last(f) # <<Multi>> => n = Len(levels)
        /\ \A k \in 1 .. n : f[k] \in {<<Single>>, levels[k]}
==============================================================================
