--------------------------- MODULE Session_proofs ---------------------------
(***************************************************************************)
(* The life of the operations, for any number of them: every operation is    *)
(* reported once, one is prepared at a time unless a publish without callback *)
(* was cancelled, and the application knows whether there is a connection.   *)
(***************************************************************************)
EXTENDS Session, FiniteSetTheorems, SequenceTheorems, TLAPS

------------------------------------------------------------------------------
(* The list of operations. *)

Single == {"connect", "disconnect", "reauth"}

\* What is true of an operation wherever it stands.
OpOK(op) ==
    /\ op.timer => op.phase = "sent"
    /\ op.phase = "prepared" => ~op.callback
    /\ op.phase # "done" => ~op.cancelled
    /\ op.reports = IF op.phase = "done" /\ op.callback /\ ~op.cancelled THEN 1 ELSE 0

ListInv(s) ==
    /\ s \in Seq(Op) /\ Len(s) <= MaxOps
    /\ \A i \in 1 .. Len(s) : OpOK(s[i])
    /\ \A i, j \in 1 .. Len(s) :
          s[i].type = s[j].type /\ s[i].type \in Single
                /\ s[i].phase # "done" /\ s[j].phase # "done" => i = j

\* What may become of an operation in a step.
Advance(op, new) ==
    /\ new \in Op /\ new.type = op.type
    /\ new.phase # "done" => op.phase # "done"
    /\ new.phase = "prepared" => op.phase = "prepared"
    /\ OpOK(new)

\* An operation that is not over may be completed, dropped or cancelled.
LEMMA EndAdvances ==
    ASSUME NEW op \in Op, OpOK(op), op.phase # "done"
    PROVE  /\ Advance(op, Completed(op)) /\ Completed(op).phase = "done"
           /\ op.phase = "prepared" =>
                 Advance(op, Dropped(op)) /\ Dropped(op).phase = "done"
           /\ Advance(op, [Dropped(op) EXCEPT !.cancelled = TRUE])
           /\ [Dropped(op) EXCEPT !.cancelled = TRUE].phase = "done"
<1>1. Advance(op, Completed(op)) /\ Completed(op).phase = "done"
  <2>1. Completed(op) \in Op
    <3> DEFINE n == IF op.callback THEN op.reports + 1 ELSE op.reports
    <3>1. n \in Nat
      BY DEF Op
    <3>2. Completed(op) = [op EXCEPT !.phase = "done", !.timer = FALSE, !.reports = n]
      BY DEF Completed
    <3> HIDE DEF n
    <3> QED
      BY <3>1, <3>2 DEF Op
  <2>2. /\ Completed(op).type = op.type
        /\ Completed(op).phase = "done" /\ Completed(op).timer = FALSE
        /\ Completed(op).callback = op.callback
        /\ Completed(op).cancelled = op.cancelled
        /\ Completed(op).reports = IF op.callback THEN op.reports + 1 ELSE op.reports
    BY DEF Completed, Op
  <2> QED
    BY <2>1, <2>2 DEF Advance, OpOK, Op
<1> USE DEF Op, OpOK, Advance
<1>2. op.phase = "prepared" => Advance(op, Dropped(op)) /\ Dropped(op).phase = "done"
  BY DEF Dropped
<1>3. /\ Advance(op, [Dropped(op) EXCEPT !.cancelled = TRUE])
      /\ [Dropped(op) EXCEPT !.cancelled = TRUE].phase = "done"
  BY DEF Dropped
<1> QED
  BY <1>1, <1>2, <1>3

\* One that is prepared may be sent; one that waits may have its timer started
\* again, or lose it to an AUTH without answer.
LEMMA WaitAdvances ==
    ASSUME NEW op \in Op, OpOK(op), NEW withCb \in BOOLEAN, NEW timed \in BOOLEAN
    PROVE  /\ op.phase = "prepared" =>
                 Advance(op, [op EXCEPT !.phase = "sent", !.callback = withCb, !.timer = timed])
           /\ op.phase = "sent" =>
                 /\ Advance(op, Timed(op))
                 /\ Advance(op, [op EXCEPT !.timer = FALSE, !.refusedAuth = TRUE])
  BY DEF Op, OpOK, Advance, Timed

\* The list keeps its invariant when its operations advance.
LEMMA ListAdvances ==
    ASSUME NEW s, ListInv(s), NEW new \in Seq(Op), Len(new) = Len(s),
           \A i \in 1 .. Len(s) : Advance(s[i], new[i])
    PROVE  ListInv(new)
  BY DEF ListInv, Advance

\* A new operation is appended when no other of its type exists, if there may be
\* only one.
LEMMA NewIsAppended ==
    ASSUME NEW s, ListInv(s), NEW t \in Types, Len(s) < MaxOps,
           t \in Single => \A i \in 1 .. Len(s) : s[i].type = t => s[i].phase = "done"
    PROVE  /\ ListInv(Append(s, NewOp(t))) /\ Len(Append(s, NewOp(t))) = Len(s) + 1
           /\ \A i \in 1 .. Len(s) : Append(s, NewOp(t))[i] = s[i]
           /\ Append(s, NewOp(t))[Len(s) + 1] = NewOp(t)
<1> DEFINE new == Append(s, NewOp(t))
<1>1. s \in Seq(Op) /\ NewOp(t) \in Op /\ OpOK(NewOp(t))
      /\ NewOp(t).phase = "prepared" /\ NewOp(t).type = t
  BY DEF ListInv, NewOp, Op, OpOK
<1>2. /\ new \in Seq(Op) /\ Len(new) = Len(s) + 1
      /\ \A i \in 1 .. Len(s) : new[i] = s[i]
      /\ new[Len(s) + 1] = NewOp(t)
  BY <1>1, AppendProperties
<1>3. Len(s) \in Nat /\ MaxOps \in Nat
  BY <1>1, LenProperties, SessionAssumption DEF SessionAssumption
<1> HIDE DEF new
<1>4. \A i \in 1 .. Len(new) : i \in 1 .. Len(s) \/ i = Len(s) + 1
  BY <1>2, <1>3
<1>5. ListInv(new)
  BY <1>1, <1>2, <1>3, <1>4 DEF ListInv
<1> QED
  BY <1>2, <1>5 DEF new

\* terminateOps() leaves nothing but ended operations and the publishes it keeps.
LEMMA TerminatedEnds ==
    ASSUME ListInv(ops), NEW keep \in BOOLEAN
    PROVE  /\ ListInv(Terminated(keep)) /\ Len(Terminated(keep)) = Len(ops)
           /\ \A i \in 1 .. Len(ops) :
                 /\ Advance(ops[i], Terminated(keep)[i])
                 /\ ops[i].type # "publish" => Terminated(keep)[i].phase = "done"
<1> DEFINE T == Terminated(keep)
<1>1. ops \in Seq(Op) /\ Len(ops) \in Nat /\ Ids = 1 .. Len(ops)
  BY LenProperties DEF ListInv, Ids
<1>2. \A i \in 1 .. Len(ops) : ops[i] \in Op /\ OpOK(ops[i])
  BY <1>1, ElementOfSeq DEF ListInv
<1>3. \A i \in 1 .. Len(ops) : /\ Advance(ops[i], T[i])
                               /\ ops[i].type # "publish" => T[i].phase = "done"
  BY <1>1, <1>2, EndAdvances DEF Terminated, Advance
<1>4. T \in Seq(Op) /\ Len(T) = Len(ops)
  <2>1. T \in [1 .. Len(ops) -> Op]
    BY <1>1, <1>3 DEF Terminated, Advance
  <2> QED
    BY <1>1, <2>1
<1>5. ListInv(T)
  BY <1>3, <1>4, ListAdvances
<1> QED
  BY <1>3, <1>4, <1>5

\* The end of a session may complete the publishes that are not over.
LEMMA AbortAdvances ==
    ASSUME NEW op \in Op, OpOK(op)
    PROVE  Advance(op, Aborted(op)) /\ Advance(op, op)
           /\ (op.phase = "done" => Aborted(op).phase = "done")
  BY EndAdvances DEF Aborted, Advance

------------------------------------------------------------------------------
(* The flags and the list. *)

Flags ==
    /\ initialized \in BOOLEAN /\ connected \in BOOLEAN /\ disconnecting \in BOOLEAN
    /\ networkDisconnected \in BOOLEAN /\ auth \in BOOLEAN /\ locked \in BOOLEAN
    /\ expiring \in BOOLEAN /\ appConnected \in BOOLEAN /\ misopened \in BOOLEAN

\* One operation is prepared at a time and holds the lock, unless the lock was
\* opened under it.
PreparedInv ==
    ~misopened =>
        /\ \A i \in Ids : ops[i].phase = "prepared" => locked
        /\ \A i, j \in Ids : ops[i].phase = "prepared" /\ ops[j].phase = "prepared" => i = j

\* An operation that is not over belongs to a client that is initialized, but for
\* publishes.
SessionInv ==
    /\ Flags /\ ListInv(ops) /\ PreparedInv
    /\ \A i \in Ids : ops[i].phase # "done" => initialized \/ ops[i].type = "publish"
    /\ connected => /\ initialized /\ ~disconnecting
                    /\ \A i \in Ids : ops[i].type = "connect" => ops[i].phase = "done"
    /\ appConnected = connected

\* The prepared operations after a step in which operations only advance.
LEMMA PreparedAdvances ==
    ASSUME SessionInv, ListInv(ops'), Len(ops') = Len(ops),
           \A i \in 1 .. Len(ops) : Advance(ops[i], ops'[i]),
           misopened' = misopened, locked' = locked
    PROVE  PreparedInv' /\ Ids' = Ids /\ Ids = 1 .. Len(ops)
<1>1. Ids' = 1 .. Len(ops) /\ Ids = 1 .. Len(ops)
  BY LenProperties DEF SessionInv, Ids, ListInv
<1> QED
  BY <1>1 DEF SessionInv, PreparedInv, Advance

\* Steps that end the connection with everything that depends on it, in a call of
\* the application or with a reason that is reported.
LEMMA DisconnectionKeeps ==
    ASSUME SessionInv, NEW reason, NEW own \in BOOLEAN, own \/ reason # ValuesLimit,
           BrokerDisconnected(reason, own), Flags',
           locked' = locked \/ \E i \in Ids : ops[i].phase = "prepared" /\ ops[i].type = "disconnect"
    PROVE  SessionInv'
<1>1. ListInv(ops) /\ ops \in Seq(Op) /\ Ids = 1 .. Len(ops)
  BY LenProperties DEF SessionInv, ListInv, Ids
<1>2. /\ ListInv(ops') /\ Len(ops') = Len(ops)
      /\ \A i \in 1 .. Len(ops) : /\ Advance(ops[i], ops'[i])
                                  /\ ops[i].type # "publish" => ops'[i].phase = "done"
  <2>1. PICK keep \in BOOLEAN : ops' = Terminated(keep)
    BY DEF BrokerDisconnected
  <2> QED
    BY <1>1, <2>1, TerminatedEnds
<1>3. Ids' = 1 .. Len(ops)
  BY <1>2, LenProperties DEF Ids, ListInv
<1>4. connected' = FALSE /\ appConnected' = FALSE /\ misopened' = misopened
  BY DEF BrokerDisconnected, Told
<1>5. PreparedInv'
  <2>1. CASE locked' = locked
    BY <1>2, <1>4, <2>1, PreparedAdvances
  <2>2. CASE \E i \in Ids : ops[i].phase = "prepared" /\ ops[i].type = "disconnect"
    <3>1. PICK i \in Ids : ops[i].phase = "prepared" /\ ops[i].type = "disconnect"
      BY <2>2
    <3>2. \A j \in Ids : ~misopened /\ ops'[j].phase = "prepared" => j = i
      BY <1>1, <1>2, <3>1 DEF SessionInv, PreparedInv, Advance
    <3>3. ops'[i].phase = "done"
      BY <1>1, <1>2, <3>1
    <3> QED
      BY <1>1, <1>3, <1>4, <3>2, <3>3 DEF PreparedInv
  <2> QED
    BY <2>1, <2>2
<1>6. \A i \in Ids' : ops'[i].phase # "done" => ops'[i].type = "publish"
  BY <1>2, <1>3 DEF Advance
<1> QED
  BY <1>2, <1>4, <1>5, <1>6 DEF SessionInv

\* Steps in which one operation advances and the flags but for the lock stay.
LEMMA OneStepKeeps ==
    ASSUME SessionInv, NEW i \in Ids, NEW op, Advance(ops[i], op),
           ops' = [ops EXCEPT ![i] = op], Flags',
           UNCHANGED <<initialized, connected, disconnecting, appConnected>>,
           ~misopened' => /\ ~misopened
                          /\ \/ locked' = locked
                             \/ /\ op.phase # "prepared"
                                /\ \/ ops[i].phase = "prepared"
                                   \/ \A j \in Ids \ {i} : ops[j].phase # "prepared"
    PROVE  SessionInv'
<1>1. ListInv(ops) /\ ops \in Seq(Op) /\ Ids = 1 .. Len(ops) /\ i \in 1 .. Len(ops)
  BY LenProperties DEF SessionInv, ListInv, Ids
<1>2. /\ ListInv(ops') /\ Len(ops') = Len(ops)
      /\ \A j \in 1 .. Len(ops) : ops'[j] = IF j = i THEN op ELSE ops[j]
  <2>1. /\ ops' \in Seq(Op) /\ Len(ops') = Len(ops)
        /\ \A j \in 1 .. Len(ops) : ops'[j] = IF j = i THEN op ELSE ops[j]
    BY <1>1, ExceptSeq DEF Advance
  <2>2. \A j \in 1 .. Len(ops) : Advance(ops[j], ops'[j])
    BY <1>1, <2>1, ElementOfSeq DEF ListInv, Advance
  <2> QED
    BY <1>1, <2>1, <2>2, ListAdvances
<1>3. Ids' = 1 .. Len(ops)
  BY <1>2, LenProperties DEF Ids, ListInv
<1>4. \A j \in Ids : /\ ops'[j].phase # "done" => ops[j].phase # "done"
                     /\ ops'[j].phase = "prepared" => ops[j].phase = "prepared"
                     /\ ops'[j].type = ops[j].type
  BY <1>1, <1>2 DEF Advance
<1>5. PreparedInv'
  <2> SUFFICES ASSUME ~misopened' PROVE PreparedInv'
    BY DEF PreparedInv
  <2>1. ~misopened
    OBVIOUS
  <2>2. CASE locked' = locked
    BY <1>1, <1>3, <1>4, <2>1, <2>2 DEF SessionInv, PreparedInv
  <2>3. CASE op.phase # "prepared" /\ (ops[i].phase = "prepared"
                 \/ \A j \in Ids \ {i} : ops[j].phase # "prepared")
    <3>1. \A j \in Ids : ops'[j].phase # "prepared"
      BY <1>1, <1>2, <1>4, <2>1, <2>3 DEF SessionInv, PreparedInv
    <3> QED
      BY <1>1, <1>3, <3>1 DEF PreparedInv
  <2> QED
    BY <2>2, <2>3
<1> QED
  BY <1>1, <1>2, <1>3, <1>4, <1>5 DEF SessionInv

\* An operation found by Live() is one of the list that is not over.
LEMMA LiveOp ==
    ASSUME SessionInv, NEW t, NEW i \in Live(t)
    PROVE  /\ i \in Ids /\ ops[i] \in Op /\ OpOK(ops[i])
           /\ ops[i].type = t /\ ops[i].phase # "done"
  BY LenProperties, ElementOfSeq DEF SessionInv, ListInv, Live, Ids

\* connectPrepare() starts anew or with what is there.
LEMMA ConnectPrepareKeeps ==
    ASSUME SessionInv, NEW useAuth \in BOOLEAN, connectPrepare(useAuth)
    PROVE  SessionInv'
<1> DEFINE s == IF ~initialized THEN Terminated(TRUE) ELSE ops
<1>1. ListInv(ops) /\ ops \in Seq(Op) /\ Ids = 1 .. Len(ops) /\ Len(ops) \in Nat
  BY LenProperties DEF SessionInv, ListInv, Ids
<1>2. /\ ListInv(s) /\ Len(s) = Len(ops) /\ DOMAIN s = 1 .. Len(ops)
      /\ \A i \in 1 .. Len(ops) : Advance(ops[i], s[i])
      /\ ~initialized => \A i \in 1 .. Len(ops) :
                            s[i].type # "publish" => s[i].phase = "done"
      /\ initialized => s = ops
  <2>1. \A i \in 1 .. Len(ops) : Advance(ops[i], ops[i])
    BY <1>1, ElementOfSeq DEF ListInv, Advance
  <2>2. \A i \in 1 .. Len(ops) : Terminated(TRUE)[i].type = ops[i].type
    BY <1>1, TerminatedEnds DEF Advance
  <2>3. ListInv(s) /\ Len(s) = Len(ops)
    BY <1>1, TerminatedEnds
  <2>4. DOMAIN s = 1 .. Len(ops)
    BY <2>3, LenProperties DEF ListInv
  <2> QED
    BY <1>1, <2>1, <2>2, <2>3, <2>4, TerminatedEnds
<1>3. Flags'
  BY DEF SessionInv, Flags, connectPrepare
<1>4. /\ connected' = (connected /\ initialized) /\ initialized' = TRUE
      /\ disconnecting' = (disconnecting /\ initialized)
      /\ appConnected' = appConnected
  BY DEF connectPrepare
<1>5. connected' = connected /\ (connected => initialized /\ ~disconnecting)
  BY <1>4 DEF SessionInv, Flags
<1>6. \/ ops' = s /\ locked' = locked /\ misopened' = misopened
      \/ /\ ops' = Append(s, NewOp("connect")) /\ locked' = TRUE /\ ~locked
         /\ misopened' = (misopened /\ Prepared(s) # {})
         /\ ~connected \/ ~initialized
         /\ initialized => Live("connect") = {}
  BY DEF connectPrepare
<1> HIDE DEF s
<1>7. CASE ops' = s /\ locked' = locked /\ misopened' = misopened
  <2>1. PreparedInv' /\ Ids' = Ids
    BY <1>2, <1>7, PreparedAdvances
  <2>2. connected => \A i \in Ids : ops'[i].type = "connect" => ops'[i].phase = "done"
    BY <1>2, <1>5, <1>7 DEF SessionInv
  <2> QED
    BY <1>2, <1>3, <1>4, <1>5, <1>7, <2>1, <2>2 DEF SessionInv
<1>8. CASE /\ ops' = Append(s, NewOp("connect")) /\ locked' = TRUE /\ ~locked
           /\ misopened' = (misopened /\ Prepared(s) # {})
           /\ ~connected \/ ~initialized
           /\ initialized => Live("connect") = {}
  <2>1. ~misopened' => \A i \in 1 .. Len(s) : s[i].phase # "prepared"
    BY <1>1, <1>2, <1>8 DEF SessionInv, PreparedInv, Prepared, Advance
  <2>2. \A i \in 1 .. Len(s) : s[i].type = "connect" => s[i].phase = "done"
    BY <1>1, <1>2, <1>8 DEF Live
  <2>3. Len(s) < MaxOps
    BY <1>2 DEF connectPrepare
  <2>4. /\ ListInv(ops') /\ Len(ops') = Len(s) + 1
        /\ \A i \in 1 .. Len(s) : ops'[i] = s[i]
    BY <1>2, <1>8, <2>2, <2>3, NewIsAppended DEF Types
  <2>5. Ids' = 1 .. Len(s) + 1
    BY <2>4, LenProperties DEF Ids, ListInv
  <2>6. PreparedInv'
    BY <1>1, <1>2, <1>8, <2>1, <2>4, <2>5 DEF PreparedInv
  <2> QED
    BY <1>3, <1>4, <1>5, <1>8, <2>4, <2>6 DEF SessionInv
<1> QED
  BY <1>6, <1>7, <1>8

\* The other preparations.
LEMMA PrepareKeeps ==
    ASSUME SessionInv, NEW t \in Types \ {"connect"}, prepare(t),
           t \in Single => Live(t) = {}
    PROVE  SessionInv'
<1>1. ListInv(ops) /\ ops \in Seq(Op) /\ Ids = 1 .. Len(ops) /\ Len(ops) \in Nat
  BY LenProperties DEF SessionInv, ListInv, Ids
<1>2. /\ Len(ops) < MaxOps /\ ops' = Append(ops, NewOp(t)) /\ ~locked /\ locked' = TRUE
      /\ connected /\ misopened' = (misopened /\ Prepared(ops) # {})
      /\ UNCHANGED <<initialized, connected, disconnecting, appConnected>>
  BY DEF prepare
<1>3. ~misopened' => \A i \in 1 .. Len(ops) : ops[i].phase # "prepared"
  BY <1>1, <1>2 DEF SessionInv, PreparedInv, Prepared, Ids
<1>4. t \in Single => \A i \in 1 .. Len(ops) : ops[i].type = t => ops[i].phase = "done"
  BY <1>1 DEF Live
<1>5. /\ ListInv(ops') /\ Len(ops') = Len(ops) + 1
      /\ \A i \in 1 .. Len(ops) : ops'[i] = ops[i]
      /\ ops'[Len(ops) + 1] = NewOp(t)
  BY <1>1, <1>2, <1>4, NewIsAppended
<1>6. Ids' = 1 .. Len(ops) + 1
  BY <1>1, <1>5, LenProperties DEF Ids, ListInv
<1>7. \A i \in Ids' : i \in Ids \/ (i = Len(ops) + 1 /\ ops'[i].type # "connect")
  BY <1>1, <1>5, <1>6 DEF NewOp
<1>8. Flags'
  BY DEF SessionInv, Flags, prepare
<1>9. PreparedInv'
  BY <1>1, <1>2, <1>3, <1>5, <1>6 DEF PreparedInv
<1> QED
  BY <1>1, <1>2, <1>5, <1>7, <1>8, <1>9 DEF SessionInv

\* send()
LEMMA SendKeeps ==
    ASSUME SessionInv, NEW t \in Types, NEW i, NEW fits \in BOOLEAN, NEW withCb \in BOOLEAN,
           send(t, i, fits, withCb)
    PROVE  SessionInv'
<1>1. i \in Ids /\ ops[i] \in Op /\ OpOK(ops[i]) /\ ops[i].phase = "prepared"
  BY LiveOp DEF send, Sent, Op
<1>2. Flags'
  BY <1>1 DEF SessionInv, Flags, send, Op
<1>3. CASE fits
  <2> DEFINE op == [ops[i] EXCEPT !.phase = "sent", !.callback = withCb,
                                  !.timer = t # "publish"]
  <2>1. ops' = [ops EXCEPT ![i] = op]
    BY <1>1, <1>3 DEF send
  <2>2. Advance(ops[i], op) /\ op.phase # "prepared"
    BY <1>1, WaitAdvances DEF Op
  <2> HIDE DEF op
  <2> QED
    BY <1>1, <1>2, <2>1, <2>2, OneStepKeeps DEF send
<1>4. CASE ~fits
  <2>1. ops' = [ops EXCEPT ![i] = Dropped(ops[i])]
    BY <1>1, <1>4 DEF send
  <2>2. Advance(ops[i], Dropped(ops[i])) /\ Dropped(ops[i]).phase # "prepared"
    BY <1>1, EndAdvances
  <2> QED
    BY <1>1, <1>2, <2>1, <2>2, OneStepKeeps DEF send
<1> QED
  BY <1>3, <1>4

\* An operation ends with its callback and nothing else changes but messages and
\* the authentication flag.
LEMMA CompletionKeeps ==
    ASSUME SessionInv, NEW i \in Ids, ops[i].phase # "done",
           ops' = [ops EXCEPT ![i] = Completed(@)], Flags',
           UNCHANGED <<initialized, connected, disconnecting, locked, appConnected, misopened>>
    PROVE  SessionInv'
<1>1. ops[i] \in Op /\ OpOK(ops[i])
  BY LenProperties, ElementOfSeq DEF SessionInv, ListInv, Ids
<1>2. Advance(ops[i], Completed(ops[i]))
  BY <1>1, EndAdvances
<1> QED
  BY <1>2, OneStepKeeps

\* An operation goes on waiting, with its timer restarted.
LEMMA WaitKeeps ==
    ASSUME SessionInv, NEW i \in Ids, ops[i].phase = "sent",
           ops' = [ops EXCEPT ![i] = Timed(@)], Flags',
           UNCHANGED <<initialized, connected, disconnecting, locked, appConnected, misopened>>
    PROVE  SessionInv'
<1>1. ops[i] \in Op /\ OpOK(ops[i])
  BY LenProperties, ElementOfSeq DEF SessionInv, ListInv, Ids
<1>2. Advance(ops[i], Timed(ops[i]))
  BY <1>1, WaitAdvances
<1> QED
  BY <1>2, OneStepKeeps

\* cancel()
LEMMA CancelKeeps ==
    ASSUME SessionInv, NEW i, cancel(i)
    PROVE  SessionInv'
<1> DEFINE op == [Dropped(ops[i]) EXCEPT !.cancelled = TRUE]
<1>1. i \in Ids /\ ops[i] \in Op /\ OpOK(ops[i]) /\ ops[i].phase # "done"
  BY LenProperties, ElementOfSeq DEF SessionInv, ListInv, Ids, cancel
<1>2. Flags'
  BY DEF SessionInv, Flags, cancel, lockedAfter
<1>3. Advance(ops[i], op) /\ op.phase # "prepared"
  BY <1>1, EndAdvances
<1>4. ops' = [ops EXCEPT ![i] = op]
  BY DEF cancel
<1>5. ~misopened' => /\ ~misopened
                     /\ \/ locked' = locked
                        \/ ops[i].phase = "prepared"
                        \/ \A j \in Ids \ {i} : ops[j].phase # "prepared"
  <2>1. misopened' = (misopened \/ (/\ Prepared(ops) \ {i} # {}
                                    /\ ops[i].phase = "sent" /\ ~ops[i].callback))
    BY DEF cancel
  <2>2. ops[i].callback => locked' = locked
    BY DEF cancel, lockedAfter, SessionInv, Flags
  <2> QED
    BY <1>1, <2>1, <2>2 DEF Op, Prepared, Ids
<1> HIDE DEF op
<1> QED
  BY <1>1, <1>2, <1>3, <1>4, <1>5, OneStepKeeps DEF cancel

\* CONNACK: only the "connect" operation that is accepted makes a connection, and
\* then it was the last one.
LEMMA ConnackKeeps ==
    ASSUME SessionInv, NEW i, NEW result \in Results,
           handleConnack(i, result)
    PROVE  SessionInv'
<1>1. /\ i \in Ids /\ ops[i] \in Op /\ OpOK(ops[i])
      /\ ops[i].type = "connect" /\ ops[i].phase = "sent"
  BY LiveOp DEF handleConnack, Sent
<1>2. Flags'
  BY DEF SessionInv, Flags, handleConnack
<1>3. CASE result \in {"refused", "bad"}
  BY <1>1, <1>2, <1>3, CompletionKeeps DEF handleConnack
<1>4. CASE result \in {"resumed", "accepted"}
  <2>1. ListInv(ops) /\ ops \in Seq(Op) /\ Ids = 1 .. Len(ops) /\ Len(ops) \in Nat
    BY LenProperties DEF SessionInv, ListInv, Ids
  <2>2. Advance(ops[i], Completed(ops[i])) /\ Completed(ops[i]).phase = "done"
    BY <1>1, EndAdvances
  <2>3. ops' = [j \in Ids |-> IF j = i THEN Completed(ops[j])
                              ELSE IF result = "accepted" THEN Aborted(ops[j]) ELSE ops[j]]
    BY <1>4 DEF handleConnack
  <2>4. \A j \in 1 .. Len(ops) : ops[j] \in Op /\ OpOK(ops[j])
    BY <2>1, ElementOfSeq DEF ListInv
  <2>5. \A j \in 1 .. Len(ops) : Advance(ops[j], ops'[j])
    BY <2>1, <2>2, <2>3, <2>4, AbortAdvances
  <2>6. ops' \in Seq(Op) /\ Len(ops') = Len(ops)
    <3>1. ops' \in [1 .. Len(ops) -> Op]
      BY <2>1, <2>3, <2>5 DEF Advance
    <3> QED
      BY <2>1, <3>1
  <2>7. ListInv(ops')
    BY <2>1, <2>5, <2>6, ListAdvances
  <2>8. /\ UNCHANGED <<initialized, disconnecting, locked, misopened>>
        /\ connected' = TRUE /\ appConnected' = TRUE
    BY <1>4 DEF handleConnack
  <2>9. PreparedInv' /\ Ids' = Ids
    BY <2>5, <2>6, <2>7, <2>8, PreparedAdvances
  <2>10. \A j \in Ids : ops'[j].type = "connect" => ops'[j].phase = "done"
    <3>1. \A j \in Ids : ops[j].type = "connect" /\ j # i => ops[j].phase = "done"
      BY <1>1, <2>1 DEF ListInv, Single
    <3> QED
      BY <2>1, <2>2, <2>3, <2>5, <3>1 DEF Advance
  <2>11. initialized /\ ~disconnecting
    BY <1>1 DEF SessionInv, handleConnack, Receiving
  <2> QED
    BY <1>2, <2>7, <2>8, <2>9, <2>10, <2>11 DEF SessionInv
<1> QED
  BY <1>3, <1>4 DEF Results

\* AUTH during a "connect".
LEMMA ConnectAuthKeeps ==
    ASSUME SessionInv, NEW i, NEW good \in BOOLEAN, NEW refused \in BOOLEAN,
           handleConnectAuth(i, good, refused)
    PROVE  SessionInv'
<1>1. i \in Ids /\ ops[i] \in Op /\ OpOK(ops[i]) /\ ops[i].phase = "sent"
  BY LiveOp DEF handleConnectAuth, Sent
<1>2. Flags'
  BY DEF SessionInv, Flags, handleConnectAuth
<1>3. UNCHANGED <<initialized, connected, disconnecting, locked, appConnected, misopened>>
  BY DEF handleConnectAuth
<1>4. CASE ops' = [ops EXCEPT ![i] = Completed(@)]
  BY <1>1, <1>2, <1>3, <1>4, CompletionKeeps
<1>5. CASE ops' = [ops EXCEPT ![i] = Timed(@)]
  BY <1>1, <1>2, <1>3, <1>5, WaitKeeps
<1>6. CASE ops' = [ops EXCEPT ![i].timer = FALSE, ![i].refusedAuth = TRUE]
  <2> DEFINE op == [ops[i] EXCEPT !.timer = FALSE, !.refusedAuth = TRUE]
  <2>1. ops' = [ops EXCEPT ![i] = op]
    BY <1>1, <1>6
  <2>2. Advance(ops[i], op)
    BY <1>1, WaitAdvances
  <2> HIDE DEF op
  <2> QED
    BY <1>1, <1>2, <1>3, <2>1, <2>2, OneStepKeeps
<1> QED
  BY <1>4, <1>5, <1>6 DEF handleConnectAuth

\* A step that ends the connection for a reason of the client.
LEMMA TerminationKeeps ==
    ASSUME SessionInv, NEW reason, reason # ValuesLimit, Termination(reason)
    PROVE  SessionInv'
<1>1. Flags' /\ locked' = locked
  BY DEF SessionInv, Flags, Termination, BrokerDisconnected, Told
<1> QED
  BY <1>1, DisconnectionKeeps DEF Termination

\* The end of the session at the client.
LEMMA ExpiryKeeps ==
    ASSUME SessionInv, sessionExpiryTimeout
    PROVE  SessionInv'
<1>1. ListInv(ops) /\ ops \in Seq(Op) /\ Ids = 1 .. Len(ops) /\ Len(ops) \in Nat
  BY LenProperties DEF SessionInv, ListInv, Ids
<1>2. \A j \in 1 .. Len(ops) : ops[j] \in Op /\ OpOK(ops[j])
  BY <1>1, ElementOfSeq DEF ListInv
<1>3. ops' = [j \in Ids |-> Aborted(ops[j])]
  BY DEF sessionExpiryTimeout
<1>4. \A j \in 1 .. Len(ops) : Advance(ops[j], ops'[j])
  BY <1>1, <1>2, <1>3, AbortAdvances
<1>5. ops' \in Seq(Op) /\ Len(ops') = Len(ops)
  <2>1. ops' \in [1 .. Len(ops) -> Op]
    BY <1>1, <1>3, <1>4 DEF Advance
  <2> QED
    BY <1>1, <2>1
<1>6. ListInv(ops')
  BY <1>1, <1>4, <1>5, ListAdvances
<1>7. Flags' /\ UNCHANGED <<initialized, connected, disconnecting, locked, appConnected,
                            misopened>>
  BY DEF SessionInv, Flags, sessionExpiryTimeout
<1>8. PreparedInv' /\ Ids' = Ids
  BY <1>4, <1>5, <1>6, <1>7, PreparedAdvances
<1>9. \A j \in Ids : /\ ops'[j].phase # "done" => ops[j].phase # "done"
                     /\ ops'[j].type = ops[j].type
  BY <1>1, <1>4 DEF Advance
<1> QED
  BY <1>6, <1>7, <1>8, <1>9 DEF SessionInv

------------------------------------------------------------------------------
(* The specification. *)

\* The invariant holds at the start.
LEMMA SessionInit == Init => SessionInv
<1> SUFFICES ASSUME Init PROVE SessionInv
  OBVIOUS
<1>1. ops \in Seq(Op) /\ Len(ops) = 0
  BY EmptySeq DEF Init
<1>2. Flags
  BY DEF Init, Flags
<1>3. ListInv(ops)
  BY <1>1, SessionAssumption DEF ListInv, SessionAssumption
<1>4. Ids = {} /\ PreparedInv
  BY <1>1, LenProperties DEF Ids, PreparedInv
<1>5. connected = FALSE /\ appConnected = FALSE
  BY DEF Init
<1> QED
  BY <1>2, <1>3, <1>4, <1>5 DEF SessionInv

\* Every step keeps it.
LEMMA SessionStep == SessionInv /\ [Next]_vars => SessionInv'
<1> SUFFICES ASSUME SessionInv, [Next]_vars PROVE SessionInv'
  OBVIOUS
<1>1. ASSUME NEW useAuth \in BOOLEAN, connectPrepare(useAuth) PROVE SessionInv'
  BY <1>1, ConnectPrepareKeeps
<1>2. ASSUME \/ subscribePrepare \/ unsubscribePrepare \/ disconnectPrepare
             \/ reauthPrepare \/ publishPrepare
      PROVE  SessionInv'
  BY <1>2, PrepareKeeps
  DEF subscribePrepare, unsubscribePrepare, disconnectPrepare, reauthPrepare,
      publishPrepare, Types, Single
<1>3. ASSUME NEW i, NEW fits \in BOOLEAN, NEW withCb \in BOOLEAN,
             \/ connect(i, fits) \/ subscribe(i, fits) \/ unsubscribe(i, fits)
             \/ reauth(i, fits) \/ publish(i, fits, withCb)
      PROVE  SessionInv'
  BY <1>3, SendKeeps DEF connect, subscribe, unsubscribe, reauth, publish, Types
<1>4. ASSUME NEW i, disconnect(i) PROVE SessionInv'
  <2>1. Flags'
    BY <1>4 DEF SessionInv, Flags, disconnect, BrokerDisconnected, Told
  <2>2. locked' = locked \/ \E j \in Ids : ops[j].phase = "prepared" /\ ops[j].type = "disconnect"
    <3>1. i \in Ids /\ ops[i].type = "disconnect" /\ ops[i].phase = "prepared"
      BY <1>4, LiveOp DEF disconnect, Sent, Op
    <3> QED
      BY <1>4, <3>1 DEF disconnect
  <2> QED
    BY <1>4, <2>1, <2>2, DisconnectionKeeps DEF disconnect
<1>5. ASSUME NEW i, cancel(i) PROVE SessionInv'
  BY <1>5, CancelKeeps
<1>6. ASSUME NEW i, NEW result \in Results,
             handleConnack(i, result)
      PROVE  SessionInv'
  BY <1>6, ConnackKeeps
<1>7. ASSUME NEW i, NEW good \in BOOLEAN, NEW refused \in BOOLEAN,
             handleConnectAuth(i, good, refused)
      PROVE  SessionInv'
  BY <1>7, ConnectAuthKeeps
<1>8. ASSUME NEW t, NEW i, NEW good \in BOOLEAN, handleAck(t, i, good)
      PROVE  SessionInv'
  <2>1. CASE ~good
    BY <1>8, <2>1, TerminationKeeps DEF handleAck, ValuesLimit
  <2>2. CASE good
    <3>1. i \in Ids /\ ops[i].phase # "done"
      BY <1>8, LiveOp DEF handleAck, Sent
    <3>2. Flags'
      BY <1>8, <2>2 DEF SessionInv, Flags, handleAck
    <3> QED
      BY <1>8, <2>2, <3>1, <3>2, CompletionKeeps DEF handleAck
  <2> QED
    BY <2>1, <2>2
<1>9. ASSUME NEW i, NEW result \in {"complete", "continue", "bad", "refused"},
             handleReauth(i, result)
      PROVE  SessionInv'
  <2>1. CASE result \in {"bad", "refused"}
    BY <1>9, <2>1, TerminationKeeps DEF handleReauth, ValuesLimit
  <2>2. CASE result \in {"complete", "continue"}
    <3>1. i \in Ids /\ ops[i].phase = "sent"
      BY <1>9, LiveOp DEF handleReauth, Sent
    <3>2. Flags'
      BY <1>9, <2>2 DEF SessionInv, Flags, handleReauth
    <3>3. /\ \/ ops' = [ops EXCEPT ![i] = Completed(@)]
             \/ ops' = [ops EXCEPT ![i] = Timed(@)]
          /\ UNCHANGED <<initialized, connected, disconnecting, locked, appConnected, misopened>>
      BY <1>9, <2>2 DEF handleReauth
    <3> QED
      BY <3>1, <3>2, <3>3, CompletionKeeps, WaitKeeps
  <2> QED
    BY <2>1, <2>2
<1>10. ASSUME NEW i, opTimeout(i) PROVE SessionInv'
  <2>1. i \in Ids /\ ops[i].phase # "done"
    BY <1>10, LenProperties DEF SessionInv, ListInv, OpOK, Ids, opTimeout
  <2>2. Flags'
    BY <1>10 DEF SessionInv, Flags, opTimeout
  <2> QED
    BY <1>10, <2>1, <2>2, CompletionKeeps DEF opTimeout
<1>11. ASSUME notifyNetworkDisconnected PROVE SessionInv'
  <2>1. Flags'
    BY <1>11
    DEF SessionInv, Flags, notifyNetworkDisconnected, BrokerDisconnected, Told
  <2>2. CASE BrokerDisconnected(ValuesLimit, TRUE)
    BY <1>11, <2>1, <2>2, DisconnectionKeeps DEF notifyNetworkDisconnected
  <2>3. CASE UNCHANGED <<initialized, connected, disconnecting, ops, appConnected, misopened>>
    BY <1>11, <2>1, <2>3 DEF notifyNetworkDisconnected, SessionInv, PreparedInv, Ids
  <2> QED
    BY <1>11, <2>2, <2>3 DEF notifyNetworkDisconnected
<1>12. ASSUME NEW good \in BOOLEAN, handleDisconnect(good) PROVE SessionInv'
  <2>1. Flags'
    BY <1>12 DEF SessionInv, Flags, handleDisconnect, BrokerDisconnected, Told
  <2> QED
    BY <1>12, <2>1, DisconnectionKeeps DEF handleDisconnect, ValuesLimit
<1>13. ASSUME processMalformed \/ pingTimeout PROVE SessionInv'
  BY <1>13, TerminationKeeps DEF processMalformed, pingTimeout, ValuesLimit
<1>14. ASSUME UNCHANGED vars PROVE SessionInv'
  BY <1>14 DEF vars, SessionInv, PreparedInv, Flags, Ids
<1>15. ASSUME NEW i, publishEnds(i) PROVE SessionInv'
  <2>1. i \in Ids /\ ops[i].phase # "done"
    BY <1>15, LiveOp DEF publishEnds, Sent
  <2>2. Flags'
    BY <1>15 DEF SessionInv, Flags, publishEnds
  <2> QED
    BY <1>15, <2>1, <2>2, CompletionKeeps DEF publishEnds
<1> QED
  BY <1>1, <1>2, <1>3, <1>4, <1>5, <1>6, <1>7, <1>8, <1>9, <1>10, <1>11, <1>12,
     <1>13, <1>14, <1>15, ExpiryKeeps
  DEF Next, handleSuback, handleUnsuback

\* The inductive invariant of the session.
LEMMA SessionInductive == Spec => []SessionInv
  BY SessionInit, SessionStep, PTL DEF Spec

\* The variables keep their types, and timers run for operations that wait.
THEOREM SessionTypeCorrect == Spec => []TypeOK
<1>1. SessionInv => TypeOK
  BY LenProperties DEF SessionInv, Flags, ListInv, OpOK, TypeOK, Ids
<1> QED
  BY <1>1, SessionInductive, PTL

\* Every operation that was sent with a callback and not cancelled is reported
\* once, no other is,
\* in whatever order answers, timeouts, cancellations and disconnections meet.
THEOREM EachReportedOnce == Spec => []ReportedOnce
<1>1. SessionInv => ReportedOnce
  BY LenProperties DEF SessionInv, ListInv, OpOK, ReportedOnce, Ids
<1> QED
  BY <1>1, SessionInductive, PTL

\* What the application was told of the connection is true, whoever ends it and
\* for whatever reason.
THEOREM ConnectionKnown == Spec => []ConnectionReported
<1>1. SessionInv => ConnectionReported
  BY DEF SessionInv, ConnectionReported
<1> QED
  BY <1>1, SessionInductive, PTL

\* A set of indices without two different ones has at most one.
LEMMA AtMostOne ==
    ASSUME NEW S, \A i, j \in S : i = j
    PROVE  Cardinality(S) <= 1
<1>1. CASE S = {}
  BY <1>1, FS_EmptySet
<1>2. ASSUME NEW i \in S PROVE Cardinality(S) <= 1
  <2>1. S = {i}
    OBVIOUS
  <2>2. Cardinality({i}) = 1
    BY FS_Singleton
  <2> QED
    BY <2>1, <2>2
<1> QED
  BY <1>1, <1>2

\* One operation is prepared at a time, unless the lock was opened by the cancel()
\* of a publish sent without callback; one "connect", "disconnect" or "reauth"
\* exists, and no "connect" outlives the connection it made.
THEOREM PreparedOneAtATime == Spec => []OneAtATime
<1>1. ASSUME SessionInv PROVE OneAtATime
  <2>1. ListInv(ops) /\ Ids = 1 .. Len(ops)
    BY <1>1, LenProperties DEF SessionInv, ListInv, Ids
  <2>2. misopened \/ Cardinality(Prepared(ops)) <= 1
    BY <1>1, AtMostOne DEF SessionInv, PreparedInv, Prepared, Ids
  <2>3. ASSUME NEW t \in Single PROVE Cardinality(Live(t)) <= 1
    <3>1. \A i, j \in Live(t) : i = j
      BY <2>1 DEF ListInv, Live
    <3> QED
      BY <3>1, AtMostOne
  <2>4. connected => Live("connect") = {} /\ ~disconnecting /\ initialized
    BY <1>1 DEF SessionInv, Live
  <2> QED
    BY <2>2, <2>3, <2>4 DEF OneAtATime, Single
<1> QED
  BY <1>1, SessionInductive, PTL
==============================================================================
