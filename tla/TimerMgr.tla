------------------------------ MODULE TimerMgr ------------------------------
(***************************************************************************)
(* The timers of the library (client/lib/src/TimerMgr.h and TimerMgr.cpp):   *)
(* slots that are allocated, armed, suspended and reused, one tick that       *)
(* collects the expired ones and then makes their callbacks.  Module AppTicks *)
(* says when these operations are called.                                    *)
(*                                                                           *)
(* An owner is a Timer object of an operation.  Owners are numbered in the   *)
(* order they are created and live once.  A callback runs with the effects   *)
(* operations have on each other's timers: the response timeout of most      *)
(* operations restarts or ends the operation itself; the timers of the keep  *)
(* alive operation send a ping, which restarts the ping timer and arms the   *)
(* one for the response (Ping), or end all operations of a session that is   *)
(* not kept (Resp).                                                          *)
(***************************************************************************)
EXTENDS Integers, Sequences, FiniteSets, FiniteSetsExt, SequencesExt

CONSTANTS
    MaxOwners,      \* bound: owners created in a run
    TimersLimit,    \* ExtConfig::TimersLimit
    Timeouts,       \* timeouts owners wait for
    Ping,           \* m_pingTimer of the keep alive operation, if it is there
    Resp            \* its m_respTimer

Owners == 1 .. MaxOwners

ASSUME TimerMgrAssumption ==
    /\ MaxOwners \in Nat /\ TimersLimit \in Nat
    /\ Timeouts \subseteq Nat \ {0}
    /\ Ping \subseteq Owners /\ Resp \subseteq Owners

VARIABLES
    timers,         \* m_timers
    allocatedTimers,\* m_allocatedTimers
    slot,           \* the slot of every owner, 0 for an owner without one
    created,        \* owners created so far
    cbList,         \* the callbacks left to make by the tick in progress
    asked,          \* history: the timeout an owner waits for
    waited          \* history: the time it has waited, suspensions left out

timerVars == <<timers, allocatedTimers, slot, created, cbList, asked, waited>>

TimerInfo == [allocated |-> FALSE, owner |-> 0, ms |-> 0, suspended |-> FALSE]
Indices == DOMAIN timers
Alive == {o \in Owners : slot[o] # 0}
Armed(i) == timers[i].owner # 0             \* m_timeoutCb != nullptr
Running(i) == timers[i].allocated /\ Armed(i) /\ ~timers[i].suspended

TimerInit ==
    /\ timers = <<>>
    /\ allocatedTimers = 0
    /\ slot = [o \in Owners |-> 0]
    /\ created = 0
    /\ cbList = <<>>
    /\ asked = [o \in Owners |-> 0] /\ waited = [o \in Owners |-> 0]

------------------------------------------------------------------------------
Unused == {i \in Indices : ~timers[i].allocated}

\* Mutant: one slot too many.
storageFullLate == TimersLimit < Len(timers)

storageFull == TimersLimit <= Len(timers)

\* allocTimer(): the first unused slot, then a new one.  A failure leaves the
\* owner without a timer.
allocTimer ==
    LET o == created + 1
        fresh == [TimerInfo EXCEPT !.allocated = TRUE]
    IN  /\ o \in Owners
        /\ created' = o
        /\ IF allocatedTimers < Len(timers) /\ Unused # {}
           THEN LET i == Min(Unused)
                IN  /\ timers' = [timers EXCEPT ![i].allocated = TRUE]
                    /\ slot' = [slot EXCEPT ![o] = i]
                    /\ allocatedTimers' = allocatedTimers + 1
           ELSE IF storageFull
           THEN UNCHANGED <<timers, slot, allocatedTimers>>
           ELSE /\ timers' = Append(timers, fresh)
                /\ slot' = [slot EXCEPT ![o] = Len(timers) + 1]
                /\ allocatedTimers' = allocatedTimers + 1
        /\ UNCHANGED <<cbList, asked, waited>>

\* Mutant: the slot stays allocated.
FreedAllocated(info) == [TimerInfo EXCEPT !.allocated = TRUE]

\* freeTimer(): info = TimerInfo().
Freed(info) == TimerInfo

\* timerWait(): the time and the callback; a suspension stays.
Waiting(info, o, ms) == [info EXCEPT !.owner = o, !.ms = ms]

\* timerCancel(): a suspension stays.
Cancelled(info) == [info EXCEPT !.owner = 0, !.ms = 0]

\* The slots after the owners in F ended and the ones in W wait for ms.
Changed(F, W, ms) ==
    [i \in Indices |->
        IF \E o \in F : slot[o] = i THEN Freed(timers[i])
        ELSE IF \E o \in W : slot[o] = i
        THEN Waiting(timers[i], CHOOSE o \in W : slot[o] = i, ms)
        ELSE timers[i]]

End(F, W, ms) ==
    /\ timers' = Changed(F, W, ms)
    /\ slot' = [o \in Owners |-> IF o \in F THEN 0 ELSE slot[o]]
    /\ allocatedTimers' = allocatedTimers - Cardinality(F)
    /\ asked' = [o \in Owners |-> IF o \in W THEN ms ELSE asked[o]]
    /\ waited' = [o \in Owners |-> IF o \in W THEN 0 ELSE waited[o]]

wait(o, ms) ==
    /\ cbList = <<>>
    /\ o \in Alive
    /\ End({}, {o}, ms)
    /\ UNCHANGED <<created, cbList>>

cancel(o) ==
    /\ cbList = <<>>
    /\ o \in Alive
    /\ timers' = [timers EXCEPT ![slot[o]] = Cancelled(@)]
    /\ UNCHANGED <<allocatedTimers, slot, created, cbList, asked, waited>>

\* Timer::setSuspended(): an inactive timer is left alone.
setSuspended(o, suspended) ==
    /\ cbList = <<>>
    /\ o \in Alive /\ Armed(slot[o])
    /\ timers' = [timers EXCEPT ![slot[o]].suspended = suspended]
    /\ UNCHANGED <<allocatedTimers, slot, created, cbList, asked, waited>>

\* The destructor of an operation outside of a tick; the keep alive operation
\* ends with the connection.
free(o) ==
    /\ cbList = <<>>
    /\ o \in Alive
    /\ End(IF o \in Ping \cup Resp THEN Alive ELSE {o}, {}, 0)
    /\ UNCHANGED <<created, cbList>>

\* Mutant: a timer with nothing left to wait for is not expired yet.
expiresLate(i, ms) == timers[i].ms < ms

expires(i, ms) == timers[i].ms <= ms

\* The order in which the loop over m_timers meets the slots S.
Ascending(S) == {s \in SetToSeqs(S) : \A m, n \in DOMAIN s : m < n => s[m] < s[n]}

\* tick(), first loop: expired timers are cancelled and their callbacks kept.
tick(ms) ==
    LET expired == {i \in Indices : Running(i) /\ expires(i, ms)}
    IN  /\ cbList = <<>>
        /\ \E order \in Ascending(expired) :
              cbList' = [n \in DOMAIN order |-> timers[order[n]].owner]
        /\ timers' = [i \in Indices |->
                        IF i \in expired THEN Cancelled(timers[i])
                        ELSE IF Running(i)
                        THEN [timers[i] EXCEPT !.ms = @ - ms]
                        ELSE timers[i]]
        /\ UNCHANGED <<allocatedTimers, slot, created, asked, waited>>

\* KeepAliveOp::sendPing(): nothing while a response is awaited.
pinged == IF \E o \in Resp \cap Alive : Armed(slot[o]) THEN {}
          ELSE (Ping \cup Resp) \cap Alive

\* tick(), second loop: the next callback, restarting with ms what it restarts.
\* The callback of an owner that does not exist any more is undefined: the
\* behaviour stops there.
callback(ms) ==
    LET o == Head(cbList)
    IN  /\ cbList # <<>>
        /\ o \in Alive
        /\ \/ o \in Ping /\ End({}, pinged, ms)
           \/ o \in Resp /\ End(Alive, {}, ms)
           \/ o \notin Ping \cup Resp /\ End({}, {o}, ms)
           \/ o \notin Ping \cup Resp /\ End({o}, {}, ms)
        /\ cbList' = Tail(cbList)
        /\ UNCHANGED created

\* getMinWait(): 0 when no timer runs.
getMinWait ==
    LET left == {timers[i].ms : i \in {j \in Indices : Running(j)}}
    IN  IF allocatedTimers = 0 \/ left = {} THEN 0 ELSE Min(left)

------------------------------------------------------------------------------
(* Correctness. *)

\* The variables keep their types and the slots fit their storage.
TypeOK ==
    /\ timers \in Seq([allocated : BOOLEAN, owner : 0 .. MaxOwners, ms : Nat,
                       suspended : BOOLEAN])
    /\ Len(timers) <= TimersLimit
    /\ slot \in [Owners -> 0 .. Len(timers)]
    /\ created \in 0 .. MaxOwners
    /\ cbList \in Seq(Owners)
    /\ asked \in [Owners -> Nat] /\ waited \in [Owners -> Nat]

\* The counter of allocated timers is the number of allocated slots, one for
\* every owner: the search for an unused slot succeeds when the counter says so
\* (the assertion "Should_not_happen") and the counter never underflows.
CountExact ==
    /\ allocatedTimers = Cardinality({i \in Indices : timers[i].allocated})
    /\ allocatedTimers = Cardinality(Alive)
    /\ \A o, p \in Alive : slot[o] = slot[p] => o = p
==============================================================================
