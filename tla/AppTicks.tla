------------------------------ MODULE AppTicks ------------------------------
(***************************************************************************)
(* The timers of the library (TimerMgr) driven by time: the guards around    *)
(* its calls that cancel and program the wait for the next tick              *)
(* (client/lib/src/ClientImpl.cpp), and the wait the applications make of it *)
(* (client/app/common/AppClient.cpp).                                        *)
(*                                                                           *)
(* The event loop of the applications runs one handler at a time.  The       *)
(* handler of a wait that has expired is queued behind others and cannot be  *)
(* called back.  No time passes while it is queued.                          *)
(***************************************************************************)
EXTENDS TimerMgr

CONSTANT
    MaxSince        \* bound: time without a tick is not told apart beyond it

ASSUME AppTicksAssumption == MaxSince \in Nat /\ \A ms \in Timeouts : ms < MaxSince

VARIABLES
    guarded,        \* m_apiEnterCount > 0
    pending,        \* the wait m_timer runs for: its duration and what is left
    since,          \* the time since m_lastWaitProgram
    queued,         \* the durations of expired waits with their handlers queued
    misled          \* history: owners of running timers that were charged with
                    \* time before they were armed, or with the same time twice

vars == <<timerVars, guarded, pending, since, queued, misled>>

NoWait == [duration |-> 0, left |-> 0]

Init ==
    /\ TimerInit
    /\ guarded = FALSE
    /\ pending = NoWait /\ since = 0 /\ queued = <<>>
    /\ misled = {}

RunningOwners == {o \in Alive : Running(slot[o])}

------------------------------------------------------------------------------
(* Time and the event loop. *)

\* One unit of time passes outside of the library.
Elapse ==
    /\ ~guarded /\ queued = <<>>
    /\ since' = Min({since + 1, MaxSince})
    /\ waited' = [o \in Owners |->
                    IF o \in RunningOwners THEN Min({waited[o] + 1, MaxSince})
                                           ELSE waited[o]]
    /\ IF pending.left = 1
       THEN queued' = <<pending.duration>> /\ pending' = NoWait
       ELSE /\ pending' = IF pending = NoWait THEN NoWait ELSE [pending EXCEPT !.left = @ - 1]
            /\ UNCHANGED queued
    /\ UNCHANGED <<timers, allocatedTimers, slot, created, cbList, asked, guarded,
                   misled>>

\* The handler of nextTickProgramInternal(): cc_mqtt5_client_tick() with the
\* duration that was programmed.  The time was reported already when a call of
\* the library came between (pending is a later one, or none was needed).
HandleWait ==
    /\ ~guarded /\ queued # <<>>
    /\ guarded' = TRUE
    /\ tick(Head(queued))
    /\ queued' = Tail(queued)
    /\ misled' = IF since = Head(queued) THEN misled ELSE misled \cup RunningOwners
    /\ UNCHANGED <<pending, since>>

------------------------------------------------------------------------------
(* The guards around the calls of the library. *)

\* cancelNextTickWaitInternal() stops the wait and tells the time since it was
\* programmed.  Handlers that are queued stay.
cancelNextTickWait == pending' = NoWait

doApiEnter ==
    /\ ~guarded
    /\ guarded' = TRUE
    /\ IF getMinWait = 0 THEN UNCHANGED <<timerVars, pending>>
       ELSE cancelNextTickWait /\ tick(since)
    /\ UNCHANGED <<since, queued, misled>>

\* Mutant: m_lastWaitProgram is set by the first wait only.
sinceKept == IF pending = NoWait THEN 0 ELSE since

\* m_lastWaitProgram = Clock::now()
sinceProgrammed == 0

\* nextTickProgramInternal(): expires_after() replaces the wait.
nextTickProgram(duration) ==
    /\ pending' = [duration |-> duration, left |-> duration]
    /\ since' = sinceProgrammed

doApiExit ==
    /\ guarded /\ cbList = <<>>
    /\ guarded' = FALSE
    /\ IF getMinWait = 0 THEN UNCHANGED <<pending, since>>
       ELSE nextTickProgram(getMinWait)
    /\ UNCHANGED <<timerVars, queued, misled>>

\* What the operations of the library do to their timers.
InCall ==
    /\ guarded
    /\ \/ \E o \in Owners :
             \/ \E ms \in Timeouts : wait(o, ms) /\ misled' = misled \ {o}
             \/ cancel(o) /\ UNCHANGED misled
             \/ \E suspended \in BOOLEAN :
                   setSuspended(o, suspended) /\ UNCHANGED misled
             \/ free(o) /\ UNCHANGED misled
       \/ \E ms \in Timeouts :
             /\ callback(ms)
             /\ misled' = misled \cap {o \in Alive : Armed(slot[o])}
    /\ UNCHANGED <<guarded, pending, since, queued>>

\* publishPrepare() and the like make operations without a guard.
Prepare ==
    /\ ~guarded
    /\ allocTimer
    /\ UNCHANGED <<guarded, pending, since, queued, misled>>

\* SendOp::cancel() has no guard: the operation ends, and the next one that was
\* paused is transmitted and arms its timer, if there is one.
CancelSend(o, resumed, ms) ==
    /\ ~guarded
    /\ o \in Alive /\ o \notin Ping \cup Resp
    /\ resumed \subseteq Alive \ ({o} \cup Ping \cup Resp)
    /\ \A p \in resumed : ~Armed(slot[p])
    /\ End({o}, resumed, ms)
    /\ misled' = misled \cup resumed
    /\ UNCHANGED <<created, cbList, guarded, pending, since, queued>>

Next ==
    \/ Elapse
    \/ HandleWait
    \/ doApiEnter
    \/ doApiExit
    \/ InCall
    \/ Prepare
    \/ \E o \in Owners, ms \in Timeouts :
          \E resumed \in {{}} \cup {{p} : p \in Owners} : CancelSend(o, resumed, ms)

Spec == Init /\ [][Next]_vars

------------------------------------------------------------------------------
(* Correctness. *)

\* What is left to wait is the timeout asked for less the time that has really
\* passed, the part not reported yet left out: through slots that are reused,
\* suspensions, restarts, calls at any time and waits that are replaced.  A
\* timer armed by a cancelled publish and timers that run while the handler of a
\* wait that was already reported is queued are charged too much.
TimeLeftExact ==
    \A o \in Alive \ misled :
        Armed(slot[o]) /\ waited[o] < MaxSince =>
            /\ timers[slot[o]].owner = o
            /\ timers[slot[o]].ms + waited[o] =
                   asked[o] + (IF guarded \/ ~Running(slot[o]) THEN 0 ELSE since)

\* No timer is forgotten: between two calls the application waits for a tick,
\* not longer than any timer has left, or has the handler queued; a timer armed
\* by a cancelled publish may be without one.
TickProgrammed ==
    ~guarded => \A o \in RunningOwners \ misled :
        \/ queued # <<>>
        \/ pending # NoWait /\ pending.duration <= timers[slot[o]].ms
==============================================================================
