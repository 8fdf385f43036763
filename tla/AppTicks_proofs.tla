-------------------------- MODULE AppTicks_proofs --------------------------
(***************************************************************************)
(* The timers keep their count and their time, and no running timer is left  *)
(* without a tick, for every number of owners and slots and every timeout.   *)
(***************************************************************************)
EXTENDS AppTicks, SequenceTheorems, FiniteSetTheorems, WellFoundedInduction, TLAPS

------------------------------------------------------------------------------
(* The inductive invariant. *)

Infos == [allocated : BOOLEAN, owner : 0 .. MaxOwners, ms : Nat, suspended : BOOLEAN]

\* Owners and allocated slots are one to one, and a slot is armed only for its
\* owner, with something left to wait of what the owner asked for.
SlotsInv ==
    /\ \A o \in Alive : o <= created /\ timers[slot[o]].allocated
    /\ \A o, p \in Alive : slot[o] = slot[p] => o = p
    /\ \A i \in 1 .. Len(timers) : timers[i].allocated => \E o \in Alive : slot[o] = i
    /\ \A i \in 1 .. Len(timers) : timers[i].owner # 0 =>
          /\ timers[i].owner \in Alive /\ slot[timers[i].owner] = i
          /\ timers[i].ms \in 1 .. asked[timers[i].owner]
    /\ allocatedTimers = Cardinality(Alive)

TimerInv == TypeOK /\ SlotsInv

TicksTypes ==
    /\ guarded \in BOOLEAN /\ since \in 0 .. MaxSince
    /\ queued \in Seq(Nat)
    /\ pending \in [duration : Nat, left : Nat]
    /\ pending = NoWait \/ pending.left \in 1 .. pending.duration

\* The time left of one owner, see TimeLeftExact.
Exact(o) ==
    Armed(slot[o]) /\ waited[o] < MaxSince =>
        timers[slot[o]].ms + waited[o] =
            asked[o] + (IF guarded \/ ~Running(slot[o]) THEN 0 ELSE since)

AllExact == \A o \in Alive \ misled : Exact(o)

TicksInv == TimerInv /\ TicksTypes /\ AllExact /\ TickProgrammed

------------------------------------------------------------------------------
(* Lemmas. *)

\* A set of numbers that is not empty has a least one.
LEMMA MinOf ==
    ASSUME NEW S, S \subseteq Nat, S # {}
    PROVE  Min(S) \in S /\ \A x \in S : Min(S) <= x
<1> DEFINE R == {ss \in Nat \X Nat : ss[1] < ss[2]}
<1>1. R = OpToRel(<, Nat)
  BY Zenon DEF OpToRel
<1>2. IsWellFoundedOn(R, Nat)
  BY <1>1, NatLessThanWellFounded, Zenon
<1>3. PICK x \in S : \A y \in S : <<y, x>> \notin R
  <2> HIDE DEF R
  <2> QED
    BY <1>2, WFMin
<1>4. \A y \in S : x <= y
  <2> SUFFICES ASSUME NEW y \in S, ~(x <= y) PROVE FALSE
    OBVIOUS
  <2>1. <<y, x>> \in R
    OBVIOUS
  <2> QED
    BY <1>3, <2>1
<1> QED
  BY <1>4 DEF Min

\* The constants and the types of the timers.
LEMMA TimerTypes ==
    ASSUME TypeOK
    PROVE  /\ MaxOwners \in Nat /\ TimersLimit \in Nat /\ Timeouts \subseteq Nat \ {0}
           /\ Owners \subseteq Nat /\ 0 \notin Owners /\ Alive \subseteq Owners
           /\ timers \in Seq(Infos) /\ Len(timers) \in Nat
           /\ Indices = 1 .. Len(timers)
           /\ \A i \in 1 .. Len(timers) : timers[i] \in Infos
           /\ \A o \in Alive : slot[o] \in 1 .. Len(timers)
<1>1. MaxOwners \in Nat /\ TimersLimit \in Nat /\ Timeouts \subseteq Nat \ {0}
  BY TimerMgrAssumption DEF TimerMgrAssumption
<1>2. timers \in Seq(Infos)
  BY DEF TypeOK, Infos
<1>3. Len(timers) \in Nat /\ Indices = 1 .. Len(timers)
  BY <1>2, LenProperties DEF Indices
<1>4. \A i \in 1 .. Len(timers) : timers[i] \in Infos
  BY <1>2, ElementOfSeq
<1>5. \A o \in Alive : slot[o] \in 1 .. Len(timers)
  BY <1>3 DEF Alive, TypeOK
<1> QED
  BY <1>1, <1>2, <1>3, <1>4, <1>5 DEF Owners, Alive

\* The owners can be counted.
LEMMA OwnersFinite ==
    \A S : S \subseteq Owners => IsFiniteSet(S) /\ Cardinality(S) \in Nat
<1>1. MaxOwners \in Nat
  BY TimerMgrAssumption DEF TimerMgrAssumption
<1>2. IsFiniteSet(Owners)
  BY <1>1, FS_Interval DEF Owners
<1> QED
  BY <1>2, FS_Subset, FS_CardinalityType

\* A running timer of an owner runs for that owner.
LEMMA ArmedFor ==
    ASSUME TimerInv, NEW o \in Alive, Armed(slot[o])
    PROVE  /\ timers[slot[o]].owner = o /\ slot[o] \in 1 .. Len(timers)
           /\ timers[slot[o]].ms \in 1 .. asked[o]
<1>1. slot[o] \in 1 .. Len(timers)
  BY TimerTypes DEF TimerInv
<1>2. timers[slot[o]].owner # 0
  BY DEF Armed
<1>3. timers[slot[o]].owner \in Alive /\ slot[timers[slot[o]].owner] = slot[o]
         /\ timers[slot[o]].ms \in 1 .. asked[timers[slot[o]].owner]
  BY <1>1, <1>2 DEF TimerInv, SlotsInv
<1>4. timers[slot[o]].owner = o
  BY <1>3 DEF TimerInv, SlotsInv
<1> QED
  BY <1>1, <1>3, <1>4

\* A function on an initial segment is a sequence.
LEMMA FunctionIsSeq ==
    ASSUME NEW S, NEW n \in Nat, NEW f, f \in [1 .. n -> S]
    PROVE  f \in Seq(S) /\ Len(f) = n
BY SeqDef, LenProperties

------------------------------------------------------------------------------
(* The operations of the timers. *)

\* What the end of the owners F and the start of the owners W leave of the slots.
LEMMA ChangedSlots ==
    ASSUME TimerInv, NEW F \in SUBSET Alive, NEW W \in SUBSET (Alive \ F), NEW ms \in Nat,
           timers' = Changed(F, W, ms)
    PROVE  /\ timers' \in Seq(Infos) /\ Len(timers') = Len(timers)
           /\ \A o \in F : timers'[slot[o]] = TimerInfo
           /\ \A o \in W : /\ timers'[slot[o]].owner = o /\ timers'[slot[o]].ms = ms
                           /\ timers'[slot[o]].allocated
           /\ \A i \in 1 .. Len(timers) :
                 (\A o \in F \cup W : slot[o] # i) => timers'[i] = timers[i]
<1>1. /\ Len(timers) \in Nat /\ Indices = 1 .. Len(timers) /\ Alive \subseteq Owners
      /\ \A i \in 1 .. Len(timers) : timers[i] \in Infos
      /\ \A o \in Alive : slot[o] \in 1 .. Len(timers)
  BY TimerTypes DEF TimerInv
<1>2. \A o, p \in Alive : slot[o] = slot[p] => o = p
  BY DEF TimerInv, SlotsInv
<1>3. timers' = [i \in 1 .. Len(timers) |->
                   IF \E o \in F : slot[o] = i THEN TimerInfo
                   ELSE IF \E o \in W : slot[o] = i
                   THEN Waiting(timers[i], CHOOSE o \in W : slot[o] = i, ms)
                   ELSE timers[i]]
  BY <1>1 DEF Changed, Freed
<1>4. ASSUME NEW o \in F PROVE timers'[slot[o]] = TimerInfo
  BY <1>1, <1>3
<1>5. ASSUME NEW o \in W
      PROVE  /\ timers'[slot[o]] = [timers[slot[o]] EXCEPT !.owner = o, !.ms = ms]
             /\ timers'[slot[o]].owner = o /\ timers'[slot[o]].ms = ms
             /\ timers'[slot[o]].allocated
             /\ timers'[slot[o]] \in Infos
  <2>1. o \in Alive /\ slot[o] \in 1 .. Len(timers) /\ timers[slot[o]] \in Infos
    BY <1>1
  <2>2. ~\E p \in F : slot[p] = slot[o]
    BY <1>2
  <2>3. (CHOOSE p \in W : slot[p] = slot[o]) = o
    BY <1>2
  <2>4. timers'[slot[o]] = Waiting(timers[slot[o]], CHOOSE p \in W : slot[p] = slot[o], ms)
    BY <1>3, <2>1, <2>2
  <2>5. timers'[slot[o]] = [timers[slot[o]] EXCEPT !.owner = o, !.ms = ms]
    BY <2>3, <2>4 DEF Waiting
  <2>6. timers[slot[o]].allocated
    BY <2>1 DEF TimerInv, SlotsInv
  <2>7. o \in 0 .. MaxOwners
    BY <2>1, <1>1, TimerMgrAssumption DEF Owners, TimerMgrAssumption
  <2> QED
    BY <2>1, <2>5, <2>6, <2>7 DEF Infos
<1>6. ASSUME NEW i \in 1 .. Len(timers), \A o \in F \cup W : slot[o] # i
      PROVE  timers'[i] = timers[i]
  BY <1>3, <1>6
<1>7. timers' \in [1 .. Len(timers) -> Infos]
  <2>1. TimerInfo \in Infos
    BY TimerMgrAssumption DEF TimerInfo, Infos, TimerMgrAssumption
  <2>2. \A i \in 1 .. Len(timers) : timers'[i] \in Infos
    <3> SUFFICES ASSUME NEW i \in 1 .. Len(timers) PROVE timers'[i] \in Infos
      OBVIOUS
    <3>1. CASE \E o \in F : slot[o] = i
      BY <3>1, <1>4, <2>1
    <3>2. CASE \E o \in W : slot[o] = i
      <4>1. PICK o \in W : slot[o] = i
        BY <3>2
      <4> QED
        BY <4>1, <1>5
    <3>3. CASE \A o \in F \cup W : slot[o] # i
      BY <3>3, <1>1, <1>6
    <3> QED
      BY <3>1, <3>2, <3>3
  <2> QED
    BY <1>3, <2>2
<1>8. timers' \in Seq(Infos) /\ Len(timers') = Len(timers)
  BY <1>1, <1>7, FunctionIsSeq
<1> QED
  BY <1>4, <1>5, <1>6, <1>8

\* End() keeps the invariant of the timers and tells what becomes of each owner.
LEMMA EndKeeps ==
    ASSUME TimerInv, NEW F \in SUBSET Alive, NEW W \in SUBSET (Alive \ F),
           NEW ms \in Nat, W = {} \/ ms # 0, End(F, W, ms),
           created' = created, cbList' \in Seq(Owners)
    PROVE  /\ TimerInv'
           /\ Alive' = Alive \ F
           /\ \A o \in W : /\ slot'[o] = slot[o] /\ timers'[slot[o]].owner = o
                           /\ timers'[slot[o]].ms = ms /\ asked'[o] = ms /\ waited'[o] = 0
           /\ \A o \in Alive \ (F \cup W) :
                 /\ slot'[o] = slot[o] /\ timers'[slot[o]] = timers[slot[o]]
                 /\ asked'[o] = asked[o] /\ waited'[o] = waited[o]
<1>1. /\ Len(timers) \in Nat /\ Alive \subseteq Owners /\ 0 \notin Owners
      /\ \A o \in Alive : slot[o] \in 1 .. Len(timers)
      /\ Len(timers) <= TimersLimit
  BY TimerTypes DEF TimerInv, TypeOK
<1>2. /\ timers' \in Seq(Infos) /\ Len(timers') = Len(timers)
      /\ \A o \in F : timers'[slot[o]] = TimerInfo
      /\ \A o \in W : /\ timers'[slot[o]].owner = o /\ timers'[slot[o]].ms = ms
                      /\ timers'[slot[o]].allocated
      /\ \A i \in 1 .. Len(timers) :
            (\A o \in F \cup W : slot[o] # i) => timers'[i] = timers[i]
  BY ChangedSlots DEF End
<1>3. /\ slot' = [o \in Owners |-> IF o \in F THEN 0 ELSE slot[o]]
      /\ asked' = [o \in Owners |-> IF o \in W THEN ms ELSE asked[o]]
      /\ waited' = [o \in Owners |-> IF o \in W THEN 0 ELSE waited[o]]
      /\ allocatedTimers' = allocatedTimers - Cardinality(F)
  BY DEF End
<1>4. Alive' = Alive \ F
  BY <1>1, <1>3 DEF Alive
<1>5. \A o, p \in Alive : slot[o] = slot[p] => o = p
  BY DEF TimerInv, SlotsInv
<1>6. ASSUME NEW o \in Alive \ (F \cup W)
      PROVE  /\ slot'[o] = slot[o] /\ timers'[slot[o]] = timers[slot[o]]
             /\ asked'[o] = asked[o] /\ waited'[o] = waited[o]
  <2>1. \A p \in F \cup W : slot[p] # slot[o]
    BY <1>5
  <2> QED
    BY <2>1, <1>1, <1>2, <1>3
<1>7. ASSUME NEW o \in W
      PROVE  /\ slot'[o] = slot[o] /\ timers'[slot[o]].owner = o
             /\ timers'[slot[o]].ms = ms /\ asked'[o] = ms /\ waited'[o] = 0
             /\ timers'[slot[o]].allocated
  BY <1>1, <1>2, <1>3
<1>8. TypeOK'
  <2>1. slot' \in [Owners -> 0 .. Len(timers')]
    BY <1>1, <1>2, <1>3 DEF TimerInv, TypeOK
  <2>2. asked' \in [Owners -> Nat] /\ waited' \in [Owners -> Nat]
    BY <1>3 DEF TimerInv, TypeOK
  <2> QED
    BY <2>1, <2>2, <1>1, <1>2 DEF TimerInv, TypeOK, Infos
<1>9. SlotsInv'
  <2>1. ASSUME NEW o \in Alive' PROVE o <= created' /\ timers'[slot'[o]].allocated
    BY <2>1, <1>4, <1>6, <1>7 DEF TimerInv, SlotsInv
  <2>2. ASSUME NEW o \in Alive', NEW p \in Alive', slot'[o] = slot'[p] PROVE o = p
    BY <2>2, <1>4, <1>5, <1>6, <1>7
  <2>3. ASSUME NEW i \in 1 .. Len(timers') PROVE timers'[i].allocated => \E o \in Alive' : slot'[o] = i
    <3>1. CASE \E o \in F : slot[o] = i
      BY <3>1, <1>2 DEF TimerInfo
    <3>2. CASE \E o \in W : slot[o] = i
      BY <3>2, <1>4, <1>7
    <3>3. CASE \A o \in F \cup W : slot[o] # i
      <4>1. timers'[i] = timers[i] /\ (timers[i].allocated => \E o \in Alive : slot[o] = i)
        BY <2>3, <3>3, <1>2 DEF TimerInv, SlotsInv
      <4> QED
        BY <4>1, <3>3, <1>4, <1>6
    <3> QED
      BY <3>1, <3>2, <3>3
  <2>4. ASSUME NEW i \in 1 .. Len(timers'), timers'[i].owner # 0
        PROVE  /\ timers'[i].owner \in Alive' /\ slot'[timers'[i].owner] = i
               /\ timers'[i].ms \in 1 .. asked'[timers'[i].owner]
    <3>1. CASE \E o \in F : slot[o] = i
      BY <2>4, <3>1, <1>2 DEF TimerInfo
    <3>2. CASE \E o \in W : slot[o] = i
      BY <3>2, <1>4, <1>7
    <3>3. CASE \A o \in F \cup W : slot[o] # i
      <4>1. /\ timers'[i] = timers[i] /\ timers[i].owner \in Alive
            /\ slot[timers[i].owner] = i /\ timers[i].ms \in 1 .. asked[timers[i].owner]
        BY <2>4, <3>3, <1>2 DEF TimerInv, SlotsInv
      <4>2. timers[i].owner \in Alive \ (F \cup W)
        BY <4>1, <3>3
      <4> QED
        BY <4>1, <4>2, <1>4, <1>6
    <3> QED
      BY <3>1, <3>2, <3>3
  <2>5. allocatedTimers' = Cardinality(Alive')
    <3>1. IsFiniteSet(Alive) /\ IsFiniteSet(F) /\ IsFiniteSet(Alive \ F)
             /\ Cardinality(Alive \ F) \in Nat /\ Cardinality(F) \in Nat
      BY <1>1, OwnersFinite
    <3>2. Cardinality((Alive \ F) \cup F) =
             Cardinality(Alive \ F) + Cardinality(F) - Cardinality((Alive \ F) \cap F)
      BY <3>1, FS_Union
    <3>3. (Alive \ F) \cup F = Alive /\ (Alive \ F) \cap F = {} /\ Cardinality({}) = 0
      BY FS_EmptySet
    <3>4. allocatedTimers = Cardinality(Alive)
      BY DEF TimerInv, SlotsInv
    <3>5. Cardinality(Alive) = Cardinality(Alive \ F) + Cardinality(F)
      <4>1. Cardinality((Alive \ F) \cap F) = 0
        BY <3>3
      <4>2. Cardinality((Alive \ F) \cup F) = Cardinality(Alive)
        BY <3>3
      <4> QED
        BY <3>1, <3>2, <4>1, <4>2
    <3>6. allocatedTimers' = Cardinality(Alive) - Cardinality(F)
      BY <3>4, <1>3
    <3>7. Cardinality(Alive') = Cardinality(Alive \ F)
      BY <1>4
    <3> QED
      BY <3>1, <3>5, <3>6, <3>7
  <2> QED
    BY <2>1, <2>2, <2>3, <2>4, <2>5 DEF SlotsInv
<1> QED
  BY <1>4, <1>6, <1>7, <1>8, <1>9 DEF TimerInv

\* The callbacks of a tick are those of owners.
LEMMA CallbacksOfOwners ==
    ASSUME TimerInv, NEW S \in SUBSET Indices, \A i \in S : Armed(i),
           NEW order \in Ascending(S)
    PROVE  [n \in DOMAIN order |-> timers[order[n]].owner] \in Seq(Owners)
<1>1. order \in SetToSeqs(S)
  BY DEF Ascending
<1>2. order \in [1 .. Cardinality(S) -> S]
  BY <1>1 DEF SetToSeqs, IsInjective
<1>3. Len(timers) \in Nat /\ Indices = 1 .. Len(timers) /\ Alive \subseteq Owners
  BY TimerTypes DEF TimerInv
<1>4. Cardinality(S) \in Nat
  <2>1. IsFiniteSet(1 .. Len(timers))
    BY <1>3, FS_Interval
  <2>2. IsFiniteSet(S)
    BY <1>3, <2>1, FS_Subset
  <2> QED
    BY <2>2, FS_CardinalityType
<1>5. \A i \in S : timers[i].owner \in Owners
  BY <1>3 DEF TimerInv, SlotsInv, Armed
<1>6. [n \in DOMAIN order |-> timers[order[n]].owner] \in [1 .. Cardinality(S) -> Owners]
  BY <1>2, <1>5
<1> HIDE <1>2
<1> QED
  BY <1>4, <1>6, FunctionIsSeq

\* tick() cancels the expired timers, takes the time from the others that run
\* and leaves the ones that do not.
LEMMA TickKeeps ==
    ASSUME TimerInv, NEW ms \in Nat, tick(ms)
    PROVE  /\ TimerInv' /\ Alive' = Alive
           /\ slot' = slot /\ asked' = asked /\ waited' = waited
           /\ \A i \in 1 .. Len(timers) :
                 /\ ~Running(i) => timers'[i] = timers[i]
                 /\ Running(i) /\ timers[i].ms <= ms => timers'[i].owner = 0
                 /\ Running(i) /\ ~(timers[i].ms <= ms) =>
                       /\ timers'[i].owner = timers[i].owner
                       /\ timers'[i].allocated = timers[i].allocated
                       /\ timers'[i].suspended = timers[i].suspended
                       /\ timers'[i].ms = timers[i].ms - ms
<1> DEFINE expired == {i \in Indices : Running(i) /\ expires(i, ms)}
<1>1. /\ Len(timers) \in Nat /\ Indices = 1 .. Len(timers) /\ Alive \subseteq Owners
      /\ \A i \in 1 .. Len(timers) : timers[i] \in Infos
      /\ \A o \in Alive : slot[o] \in 1 .. Len(timers)
  BY TimerTypes DEF TimerInv
<1>2. cbList' \in Seq(Owners)
  <2>1. PICK order \in Ascending(expired) :
            cbList' = [n \in DOMAIN order |-> timers[order[n]].owner]
    BY DEF tick
  <2>2. \A i \in expired : Armed(i)
    BY DEF Running
  <2>3. expired \in SUBSET Indices
    OBVIOUS
  <2> HIDE DEF expired
  <2> QED
    BY <2>1, <2>2, <2>3, CallbacksOfOwners
<1>3. timers' = [i \in 1 .. Len(timers) |->
                   IF i \in expired THEN Cancelled(timers[i])
                   ELSE IF Running(i) THEN [timers[i] EXCEPT !.ms = @ - ms]
                   ELSE timers[i]]
  BY <1>1 DEF tick
<1>4. \A i \in 1 .. Len(timers) : i \in expired <=> Running(i) /\ timers[i].ms <= ms
  BY <1>1 DEF expires
<1> HIDE DEF expired
<1>5. ASSUME NEW i \in 1 .. Len(timers)
      PROVE  /\ ~Running(i) => timers'[i] = timers[i]
             /\ Running(i) /\ timers[i].ms <= ms => timers'[i] = Cancelled(timers[i])
             /\ Running(i) /\ ~(timers[i].ms <= ms) =>
                   timers'[i] = [timers[i] EXCEPT !.ms = timers[i].ms - ms]
  BY <1>1, <1>3, <1>4
<1>6. ASSUME NEW i \in 1 .. Len(timers), Running(i), timers[i].ms <= ms
      PROVE  /\ timers'[i].owner = 0 /\ timers'[i].allocated = timers[i].allocated
             /\ timers'[i] \in Infos
  <2>1. timers[i] \in Infos
    BY <1>1
  <2>2. timers'[i] = [timers[i] EXCEPT !.owner = 0, !.ms = 0]
    BY <1>6, <1>5 DEF Cancelled
  <2> QED
    <3>1. MaxOwners \in Nat
      BY TimerTypes DEF TimerInv
    <3>2. 0 \in 0 .. MaxOwners
      BY <3>1
    <3>3. timers'[i].owner = 0 /\ timers'[i].ms = 0
      BY <2>1, <2>2 DEF Infos
    <3>4. /\ timers'[i].allocated = timers[i].allocated
          /\ timers'[i].suspended = timers[i].suspended
      BY <2>1, <2>2, Zenon DEF Infos
    <3>5. timers'[i] \in Infos
      <4>1. timers'[i] = [allocated |-> timers[i].allocated, owner |-> 0, ms |-> 0,
                          suspended |-> timers[i].suspended]
        BY <2>1, <2>2 DEF Infos
      <4>2. timers[i].allocated \in BOOLEAN /\ timers[i].suspended \in BOOLEAN
        BY <2>1 DEF Infos
      <4> QED
        BY <4>1, <4>2, <3>2 DEF Infos
    <3> QED
      BY <3>3, <3>4, <3>5
<1>7. ASSUME NEW i \in 1 .. Len(timers), Running(i), ~(timers[i].ms <= ms)
       PROVE  /\ timers'[i].owner = timers[i].owner
              /\ timers'[i].allocated = timers[i].allocated
              /\ timers'[i].suspended = timers[i].suspended
              /\ timers'[i].ms = timers[i].ms - ms
              /\ timers'[i] \in Infos
  <2>1. timers[i] \in Infos
    BY <1>1
  <2>2. timers'[i] = [timers[i] EXCEPT !.ms = timers[i].ms - ms]
    BY <1>7, <1>5
  <2>3. timers[i].ms - ms \in Nat
    BY <2>1, <1>7 DEF Infos
  <2> QED
    BY <2>1, <2>2, <2>3 DEF Infos
<1>8. timers' \in Seq(Infos) /\ Len(timers') = Len(timers)
  <2>1. \A i \in 1 .. Len(timers) : timers'[i] \in Infos
    BY <1>1, <1>5, <1>6, <1>7
  <2>2. timers' \in [1 .. Len(timers) -> Infos]
    BY <1>3, <2>1
  <2> QED
    BY <1>1, <2>2, FunctionIsSeq
<1>9. /\ slot' = slot /\ asked' = asked /\ waited' = waited /\ created' = created
      /\ allocatedTimers' = allocatedTimers
  BY DEF tick
<1>10. Alive' = Alive
  BY <1>9 DEF Alive
<1>11. TypeOK'
  BY <1>2, <1>8, <1>9 DEF TimerInv, TypeOK, Infos
<1>12. SlotsInv'
  <2>1. \A i \in 1 .. Len(timers) : timers'[i].allocated = timers[i].allocated
    BY <1>5, <1>6, <1>7
  <2>2. ASSUME NEW i \in 1 .. Len(timers), timers'[i].owner # 0
        PROVE  /\ timers[i].owner # 0 /\ timers'[i].owner = timers[i].owner
               /\ timers'[i].ms \in 1 .. asked[timers[i].owner]
    <3>1. timers[i].owner # 0 /\ timers'[i].owner = timers[i].owner
      BY <2>2, <1>5, <1>6, <1>7
    <3>2. timers[i].ms \in 1 .. asked[timers[i].owner] /\ timers[i].owner \in Alive
      BY <3>1 DEF TimerInv, SlotsInv
    <3>3. asked[timers[i].owner] \in Nat
      BY <3>2, <1>1 DEF TimerInv, TypeOK
    <3>4. CASE ~Running(i)
      BY <3>1, <3>2, <3>4, <1>5
    <3>5. CASE Running(i)
      <4>1. ~(timers[i].ms <= ms)
        BY <3>5, <2>2, <1>6
      <4>2. timers'[i].ms = timers[i].ms - ms
        BY <3>5, <4>1, <1>7
      <4> QED
        BY <3>1, <3>2, <3>3, <4>1, <4>2
    <3> QED
      BY <3>4, <3>5
  <2>3. \A o \in Alive' : o <= created' /\ timers'[slot'[o]].allocated
    BY <2>1, <1>1, <1>9, <1>10 DEF TimerInv, SlotsInv
  <2>4. \A o, p \in Alive' : slot'[o] = slot'[p] => o = p
    BY <1>9, <1>10 DEF TimerInv, SlotsInv
  <2>5. \A i \in 1 .. Len(timers') : timers'[i].allocated => \E o \in Alive' : slot'[o] = i
    BY <2>1, <1>8, <1>9, <1>10 DEF TimerInv, SlotsInv
  <2>6. \A i \in 1 .. Len(timers') : timers'[i].owner # 0 =>
           /\ timers'[i].owner \in Alive' /\ slot'[timers'[i].owner] = i
           /\ timers'[i].ms \in 1 .. asked'[timers'[i].owner]
    BY <2>2, <1>8, <1>9, <1>10 DEF TimerInv, SlotsInv
  <2>7. allocatedTimers' = Cardinality(Alive')
    BY <1>9, <1>10 DEF TimerInv, SlotsInv
  <2> QED
    BY <2>3, <2>4, <2>5, <2>6, <2>7 DEF SlotsInv
<1> QED
  BY <1>5, <1>6, <1>7, <1>9, <1>10, <1>11, <1>12 DEF TimerInv

\* A change of one slot that keeps its allocation keeps the invariant: what
\* timerCancel() and timerSuspend() have in common.
LEMMA OneSlotKeeps ==
    ASSUME TimerInv, NEW o \in Alive, NEW info \in Infos,
           timers' = [timers EXCEPT ![slot[o]] = info],
           info.allocated = timers[slot[o]].allocated,
           info.owner = 0 \/ (/\ info.owner = timers[slot[o]].owner
                              /\ info.ms = timers[slot[o]].ms),
           UNCHANGED <<allocatedTimers, slot, created, cbList, asked, waited>>
    PROVE  /\ TimerInv' /\ Alive' = Alive /\ slot' = slot
           /\ asked' = asked /\ waited' = waited
           /\ timers'[slot[o]] = info
           /\ \A p \in Alive \ {o} : timers'[slot[p]] = timers[slot[p]]
<1>1. /\ Len(timers) \in Nat /\ timers \in Seq(Infos) /\ Alive \subseteq Owners
      /\ \A i \in 1 .. Len(timers) : timers[i] \in Infos
      /\ \A p \in Alive : slot[p] \in 1 .. Len(timers)
  BY TimerTypes DEF TimerInv
<1>2. timers' \in Seq(Infos) /\ Len(timers') = Len(timers)
  BY <1>1
<1>3. timers'[slot[o]] = info
  BY <1>1
<1>4. \A i \in 1 .. Len(timers) : i # slot[o] => timers'[i] = timers[i]
  BY <1>1
<1>5. Alive' = Alive
  BY DEF Alive
<1>6. TypeOK'
  BY <1>2 DEF TimerInv, TypeOK, Infos
<1>7. \A i \in 1 .. Len(timers) : timers'[i].allocated = timers[i].allocated
  BY <1>3, <1>4
<1>8. \A i \in 1 .. Len(timers) : timers'[i].owner # 0 =>
         timers'[i].owner = timers[i].owner /\ timers'[i].ms = timers[i].ms
  BY <1>3, <1>4
<1>9. SlotsInv'
  <2>1. \A p \in Alive' : p <= created' /\ timers'[slot'[p]].allocated
    BY <1>1, <1>5, <1>7 DEF TimerInv, SlotsInv
  <2>2. \A p, q \in Alive' : slot'[p] = slot'[q] => p = q
    BY <1>5 DEF TimerInv, SlotsInv
  <2>3. \A i \in 1 .. Len(timers') : timers'[i].allocated => \E p \in Alive' : slot'[p] = i
    BY <1>2, <1>5, <1>7 DEF TimerInv, SlotsInv
  <2>4. \A i \in 1 .. Len(timers') : timers'[i].owner # 0 =>
           /\ timers'[i].owner \in Alive' /\ slot'[timers'[i].owner] = i
           /\ timers'[i].ms \in 1 .. asked'[timers'[i].owner]
    BY <1>2, <1>5, <1>8 DEF TimerInv, SlotsInv
  <2>5. allocatedTimers' = Cardinality(Alive')
    BY <1>5 DEF TimerInv, SlotsInv
  <2> QED
    BY <2>1, <2>2, <2>3, <2>4, <2>5 DEF SlotsInv
<1>10. \A p \in Alive \ {o} : timers'[slot[p]] = timers[slot[p]]
  BY <1>1, <1>4 DEF TimerInv, SlotsInv
<1> QED
  BY <1>3, <1>5, <1>6, <1>9, <1>10 DEF TimerInv

\* timerCancel() disarms the timer and touches no other.
LEMMA CancelKeeps ==
    ASSUME TimerInv, NEW o \in Owners, cancel(o)
    PROVE  /\ TimerInv' /\ Alive' = Alive /\ slot' = slot
           /\ asked' = asked /\ waited' = waited
           /\ o \in Alive /\ timers'[slot[o]].owner = 0
           /\ \A p \in Alive \ {o} : timers'[slot[p]] = timers[slot[p]]
<1> DEFINE info == Cancelled(timers[slot[o]])
<1>1. /\ o \in Alive /\ timers' = [timers EXCEPT ![slot[o]] = info]
      /\ UNCHANGED <<allocatedTimers, slot, created, cbList, asked, waited>>
  BY DEF cancel
<1>2. timers[slot[o]] \in Infos /\ MaxOwners \in Nat
  BY <1>1, TimerTypes DEF TimerInv
<1>3. info = [allocated |-> timers[slot[o]].allocated, owner |-> 0, ms |-> 0,
              suspended |-> timers[slot[o]].suspended]
  <2>1. info = [timers[slot[o]] EXCEPT !.owner = 0, !.ms = 0]
    BY DEF Cancelled
  <2> HIDE DEF info
  <2> QED
    BY <1>2, <2>1 DEF Infos
<1>4. timers[slot[o]].allocated \in BOOLEAN /\ timers[slot[o]].suspended \in BOOLEAN
  BY <1>2 DEF Infos
<1>5. 0 \in 0 .. MaxOwners
  BY <1>2
<1> HIDE DEF info
<1>6. info \in Infos /\ info.owner = 0 /\ info.allocated = timers[slot[o]].allocated
  BY <1>3, <1>4, <1>5 DEF Infos
<1> QED
  BY <1>1, <1>6, OneSlotKeeps

\* timerSuspend() changes nothing but the suspension.
LEMMA SuspendKeeps ==
    ASSUME TimerInv, NEW o \in Owners, NEW suspended \in BOOLEAN, setSuspended(o, suspended)
    PROVE  /\ TimerInv' /\ Alive' = Alive /\ slot' = slot
           /\ asked' = asked /\ waited' = waited
           /\ o \in Alive /\ timers'[slot[o]].owner = timers[slot[o]].owner
           /\ timers'[slot[o]].ms = timers[slot[o]].ms
           /\ \A p \in Alive \ {o} : timers'[slot[p]] = timers[slot[p]]
<1> DEFINE info == [timers[slot[o]] EXCEPT !.suspended = suspended]
<1>1. /\ o \in Alive /\ timers' = [timers EXCEPT ![slot[o]] = info]
      /\ UNCHANGED <<allocatedTimers, slot, created, cbList, asked, waited>>
  BY DEF setSuspended
<1>2. timers[slot[o]] \in Infos
  BY <1>1, TimerTypes DEF TimerInv
<1>3. info \in Infos /\ info.owner = timers[slot[o]].owner /\ info.ms = timers[slot[o]].ms
  BY <1>2 DEF Infos
<1>4. info.allocated = timers[slot[o]].allocated
  BY <1>2 DEF Infos
<1> HIDE DEF info
<1> QED
  BY <1>1, <1>3, <1>4, OneSlotKeeps

\* allocTimer() gives the new owner a slot that is not armed and leaves the
\* others alone.
LEMMA AllocKeeps ==
    ASSUME TimerInv, allocTimer
    PROVE  /\ TimerInv' /\ asked' = asked /\ waited' = waited
           /\ Alive \subseteq Alive'
           /\ \A o \in Alive : slot'[o] = slot[o] /\ timers'[slot[o]] = timers[slot[o]]
           /\ \A o \in Alive' \ Alive : timers'[slot'[o]].owner = 0
<1> DEFINE o == created + 1
<1>1. /\ o \in Owners /\ created' = o
      /\ cbList' = cbList /\ asked' = asked /\ waited' = waited
  BY DEF allocTimer
<1>2. /\ Len(timers) \in Nat /\ timers \in Seq(Infos) /\ Alive \subseteq Owners
      /\ MaxOwners \in Nat /\ TimersLimit \in Nat /\ Owners \subseteq Nat /\ 0 \notin Owners
      /\ Indices = 1 .. Len(timers)
      /\ \A i \in 1 .. Len(timers) : timers[i] \in Infos
      /\ \A p \in Alive : slot[p] \in 1 .. Len(timers)
  BY TimerTypes DEF TimerInv
<1>3. o \notin Alive /\ \A p \in Alive : p <= o
  BY <1>2 DEF TimerInv, SlotsInv, TypeOK
<1>4. CASE UNCHANGED <<timers, slot, allocatedTimers>>
  <2>1. Alive' = Alive
    BY <1>4 DEF Alive
  <2>2. TypeOK'
    BY <1>1, <1>2, <1>4 DEF TimerInv, TypeOK, Owners
  <2>3. SlotsInv'
    BY <1>1, <1>3, <1>4, <2>1 DEF TimerInv, SlotsInv
  <2> QED
    BY <1>1, <1>4, <2>1, <2>2, <2>3 DEF TimerInv
\* The slot i that the new owner gets, whether it was there or is a new one.
<1>5. ASSUME NEW i \in 1 .. Len(timers'),
             timers' \in Seq(Infos), Len(timers') <= TimersLimit,
             Len(timers) <= Len(timers'), \A j \in 1 .. Len(timers') : j # i => j \in 1 .. Len(timers),
             \A p \in Alive : slot[p] # i,
             \A j \in 1 .. Len(timers) : j # i => timers'[j] = timers[j],
             timers'[i].allocated, timers'[i].owner = 0,
             slot' = [slot EXCEPT ![o] = i], allocatedTimers' = allocatedTimers + 1
      PROVE  /\ TimerInv' /\ Alive \subseteq Alive'
             /\ \A p \in Alive : slot'[p] = slot[p] /\ timers'[slot[p]] = timers[slot[p]]
             /\ \A p \in Alive' \ Alive : timers'[slot'[p]].owner = 0
  <2>1. slot'[o] = i /\ \A p \in Owners \ {o} : slot'[p] = slot[p]
    BY <1>1, <1>5 DEF TimerInv, TypeOK
  <2>2. Len(timers') \in Nat /\ i # 0
    BY <1>5
  <2>3. Alive' = Alive \cup {o}
    BY <1>1, <2>1, <2>2 DEF Alive
  <2>4. \A p \in Alive : slot'[p] = slot[p] /\ timers'[slot[p]] = timers[slot[p]]
    BY <1>2, <1>3, <1>5, <2>1
  <2>5. TypeOK'
    <3>1. slot' \in [Owners -> 0 .. Len(timers')]
      <4>1. \A p \in Owners : slot[p] \in 0 .. Len(timers')
        BY <1>2, <1>5, <2>2 DEF TimerInv, TypeOK
      <4>2. i \in 0 .. Len(timers')
        BY <2>2
      <4>3. slot \in [Owners -> 0 .. Len(timers')]
        BY <4>1 DEF TimerInv, TypeOK
      <4> QED
        BY <1>5, <4>2, <4>3
    <3>2. created' \in 0 .. MaxOwners
      BY <1>1, <1>2 DEF Owners
    <3> QED
      BY <1>1, <1>5, <3>1, <3>2 DEF TimerInv, TypeOK, Infos
  <2>6. SlotsInv'
    <3>1. \A p \in Alive' : p <= created' /\ timers'[slot'[p]].allocated
      <4>1. ASSUME NEW p \in Alive PROVE p <= created' /\ timers'[slot'[p]].allocated
        BY <1>1, <1>3, <2>4 DEF TimerInv, SlotsInv
      <4>2. o <= created' /\ timers'[slot'[o]].allocated
        BY <1>1, <1>2, <1>5, <2>1
      <4> QED
        BY <2>3, <4>1, <4>2
    <3>2. \A p, q \in Alive' : slot'[p] = slot'[q] => p = q
      BY <1>5, <2>1, <2>3, <2>4 DEF TimerInv, SlotsInv
    <3>3. ASSUME NEW j \in 1 .. Len(timers'), timers'[j].allocated
          PROVE  \E p \in Alive' : slot'[p] = j
      <4>1. CASE j = i
        BY <4>1, <2>1, <2>3
      <4>2. CASE j # i
        <5>1. j \in 1 .. Len(timers) /\ timers'[j] = timers[j]
          BY <1>5, <4>2
        <5>2. PICK p \in Alive : slot[p] = j
          BY <3>3, <5>1 DEF TimerInv, SlotsInv
        <5> QED
          BY <5>2, <2>3, <2>4
      <4> QED
        BY <4>1, <4>2
    <3>4. ASSUME NEW j \in 1 .. Len(timers'), timers'[j].owner # 0
          PROVE  /\ timers'[j].owner \in Alive' /\ slot'[timers'[j].owner] = j
                 /\ timers'[j].ms \in 1 .. asked'[timers'[j].owner]
      <4>1. j # i /\ j \in 1 .. Len(timers) /\ timers'[j] = timers[j]
        BY <1>5, <3>4
      <4>2. /\ timers[j].owner \in Alive /\ slot[timers[j].owner] = j
            /\ timers[j].ms \in 1 .. asked[timers[j].owner]
        BY <3>4, <4>1 DEF TimerInv, SlotsInv
      <4> QED
        BY <1>1, <2>3, <2>4, <4>1, <4>2
    <3>5. allocatedTimers' = Cardinality(Alive')
      <4>1. IsFiniteSet(Alive) /\ Cardinality(Alive) \in Nat
        BY <1>2, OwnersFinite
      <4>2. Cardinality(Alive \cup {o}) = Cardinality(Alive) + 1
        BY <4>1, <1>3, FS_AddElement
      <4> QED
        BY <1>5, <2>3, <4>2 DEF TimerInv, SlotsInv
    <3> QED
      BY <3>1, <3>2, <3>3, <3>4, <3>5 DEF SlotsInv
  <2> QED
    BY <1>5, <2>1, <2>3, <2>4, <2>5, <2>6 DEF TimerInv
<1>6. CASE allocatedTimers < Len(timers) /\ Unused # {}
  <2> DEFINE i == Min(Unused)
  <2>1. i \in Unused
    BY <1>2, <1>6, MinOf DEF Unused
  <2>2. /\ timers' = [timers EXCEPT ![i].allocated = TRUE] /\ slot' = [slot EXCEPT ![o] = i]
        /\ allocatedTimers' = allocatedTimers + 1
    BY <1>6 DEF allocTimer
  <2> HIDE DEF i
  <2>3. i \in 1 .. Len(timers) /\ ~timers[i].allocated /\ timers[i] \in Infos
    BY <1>2, <2>1 DEF Unused
  <2>4. timers[i].owner = 0 /\ \A p \in Alive : slot[p] # i
    BY <2>3 DEF TimerInv, SlotsInv
  <2>5. timers' \in Seq(Infos) /\ Len(timers') = Len(timers)
        /\ timers'[i] = [timers[i] EXCEPT !.allocated = TRUE]
        /\ \A j \in 1 .. Len(timers) : j # i => timers'[j] = timers[j]
    <3>1. [timers[i] EXCEPT !.allocated = TRUE] \in Infos
      BY <2>3 DEF Infos
    <3> DEFINE info == [timers[i] EXCEPT !.allocated = TRUE]
    <3>2. timers' = [timers EXCEPT ![i] = info]
      BY <2>2
    <3> HIDE DEF info
    <3>3. info \in Infos
      BY <3>1 DEF info
    <3>4. timers' \in Seq(Infos) /\ Len(timers') = Len(timers)
      BY <1>2, <2>3, <3>2, <3>3
    <3>5. timers'[i] = info /\ \A j \in 1 .. Len(timers) : j # i => timers'[j] = timers[j]
      BY <1>2, <2>3, <3>2
    <3> QED
      BY <3>4, <3>5 DEF info
  <2>6. timers'[i].allocated /\ timers'[i].owner = 0
    BY <2>3, <2>4, <2>5 DEF Infos
  <2>7. Len(timers) <= TimersLimit
    BY DEF TimerInv, TypeOK
  <2>8. /\ i \in 1 .. Len(timers') /\ Len(timers') <= TimersLimit
        /\ Len(timers) <= Len(timers')
        /\ \A j \in 1 .. Len(timers') : j # i => j \in 1 .. Len(timers)
    BY <1>2, <2>3, <2>5, <2>7
  <2>9. slot' = [slot EXCEPT ![o] = i] /\ allocatedTimers' = allocatedTimers + 1
    BY <2>2
  <2> HIDE DEF o
  <2>10. /\ TimerInv' /\ Alive \subseteq Alive'
         /\ \A p \in Alive : slot'[p] = slot[p] /\ timers'[slot[p]] = timers[slot[p]]
         /\ \A p \in Alive' \ Alive : timers'[slot'[p]].owner = 0
    BY <1>5, <2>4, <2>5, <2>6, <2>8, <2>9
  <2> QED
    BY <1>1, <2>10
<1>7. CASE ~(allocatedTimers < Len(timers) /\ Unused # {}) /\ ~storageFull
  <2> DEFINE i == Len(timers) + 1
             fresh == [TimerInfo EXCEPT !.allocated = TRUE]
  <2>1. /\ timers' = Append(timers, fresh) /\ slot' = [slot EXCEPT ![o] = i]
        /\ allocatedTimers' = allocatedTimers + 1
    BY <1>7 DEF allocTimer
  <2>2. fresh \in Infos /\ fresh.allocated /\ fresh.owner = 0
    <3>1. 0 \in 0 .. MaxOwners
      BY <1>2
    <3> QED
      BY <3>1 DEF TimerInfo, Infos
  <2> HIDE DEF fresh
  <2>3. /\ timers' \in Seq(Infos) /\ Len(timers') = i /\ timers'[i] = fresh
        /\ \A j \in 1 .. Len(timers) : timers'[j] = timers[j]
    BY <1>2, <2>1, <2>2, AppendProperties
  <2>4. Len(timers') <= TimersLimit
    BY <1>2, <1>7, <2>3 DEF storageFull
  <2>5. \A p \in Alive : slot[p] # i
    BY <1>2
  <2>6. i \in 1 .. Len(timers') /\ \A j \in 1 .. Len(timers') : j # i => j \in 1 .. Len(timers)
    BY <1>2, <2>3
  <2>7. Len(timers) <= Len(timers')
    BY <1>2, <2>3
  <2> HIDE DEF i
  <2>8. timers'[i].allocated /\ timers'[i].owner = 0
    BY <2>2, <2>3
  <2>9. \A j \in 1 .. Len(timers) : j # i => timers'[j] = timers[j]
    BY <2>3
  <2>10. timers' \in Seq(Infos)
    BY <2>3
  <2>11. slot' = [slot EXCEPT ![o] = i] /\ allocatedTimers' = allocatedTimers + 1
    BY <2>1
  <2> HIDE DEF o
  <2>12. /\ TimerInv' /\ Alive \subseteq Alive'
         /\ \A p \in Alive : slot'[p] = slot[p] /\ timers'[slot[p]] = timers[slot[p]]
         /\ \A p \in Alive' \ Alive : timers'[slot'[p]].owner = 0
    BY <1>5, <2>4, <2>5, <2>6, <2>7, <2>8, <2>9, <2>10, <2>11
  <2> QED
    BY <1>1, <2>12
<1> QED
  BY <1>1, <1>4, <1>6, <1>7 DEF allocTimer

\* getMinWait() is 0 when no timer runs, and otherwise not longer than what any
\* running timer has left.
LEMMA MinWait ==
    ASSUME TimerInv
    PROVE  /\ getMinWait \in Nat
           /\ getMinWait = 0 => RunningOwners = {}
           /\ getMinWait # 0 => \A o \in RunningOwners : getMinWait <= timers[slot[o]].ms
<1> DEFINE left == {timers[i].ms : i \in {j \in Indices : Running(j)}}
<1>1. /\ Indices = 1 .. Len(timers) /\ \A i \in 1 .. Len(timers) : timers[i] \in Infos
      /\ \A o \in Alive : slot[o] \in 1 .. Len(timers)
      /\ Alive \subseteq Owners
  BY TimerTypes DEF TimerInv
<1>2. getMinWait = IF allocatedTimers = 0 \/ left = {} THEN 0 ELSE Min(left)
  BY DEF getMinWait
<1>3. \A o \in RunningOwners : timers[slot[o]].ms \in left
  BY <1>1 DEF RunningOwners
<1>4. left \subseteq Nat \ {0}
  <2> SUFFICES ASSUME NEW i \in 1 .. Len(timers), Running(i)
               PROVE  timers[i].ms \in Nat \ {0}
    BY <1>1
  <2>1. timers[i].owner # 0
    BY DEF Running, Armed
  <2>2. timers[i].ms \in 1 .. asked[timers[i].owner] /\ timers[i].ms \in Nat
    BY <1>1, <2>1 DEF TimerInv, SlotsInv, Infos
  <2> QED
    BY <2>2
<1> HIDE DEF left
<1>5. CASE left = {}
  BY <1>2, <1>3, <1>5
<1>6. CASE left # {} /\ allocatedTimers = 0
  <2>1. IsFiniteSet(Alive) /\ Cardinality(Alive) = 0
    BY <1>1, <1>6, OwnersFinite DEF TimerInv, SlotsInv
  <2>2. Alive = {}
    BY <2>1, FS_EmptySet
  <2> QED
    BY <1>2, <1>6, <2>2 DEF RunningOwners
<1>7. CASE left # {} /\ allocatedTimers # 0
  <2>1. left \subseteq Nat
    BY <1>4
  <2>2. Min(left) \in left /\ \A x \in left : Min(left) <= x
    BY <1>7, <2>1, MinOf
  <2>3. getMinWait = Min(left)
    BY <1>2, <1>7
  <2> QED
    BY <1>3, <1>4, <2>2, <2>3
<1> QED
  BY <1>5, <1>6, <1>7

\* The types the time proofs need of one owner.
LEMMA OwnerTypes ==
    ASSUME TimerInv, NEW o \in Alive
    PROVE  /\ o \in Owners /\ slot[o] \in 1 .. Len(timers) /\ timers[slot[o]] \in Infos
           /\ timers[slot[o]].ms \in Nat /\ asked[o] \in Nat /\ waited[o] \in Nat
<1>1. o \in Owners /\ slot[o] \in 1 .. Len(timers) /\ timers[slot[o]] \in Infos
  BY TimerTypes DEF TimerInv
<1> QED
  BY <1>1 DEF TimerInv, TypeOK, Infos

\* The time left of an owner stays exact while nothing about it changes.
LEMMA ExactStays ==
    ASSUME NEW o, Exact(o), slot'[o] = slot[o], timers'[slot[o]] = timers[slot[o]],
           asked'[o] = asked[o], waited'[o] = waited[o], guarded' = guarded, since' = since
    PROVE  Exact(o)'
BY DEF Exact, Armed, Running

\* Nothing is left of an owner whose timer is not armed.
LEMMA ExactIdle ==
    ASSUME NEW o, timers'[slot'[o]].owner = 0
    PROVE  Exact(o)'
BY DEF Exact, Armed

\* A timer that starts during a call has all the time it was started with left.
LEMMA ExactAnew ==
    ASSUME NEW o, NEW ms \in Nat, slot'[o] = slot[o], timers'[slot[o]].ms = ms,
           asked'[o] = ms, waited'[o] = 0, guarded'
    PROVE  Exact(o)'
BY DEF Exact, Armed, Running

------------------------------------------------------------------------------
(* The steps. *)

\* One step of an operation during a call keeps the invariant.
LEMMA InCallKeeps ==
    ASSUME TicksInv, InCall
    PROVE  TicksInv'
<1>1. /\ TimerInv /\ TicksTypes /\ AllExact
      /\ guarded /\ guarded' = guarded /\ pending' = pending /\ since' = since
      /\ queued' = queued
  BY DEF TicksInv, InCall
<1>2. TicksTypes'
  BY <1>1 DEF TicksTypes, NoWait
<1>3. TickProgrammed'
  BY <1>1 DEF TickProgrammed
<1>4. Timeouts \subseteq Nat \ {0} /\ 0 \in Nat
  BY TimerMgrAssumption DEF TimerMgrAssumption
<1>5. ASSUME NEW o \in Owners, NEW ms \in Timeouts, wait(o, ms), misled' = misled \ {o}
      PROVE  TimerInv' /\ AllExact'
  <2>1. /\ o \in Alive /\ End({}, {o}, ms) /\ created' = created /\ cbList' = cbList
        /\ cbList' \in Seq(Owners)
    BY <1>5, <1>1 DEF wait, TimerInv, TypeOK
  <2>2. {} \in SUBSET Alive /\ {o} \in SUBSET (Alive \ {}) /\ ms \in Nat /\ ms # 0
    BY <2>1, <1>4
  <2>3. /\ TimerInv' /\ Alive' = Alive
        /\ slot'[o] = slot[o] /\ timers'[slot[o]].ms = ms
        /\ asked'[o] = ms /\ waited'[o] = 0
        /\ \A p \in Alive \ {o} :
              /\ slot'[p] = slot[p] /\ timers'[slot[p]] = timers[slot[p]]
              /\ asked'[p] = asked[p] /\ waited'[p] = waited[p]
    <3> DEFINE F == {}
               W == {o}
    <3>1. F \in SUBSET Alive /\ W \in SUBSET (Alive \ F) /\ End(F, W, ms)
      BY <2>1, <2>2
    <3> HIDE DEF F, W
    <3>2. /\ TimerInv' /\ Alive' = Alive \ F
          /\ \A p \in W : /\ slot'[p] = slot[p] /\ timers'[slot[p]].ms = ms
                          /\ asked'[p] = ms /\ waited'[p] = 0
          /\ \A p \in Alive \ (F \cup W) :
                /\ slot'[p] = slot[p] /\ timers'[slot[p]] = timers[slot[p]]
                /\ asked'[p] = asked[p] /\ waited'[p] = waited[p]
      BY <1>1, <2>1, <2>2, <3>1, EndKeeps
    <3> QED
      BY <3>2 DEF F, W
  <2>4. Exact(o)'
    BY <1>1, <2>2, <2>3, ExactAnew
  <2>5. ASSUME NEW p \in Alive' \ misled', p # o PROVE Exact(p)'
    <3>1. p \in Alive \ {o} /\ p \in Alive \ misled
      BY <1>5, <2>3, <2>5
    <3>2. Exact(p)
      BY <1>1, <3>1 DEF AllExact
    <3> QED
      BY <1>1, <2>3, <3>1, <3>2, ExactStays
  <2> QED
    BY <2>3, <2>4, <2>5 DEF AllExact
<1>6. ASSUME NEW o \in Owners, cancel(o), misled' = misled
      PROVE  TimerInv' /\ AllExact'
  <2>1. /\ TimerInv' /\ Alive' = Alive /\ slot' = slot
        /\ asked' = asked /\ waited' = waited
        /\ o \in Alive /\ timers'[slot[o]].owner = 0
        /\ \A p \in Alive \ {o} : timers'[slot[p]] = timers[slot[p]]
    BY <1>1, <1>6, CancelKeeps
  <2>2. Exact(o)'
    BY <2>1, ExactIdle
  <2>3. ASSUME NEW p \in Alive' \ misled', p # o PROVE Exact(p)'
    <3>1. p \in Alive \ {o} /\ p \in Alive \ misled
      BY <1>6, <2>1, <2>3
    <3>2. Exact(p)
      BY <1>1, <3>1 DEF AllExact
    <3> QED
      BY <1>1, <2>1, <3>1, <3>2, ExactStays
  <2> QED
    BY <2>1, <2>2, <2>3 DEF AllExact
<1>7. ASSUME NEW o \in Owners, NEW suspended \in BOOLEAN,
             setSuspended(o, suspended), misled' = misled
      PROVE  TimerInv' /\ AllExact'
  <2>1. /\ TimerInv' /\ Alive' = Alive /\ slot' = slot
        /\ asked' = asked /\ waited' = waited
        /\ o \in Alive /\ timers'[slot[o]].owner = timers[slot[o]].owner
        /\ timers'[slot[o]].ms = timers[slot[o]].ms
        /\ \A p \in Alive \ {o} : timers'[slot[p]] = timers[slot[p]]
    BY <1>1, <1>7, SuspendKeeps
  <2>2. ASSUME Exact(o) PROVE Exact(o)'
    BY <1>1, <2>1, <2>2 DEF Exact, Armed
  <2>3. ASSUME NEW p \in Alive' \ misled' PROVE Exact(p)'
    <3>1. p \in Alive \ misled
      BY <1>7, <2>1
    <3>2. Exact(p)
      BY <1>1, <3>1 DEF AllExact
    <3>3. CASE p = o
      BY <2>2, <3>2, <3>3
    <3>4. CASE p # o
      BY <1>1, <2>1, <3>1, <3>2, <3>4, ExactStays
    <3> QED
      BY <3>3, <3>4
  <2> QED
    BY <2>1, <2>3 DEF AllExact
<1>8. ASSUME NEW o \in Owners, free(o), misled' = misled
      PROVE  TimerInv' /\ AllExact'
  <2> DEFINE F == IF o \in Ping \cup Resp THEN Alive ELSE {o}
  <2>1. /\ o \in Alive /\ End(F, {}, 0) /\ created' = created /\ cbList' = cbList
        /\ cbList' \in Seq(Owners)
    BY <1>8, <1>1 DEF free, TimerInv, TypeOK
  <2>2. F \in SUBSET Alive /\ {} \in SUBSET (Alive \ F)
    BY <2>1
  <2> HIDE DEF F
  <2>3. /\ TimerInv' /\ Alive' = Alive \ F
        /\ \A p \in Alive \ (F \cup {}) :
              /\ slot'[p] = slot[p] /\ timers'[slot[p]] = timers[slot[p]]
              /\ asked'[p] = asked[p] /\ waited'[p] = waited[p]
    BY <1>1, <1>4, <2>1, <2>2, EndKeeps
  <2>4. ASSUME NEW p \in Alive' \ misled' PROVE Exact(p)'
    <3>1. p \in Alive \ (F \cup {}) /\ p \in Alive \ misled
      BY <1>8, <2>3
    <3>2. Exact(p)
      BY <1>1, <3>1 DEF AllExact
    <3> QED
      BY <1>1, <2>3, <3>1, <3>2, ExactStays
  <2> QED
    BY <2>3, <2>4 DEF AllExact
<1>9. ASSUME NEW ms \in Timeouts, callback(ms),
             misled' = misled \cap {o \in Alive : Armed(slot[o])}
      PROVE  TimerInv' /\ AllExact'
  <2> DEFINE o == Head(cbList)
  <2>1. o \in Alive /\ created' = created /\ cbList' \in Seq(Owners)
    BY <1>1, <1>9, HeadTailProperties DEF callback, TimerInv, TypeOK
  <2>2. PICK F \in SUBSET Alive, W \in SUBSET Alive : W \in SUBSET (Alive \ F) /\ End(F, W, ms)
    <3>1. pinged \in SUBSET (Alive \ {})
      BY DEF pinged
    <3>2. \/ End({}, pinged, ms) \/ End(Alive, {}, ms)
          \/ End({}, {o}, ms) \/ End({o}, {}, ms)
      BY <1>9 DEF callback
    <3>3. /\ {} \in SUBSET Alive /\ Alive \in SUBSET Alive /\ {o} \in SUBSET Alive
          /\ {} \in SUBSET (Alive \ Alive) /\ {o} \in SUBSET (Alive \ {})
          /\ {} \in SUBSET (Alive \ {o})
      BY <2>1
    <3> QED
      BY <3>1, <3>2, <3>3
  <2>3. ms \in Nat /\ ms # 0
    BY <1>4
  <2>4. /\ TimerInv' /\ Alive' = Alive \ F
        /\ \A p \in W : /\ slot'[p] = slot[p] /\ timers'[slot[p]].ms = ms
                        /\ asked'[p] = ms /\ waited'[p] = 0
        /\ \A p \in Alive \ (F \cup W) :
              /\ slot'[p] = slot[p] /\ timers'[slot[p]] = timers[slot[p]]
              /\ asked'[p] = asked[p] /\ waited'[p] = waited[p]
    BY <1>1, <2>1, <2>2, <2>3, EndKeeps
  <2>5. ASSUME NEW p \in Alive' \ misled' PROVE Exact(p)'
    <3>1. CASE p \in W
      BY <1>1, <2>3, <2>4, <3>1, ExactAnew
    <3>2. CASE p \notin W
      <4>1. p \in Alive \ (F \cup W)
        BY <2>4, <2>5, <3>2
      <4>2. CASE Armed(slot[p])
        <5>1. Exact(p)
          BY <1>1, <1>9, <2>5, <4>1, <4>2 DEF AllExact
        <5> QED
          BY <1>1, <2>4, <4>1, <5>1, ExactStays
      <4>3. CASE ~Armed(slot[p])
        BY <2>4, <4>1, <4>3, ExactIdle DEF Armed
      <4> QED
        BY <4>2, <4>3
    <3> QED
      BY <3>1, <3>2
  <2> QED
    BY <2>4, <2>5 DEF AllExact
<1>10. TimerInv' /\ AllExact'
  BY <1>5, <1>6, <1>7, <1>8, <1>9 DEF InCall
<1> QED
  BY <1>2, <1>3, <1>10 DEF TicksInv

\* The minimum of two numbers.
LEMMA MinOfTwo ==
    ASSUME NEW a \in Nat, NEW b \in Nat
    PROVE  Min({a, b}) \in Nat /\ Min({a, b}) = IF a <= b THEN a ELSE b
<1>1. Min({a, b}) \in {a, b} /\ \A x \in {a, b} : Min({a, b}) <= x
  BY MinOf
<1> HIDE DEF Min
<1> QED
  BY <1>1

\* The time that passes is added to both sides of what a running timer has left:
\* an owner that is still told apart waits for no longer than since is.
LEMMA ElapseKeeps ==
    ASSUME TicksInv, Elapse
    PROVE  TicksInv'
<1>1. /\ TimerInv /\ TicksTypes /\ AllExact /\ TickProgrammed
      /\ ~guarded /\ queued = <<>> /\ guarded' = guarded /\ misled' = misled
      /\ since' = Min({since + 1, MaxSince})
      /\ waited' = [o \in Owners |->
                      IF o \in RunningOwners THEN Min({waited[o] + 1, MaxSince})
                                             ELSE waited[o]]
      /\ timers' = timers /\ allocatedTimers' = allocatedTimers /\ slot' = slot
      /\ created' = created /\ cbList' = cbList /\ asked' = asked
  BY DEF TicksInv, Elapse
<1>2. MaxSince \in Nat /\ since \in 0 .. MaxSince
  BY <1>1, AppTicksAssumption DEF TicksTypes, AppTicksAssumption
<1>3. since' \in 0 .. MaxSince /\ (since + 1 <= MaxSince => since' = since + 1)
  BY <1>1, <1>2, MinOfTwo
<1>4. ASSUME NEW o \in Owners
      PROVE  /\ o \notin RunningOwners => waited'[o] = waited[o]
             /\ o \in RunningOwners => waited'[o] = IF waited[o] + 1 <= MaxSince
                                                     THEN waited[o] + 1 ELSE MaxSince
             /\ waited'[o] \in Nat
  <2>1. waited[o] \in Nat
    BY <1>1 DEF TimerInv, TypeOK
  <2>2. /\ Min({waited[o] + 1, MaxSince}) \in Nat
        /\ Min({waited[o] + 1, MaxSince}) = IF waited[o] + 1 <= MaxSince
                                            THEN waited[o] + 1 ELSE MaxSince
    BY <1>2, <2>1, MinOfTwo
  <2> QED
    BY <1>1, <2>1, <2>2
<1>5. Alive' = Alive
  BY <1>1 DEF Alive
<1>6. TimerInv'
  <2>1. waited' \in [Owners -> Nat]
    BY <1>1, <1>4
  <2>2. TypeOK'
    BY <1>1, <2>1 DEF TimerInv, TypeOK
  <2>3. SlotsInv'
    BY <1>1, <1>5 DEF TimerInv, SlotsInv
  <2> QED
    BY <2>2, <2>3 DEF TimerInv
<1>7. TicksTypes' /\ (pending # NoWait => queued' # <<>> \/
                         (pending' # NoWait /\ pending'.duration = pending.duration))
  <2>1. /\ pending \in [duration : Nat, left : Nat]
        /\ pending = NoWait \/ pending.left \in 1 .. pending.duration
    BY <1>1 DEF TicksTypes
  <2>2. CASE pending.left = 1
    <3>1. queued' = <<pending.duration>> /\ pending' = NoWait
      BY <2>2 DEF Elapse
    <3>2. queued' \in Seq(Nat) /\ queued' # <<>>
      BY <2>1, <3>1
    <3>3. pending' \in [duration : Nat, left : Nat]
      BY <3>1 DEF NoWait
    <3> QED
      BY <1>1, <1>3, <3>1, <3>2, <3>3 DEF TicksTypes, NoWait
  <2>3. CASE pending.left # 1 /\ pending = NoWait
    <3>1. queued' = queued /\ pending' = pending
      BY <2>3 DEF Elapse
    <3> QED
      BY <1>1, <1>3, <2>1, <2>3, <3>1 DEF TicksTypes, NoWait
  <2>4. CASE pending.left # 1 /\ pending # NoWait
    <3>1. queued' = queued /\ pending' = [pending EXCEPT !.left = pending.left - 1]
      BY <2>4 DEF Elapse
    <3>2. pending.left - 1 \in 1 .. pending.duration
      BY <2>1, <2>4
    <3>3. /\ pending' \in [duration : Nat, left : Nat] /\ pending'.duration = pending.duration
          /\ pending'.left = pending.left - 1
      BY <2>1, <3>1, <3>2
    <3>4. pending'.duration # 0
      BY <2>1, <3>2, <3>3
    <3>5. pending' # NoWait
      BY <3>4 DEF NoWait
    <3> QED
      BY <1>1, <1>3, <3>1, <3>2, <3>3, <3>5 DEF TicksTypes, NoWait
  <2> QED
    BY <2>2, <2>3, <2>4
<1>8. ASSUME NEW o \in Alive' \ misled' PROVE Exact(o)'
  <2>1. o \in Alive \ misled /\ Exact(o) /\ o \in Owners
    BY <1>1, <1>5, <1>8 DEF AllExact, Alive
  <2>2. /\ timers[slot[o]].ms \in Nat /\ asked[o] \in Nat /\ waited[o] \in Nat
    BY <1>1, <2>1, OwnerTypes
  <2>3. CASE o \notin RunningOwners
    <3>1. ~Running(slot[o]) /\ waited'[o] = waited[o]
      BY <1>4, <2>1, <2>3 DEF RunningOwners
    <3> QED
      BY <1>1, <2>1, <3>1 DEF Exact, Armed, Running
  <2>4. CASE o \in RunningOwners
    <3> SUFFICES ASSUME waited'[o] < MaxSince
                 PROVE  timers[slot[o]].ms + waited'[o] = asked[o] + since'
      <4>1. Running(slot[o]) /\ Running(slot[o])'
        BY <1>1, <2>4 DEF RunningOwners, Running, Armed
      <4> QED
        BY <1>1, <4>1 DEF Exact
    <3>1. waited'[o] = waited[o] + 1 /\ waited[o] < MaxSince
      BY <1>2, <1>4, <2>1, <2>2, <2>4
    <3>2. Armed(slot[o]) /\ Running(slot[o])
      BY <2>4 DEF RunningOwners, Running
    <3>3. timers[slot[o]].ms + waited[o] = asked[o] + since
      BY <1>1, <2>1, <3>1, <3>2 DEF Exact
    <3>4. timers[slot[o]].ms <= asked[o]
      BY <1>1, <2>1, <2>2, <3>2, ArmedFor
    <3>5. since + 1 <= MaxSince
      BY <1>2, <2>2, <3>1, <3>3, <3>4
    <3> QED
      BY <1>2, <1>3, <2>2, <3>1, <3>3, <3>5
  <2> QED
    BY <2>3, <2>4
<1>9. TickProgrammed'
  <2> SUFFICES ASSUME NEW o \in RunningOwners' \ misled'
               PROVE  \/ queued' # <<>>
                      \/ pending' # NoWait /\ pending'.duration <= timers'[slot'[o]].ms
    BY DEF TickProgrammed, NoWait
  <2>1. o \in RunningOwners \ misled
    BY <1>1, <1>5 DEF RunningOwners, Running, Armed
  <2>2. pending # NoWait /\ pending.duration <= timers[slot[o]].ms
    BY <1>1, <2>1 DEF TickProgrammed
  <2> QED
    BY <1>1, <1>7, <2>2
<1> QED
  BY <1>6, <1>7, <1>8, <1>9 DEF TicksInv, AllExact

\* A tick with the time since the wait was programmed leaves every timer with
\* its time, none of it unreported.
LEMMA ExactTicked ==
    ASSUME TicksInv, ~guarded, guarded', NEW ms \in Nat, tick(ms), NEW o \in Alive, Exact(o),
           ms = since \/ o \notin RunningOwners
    PROVE  Exact(o)'
<1>1. TimerInv
  BY DEF TicksInv
<1>2. /\ slot' = slot /\ asked' = asked /\ waited' = waited
      /\ \A i \in 1 .. Len(timers) :
            /\ ~Running(i) => timers'[i] = timers[i]
            /\ Running(i) /\ timers[i].ms <= ms => timers'[i].owner = 0
            /\ Running(i) /\ ~(timers[i].ms <= ms) =>
                  timers'[i].owner = timers[i].owner /\ timers'[i].ms = timers[i].ms - ms
  BY <1>1, TickKeeps
<1>3. slot[o] \in 1 .. Len(timers) /\ timers[slot[o]].ms \in Nat /\ asked[o] \in Nat
         /\ waited[o] \in Nat
  BY <1>1, OwnerTypes
<1>4. CASE ~Running(slot[o])
  <2>1. timers'[slot[o]] = timers[slot[o]]
    BY <1>2, <1>3, <1>4
  <2> QED
    BY <1>2, <1>4, <2>1 DEF Exact, Armed
<1>5. CASE Running(slot[o]) /\ timers[slot[o]].ms <= ms
  BY <1>2, <1>3, <1>5, ExactIdle
<1>6. CASE Running(slot[o]) /\ ~(timers[slot[o]].ms <= ms)
  <2>1. ms = since /\ Armed(slot[o])
    BY <1>6 DEF RunningOwners, Running
  <2>2. timers'[slot[o]].ms = timers[slot[o]].ms - ms
    BY <1>2, <1>3, <1>6
  <2> SUFFICES ASSUME waited[o] < MaxSince
               PROVE  timers'[slot[o]].ms + waited[o] = asked[o]
    BY <1>2, <1>3 DEF Exact
  <2>3. timers[slot[o]].ms + waited[o] = asked[o] + ms
    BY <1>6, <2>1 DEF Exact
  <2> DEFINE left == timers[slot[o]].ms
  <2>4. left \in Nat /\ left + waited[o] = asked[o] + ms
    BY <1>3, <2>3
  <2> HIDE DEF left
  <2>5. (left - ms) + waited[o] = asked[o]
    BY <1>3, <2>4
  <2> QED
    BY <2>2, <2>5 DEF left
<1> QED
  BY <1>4, <1>5, <1>6

\* The handler of a wait: the duration is charged once, or the timers that run
\* are misled.
LEMMA HandleWaitKeeps ==
    ASSUME TicksInv, HandleWait
    PROVE  TicksInv'
<1>1. /\ TimerInv /\ TicksTypes /\ AllExact
      /\ ~guarded /\ guarded' = TRUE /\ queued # <<>> /\ queued' = Tail(queued)
      /\ tick(Head(queued)) /\ pending' = pending /\ since' = since
      /\ misled' = IF since = Head(queued) THEN misled ELSE misled \cup RunningOwners
  BY DEF TicksInv, HandleWait
<1>2. Head(queued) \in Nat /\ queued' \in Seq(Nat)
  BY <1>1, HeadTailProperties DEF TicksTypes
<1>3. TimerInv' /\ Alive' = Alive
  BY <1>1, <1>2, TickKeeps
<1>4. TicksTypes'
  BY <1>1, <1>2 DEF TicksTypes, NoWait
<1>5. ASSUME NEW o \in Alive' \ misled' PROVE Exact(o)'
  <2>1. o \in Alive /\ o \notin misled /\ (Head(queued) = since \/ o \notin RunningOwners)
    BY <1>1, <1>3, <1>5
  <2>2. Exact(o)
    BY <1>1, <2>1 DEF AllExact
  <2> QED
    BY <1>1, <1>2, <2>1, <2>2, ExactTicked
<1>6. TickProgrammed'
  BY <1>1 DEF TickProgrammed
<1> QED
  BY <1>3, <1>4, <1>5, <1>6 DEF TicksInv, AllExact

\* The entry of a call reports the time since the wait was programmed, if any
\* timer runs.
LEMMA EnterKeeps ==
    ASSUME TicksInv, doApiEnter
    PROVE  TicksInv'
<1>1. /\ TimerInv /\ TicksTypes /\ AllExact
      /\ ~guarded /\ guarded' = TRUE /\ queued' = queued /\ since' = since
      /\ misled' = misled
  BY DEF TicksInv, doApiEnter
<1>2. TickProgrammed'
  BY <1>1 DEF TickProgrammed
<1>3. CASE getMinWait = 0
  <2>1. RunningOwners = {}
    BY <1>1, <1>3, MinWait
  <2>2. UNCHANGED <<timerVars, pending>>
    BY <1>3 DEF doApiEnter
  <2>3. Alive' = Alive
    BY <2>2 DEF Alive, timerVars
  <2>4. TypeOK'
    BY <1>1, <2>2 DEF TimerInv, TypeOK, timerVars
  <2>5. SlotsInv'
    BY <1>1, <2>2, <2>3 DEF TimerInv, SlotsInv, timerVars
  <2>6. TicksTypes'
    BY <1>1, <2>2 DEF TicksTypes, NoWait
  <2>7. ASSUME NEW o \in Alive' \ misled' PROVE Exact(o)'
    <3>1. o \in Alive /\ Exact(o) /\ ~Running(slot[o])
      BY <1>1, <2>1, <2>3, <2>7 DEF AllExact, RunningOwners
    <3> QED
      BY <1>1, <2>2, <3>1 DEF Exact, Armed, timerVars
  <2> QED
    BY <1>2, <2>4, <2>5, <2>6, <2>7 DEF TicksInv, TimerInv, AllExact
<1>4. CASE getMinWait # 0
  <2>1. pending' = NoWait /\ tick(since)
    BY <1>4 DEF doApiEnter, cancelNextTickWait
  <2>2. since \in Nat
    BY <1>1, AppTicksAssumption DEF TicksTypes, AppTicksAssumption
  <2>3. TimerInv' /\ Alive' = Alive
    BY <1>1, <2>1, <2>2, TickKeeps
  <2>4. TicksTypes'
    BY <1>1, <2>1 DEF TicksTypes, NoWait
  <2>5. ASSUME NEW o \in Alive' \ misled' PROVE Exact(o)'
    <3>1. o \in Alive /\ Exact(o)
      BY <1>1, <2>3, <2>5 DEF AllExact
    <3> QED
      BY <1>1, <2>1, <2>2, <3>1, ExactTicked
  <2> QED
    BY <1>2, <2>3, <2>4, <2>5 DEF TicksInv, AllExact
<1> QED
  BY <1>3, <1>4

\* The exit of a call programs a wait that no running timer outlasts.
LEMMA ExitKeeps ==
    ASSUME TicksInv, doApiExit
    PROVE  TicksInv'
<1>1. /\ TimerInv /\ TicksTypes /\ AllExact /\ guarded /\ guarded' = FALSE
      /\ queued' = queued /\ misled' = misled /\ UNCHANGED timerVars
  BY DEF TicksInv, doApiExit
<1>2. /\ getMinWait \in Nat /\ (getMinWait = 0 => RunningOwners = {})
      /\ getMinWait # 0 => \A o \in RunningOwners : getMinWait <= timers[slot[o]].ms
  BY <1>1, MinWait
<1>3. Alive' = Alive /\ RunningOwners' = RunningOwners
  BY <1>1 DEF Alive, RunningOwners, Running, Armed, timerVars
<1>4. TypeOK'
  BY <1>1 DEF TimerInv, TypeOK, timerVars
<1>5. SlotsInv'
  BY <1>1, <1>3 DEF TimerInv, SlotsInv, timerVars
<1>6. MaxSince \in Nat
  BY AppTicksAssumption DEF AppTicksAssumption
<1>7. CASE getMinWait = 0
  <2>1. pending' = pending /\ since' = since
    BY <1>7 DEF doApiExit
  <2>2. TicksTypes'
    BY <1>1, <2>1 DEF TicksTypes, NoWait
  <2>3. TickProgrammed'
    BY <1>2, <1>3, <1>7 DEF TickProgrammed
  <2>4. ASSUME NEW o \in Alive' \ misled' PROVE Exact(o)'
    <3>1. o \in Alive /\ Exact(o) /\ ~Running(slot[o])
      BY <1>1, <1>2, <1>3, <1>7, <2>4 DEF AllExact, RunningOwners
    <3> QED
      BY <1>1, <3>1 DEF Exact, Armed, Running, timerVars
  <2> QED
    BY <1>4, <1>5, <2>2, <2>3, <2>4 DEF TicksInv, TimerInv, AllExact
<1>8. CASE getMinWait # 0
  <2> DEFINE d == getMinWait
  <2>1. pending' = [duration |-> d, left |-> d] /\ since' = 0
    BY <1>8 DEF doApiExit, nextTickProgram, sinceProgrammed
  <2> HIDE DEF d
  <2>2. d \in Nat /\ d # 0 /\ \A o \in RunningOwners : d <= timers[slot[o]].ms
    BY <1>2, <1>8 DEF d
  <2>3. /\ pending' \in [duration : Nat, left : Nat] /\ pending'.duration = d
        /\ pending'.left = d /\ pending' # NoWait
    BY <2>1, <2>2 DEF NoWait
  <2>4. TicksTypes'
    <3>1. d \in 1 .. d /\ 0 \in 0 .. MaxSince
      BY <1>6, <2>2
    <3>2. guarded' \in BOOLEAN /\ queued' \in Seq(Nat)
      BY <1>1 DEF TicksTypes
    <3> QED
      BY <2>1, <2>3, <3>1, <3>2 DEF TicksTypes
  <2>5. TickProgrammed'
    <3> SUFFICES ASSUME NEW o \in RunningOwners' \ misled'
                 PROVE  pending' # NoWait /\ pending'.duration <= timers'[slot'[o]].ms
      BY DEF TickProgrammed, NoWait
    <3> QED
      BY <1>1, <1>3, <2>2, <2>3 DEF timerVars
  <2>6. ASSUME NEW o \in Alive' \ misled' PROVE Exact(o)'
    <3>1. o \in Alive /\ Exact(o)
      BY <1>1, <1>3, <2>6 DEF AllExact
    <3> QED
      BY <1>1, <2>1, <3>1 DEF Exact, Armed, Running, timerVars
  <2> QED
    BY <1>4, <1>5, <2>4, <2>5, <2>6 DEF TicksInv, TimerInv, AllExact
<1> QED
  BY <1>7, <1>8

\* An owner of a running timer keeps its wait while its slot does not change.
LEMMA ProgrammedStays ==
    ASSUME TickProgrammed, ~guarded, NEW o \in RunningOwners, o \notin misled,
           slot'[o] = slot[o], timers'[slot[o]] = timers[slot[o]],
           pending' = pending, queued' = queued
    PROVE  \/ queued' # <<>>
           \/ pending' # NoWait /\ pending'.duration <= timers'[slot'[o]].ms
BY DEF TickProgrammed

\* An operation made outside of a call has no timer armed.
LEMMA PrepareKeeps ==
    ASSUME TicksInv, Prepare
    PROVE  TicksInv'
<1>1. /\ TimerInv /\ TicksTypes /\ AllExact /\ TickProgrammed /\ ~guarded /\ allocTimer
      /\ guarded' = guarded /\ pending' = pending /\ since' = since /\ queued' = queued
      /\ misled' = misled
  BY DEF TicksInv, Prepare
<1>2. /\ TimerInv' /\ asked' = asked /\ waited' = waited
      /\ \A o \in Alive : slot'[o] = slot[o] /\ timers'[slot[o]] = timers[slot[o]]
      /\ \A o \in Alive' \ Alive : timers'[slot'[o]].owner = 0
  BY <1>1, AllocKeeps
<1>3. TicksTypes'
  BY <1>1 DEF TicksTypes, NoWait
<1>4. ASSUME NEW o \in Alive' \ misled' PROVE Exact(o)'
  <2>1. CASE o \in Alive
    <3>1. Exact(o)
      BY <1>1, <1>4, <2>1 DEF AllExact
    <3> QED
      BY <1>1, <1>2, <2>1, <3>1, ExactStays
  <2>2. CASE o \notin Alive
    BY <1>2, <1>4, <2>2, ExactIdle
  <2> QED
    BY <2>1, <2>2
<1>5. TickProgrammed'
  <2> SUFFICES ASSUME NEW o \in RunningOwners' \ misled'
               PROVE  \/ queued' # <<>>
                      \/ pending' # NoWait /\ pending'.duration <= timers'[slot'[o]].ms
    BY DEF TickProgrammed, NoWait
  <2>1. o \in Alive' /\ timers'[slot'[o]].owner # 0
    BY DEF RunningOwners, Running, Armed
  <2>2. o \in Alive
    BY <1>2, <2>1
  <2>3. o \in RunningOwners /\ o \notin misled
    BY <1>1, <1>2, <2>2 DEF RunningOwners, Running, Armed
  <2> QED
    BY <1>1, <1>2, <2>2, <2>3, ProgrammedStays
<1> QED
  BY <1>2, <1>3, <1>4, <1>5 DEF TicksInv, AllExact

\* A cancelled publish: only the one that is resumed has a timer without a wait,
\* and it counts as misled.
LEMMA CancelSendKeeps ==
    ASSUME TicksInv, NEW o \in Owners, NEW ms \in Timeouts, NEW resumed,
           CancelSend(o, resumed, ms)
    PROVE  TicksInv'
<1> DEFINE F == {o}
<1>1. /\ TimerInv /\ TicksTypes /\ AllExact /\ TickProgrammed /\ ~guarded /\ o \in Alive
      /\ resumed \in SUBSET (Alive \ F) /\ End(F, resumed, ms)
      /\ guarded' = guarded /\ pending' = pending /\ since' = since /\ queued' = queued
      /\ misled' = misled \cup resumed /\ created' = created /\ cbList' = cbList
  BY DEF TicksInv, CancelSend
<1>2. ms \in Nat /\ ms # 0 /\ F \in SUBSET Alive /\ cbList' \in Seq(Owners)
  BY <1>1, TimerMgrAssumption DEF TimerMgrAssumption, TimerInv, TypeOK
<1> HIDE DEF F
<1>3. /\ TimerInv' /\ Alive' = Alive \ F
      /\ \A p \in Alive \ (F \cup resumed) :
            /\ slot'[p] = slot[p] /\ timers'[slot[p]] = timers[slot[p]]
            /\ asked'[p] = asked[p] /\ waited'[p] = waited[p]
  BY <1>1, <1>2, EndKeeps
<1>4. TicksTypes'
  BY <1>1 DEF TicksTypes, NoWait
<1>5. ASSUME NEW p \in Alive' \ misled' PROVE Exact(p)'
  <2>1. p \in Alive \ (F \cup resumed) /\ p \in Alive \ misled
    BY <1>1, <1>3, <1>5
  <2>2. Exact(p)
    BY <1>1, <2>1 DEF AllExact
  <2> QED
    BY <1>1, <1>3, <2>1, <2>2, ExactStays
<1>6. TickProgrammed'
  <2> SUFFICES ASSUME NEW p \in RunningOwners' \ misled'
               PROVE  \/ queued' # <<>>
                      \/ pending' # NoWait /\ pending'.duration <= timers'[slot'[p]].ms
    BY DEF TickProgrammed, NoWait
  <2>1. p \in Alive \ (F \cup resumed) /\ p \notin misled
    BY <1>1, <1>3 DEF RunningOwners
  <2>2. p \in RunningOwners
    BY <1>3, <2>1 DEF RunningOwners, Running, Armed
  <2> QED
    BY <1>1, <1>3, <2>1, <2>2, ProgrammedStays
<1> QED
  BY <1>3, <1>4, <1>5, <1>6 DEF TicksInv, AllExact

\* The invariant holds initially.
LEMMA InitTicks ==
    Init => TicksInv
<1> SUFFICES ASSUME Init PROVE TicksInv
  OBVIOUS
<1>1. MaxOwners \in Nat /\ TimersLimit \in Nat /\ MaxSince \in Nat
  BY TimerMgrAssumption, AppTicksAssumption DEF TimerMgrAssumption, AppTicksAssumption
<1>2. /\ timers = <<>> /\ allocatedTimers = 0 /\ slot = [o \in Owners |-> 0]
      /\ created = 0 /\ cbList = <<>>
      /\ asked = [o \in Owners |-> 0] /\ waited = [o \in Owners |-> 0]
      /\ guarded = FALSE /\ pending = NoWait /\ since = 0 /\ queued = <<>> /\ misled = {}
  BY DEF Init, TimerInit
<1>3. Alive = {} /\ Len(timers) = 0
  BY <1>2 DEF Alive
<1>4. TypeOK
  <2>1. timers \in Seq([allocated : BOOLEAN, owner : 0 .. MaxOwners, ms : Nat,
                        suspended : BOOLEAN])
    BY <1>2
  <2>2. slot \in [Owners -> 0 .. Len(timers)] /\ created \in 0 .. MaxOwners
    BY <1>1, <1>2, <1>3
  <2>3. cbList \in Seq(Owners) /\ asked \in [Owners -> Nat] /\ waited \in [Owners -> Nat]
    BY <1>2
  <2> QED
    BY <1>1, <1>3, <2>1, <2>2, <2>3 DEF TypeOK
<1>5. SlotsInv
  <2>1. allocatedTimers = Cardinality(Alive)
    BY <1>2, <1>3, FS_EmptySet
  <2> QED
    BY <1>3, <2>1 DEF SlotsInv
<1>6. TicksTypes
  <2>1. since \in 0 .. MaxSince
    BY <1>1, <1>2
  <2>2. guarded \in BOOLEAN
    BY <1>2, Zenon
  <2>3. queued \in Seq(Nat)
    BY <1>2
  <2>4. pending \in [duration : Nat, left : Nat]
    BY <1>2 DEF NoWait
  <2> QED
    BY <1>2, <2>1, <2>2, <2>3, <2>4 DEF TicksTypes
<1>7. AllExact /\ TickProgrammed
  BY <1>3 DEF AllExact, TickProgrammed, RunningOwners
<1> QED
  BY <1>4, <1>5, <1>6, <1>7 DEF TicksInv, TimerInv

\* A step that changes nothing keeps the invariant.
LEMMA StutterTicks ==
    ASSUME TicksInv, UNCHANGED vars
    PROVE  TicksInv'
<1>1. /\ UNCHANGED timerVars /\ guarded' = guarded /\ pending' = pending /\ since' = since
      /\ queued' = queued /\ misled' = misled
  BY DEF vars
<1>2. Alive' = Alive /\ RunningOwners' = RunningOwners
  BY <1>1 DEF Alive, RunningOwners, Running, Armed, timerVars
<1>3. TypeOK'
  BY <1>1 DEF TicksInv, TimerInv, TypeOK, timerVars
<1>4. SlotsInv'
  BY <1>1, <1>2 DEF TicksInv, TimerInv, SlotsInv, timerVars
<1>5. TicksTypes'
  BY <1>1 DEF TicksInv, TicksTypes, NoWait
<1>6. AllExact'
  <2> SUFFICES ASSUME NEW o \in Alive' \ misled' PROVE Exact(o)'
    BY DEF AllExact
  <2>1. Exact(o)
    BY <1>1, <1>2 DEF TicksInv, AllExact
  <2> QED
    BY <1>1, <2>1, ExactStays DEF timerVars
<1>7. TickProgrammed'
  BY <1>1, <1>2 DEF TicksInv, TickProgrammed, NoWait, timerVars
<1> QED
  BY <1>3, <1>4, <1>5, <1>6, <1>7 DEF TicksInv, TimerInv

\* Every step keeps the invariant.
LEMMA NextTicks ==
    TicksInv /\ [Next]_vars => TicksInv'
<1> SUFFICES ASSUME TicksInv, [Next]_vars PROVE TicksInv'
  OBVIOUS
<1>1. CASE Elapse
  BY <1>1, ElapseKeeps
<1>2. CASE HandleWait
  BY <1>2, HandleWaitKeeps
<1>3. CASE doApiEnter
  BY <1>3, EnterKeeps
<1>4. CASE doApiExit
  BY <1>4, ExitKeeps
<1>5. CASE InCall
  BY <1>5, InCallKeeps
<1>6. CASE Prepare
  BY <1>6, PrepareKeeps
<1>7. ASSUME NEW o \in Owners, NEW ms \in Timeouts,
             NEW resumed \in {{}} \cup {{p} : p \in Owners}, CancelSend(o, resumed, ms)
      PROVE  TicksInv'
  BY <1>7, CancelSendKeeps
<1>8. CASE UNCHANGED vars
  BY <1>8, StutterTicks
<1> QED
  BY <1>1, <1>2, <1>3, <1>4, <1>5, <1>6, <1>7, <1>8 DEF Next

\* The invariant gives the count of the timers: owners and allocated slots are
\* one to one.
LEMMA SlotsCounted ==
    TicksInv => CountExact
<1> SUFFICES ASSUME TicksInv PROVE CountExact
  OBVIOUS
<1> DEFINE used == {i \in Indices : timers[i].allocated}
           f == [o \in Alive |-> slot[o]]
<1>1. /\ Indices = 1 .. Len(timers) /\ Alive \subseteq Owners
      /\ \A o \in Alive : slot[o] \in 1 .. Len(timers)
  BY TimerTypes DEF TicksInv, TimerInv
<1>2. IsFiniteSet(Alive)
  BY <1>1, OwnersFinite
<1>3. \A o \in Alive : slot[o] \in used
  BY <1>1 DEF TicksInv, TimerInv, SlotsInv
<1>4. \A i \in used : \E o \in Alive : slot[o] = i
  BY <1>1 DEF TicksInv, TimerInv, SlotsInv
<1>5. \A o, p \in Alive : slot[o] = slot[p] => o = p
  BY DEF TicksInv, TimerInv, SlotsInv
<1> HIDE DEF used
<1>6. f \in Bijection(Alive, used)
  <2>1. f \in [Alive -> used]
    BY <1>3
  <2>2. \A i \in used : \E o \in Alive : f[o] = i
    BY <1>4
  <2>3. \A o, p \in Alive : f[o] = f[p] => o = p
    BY <1>5
  <2> HIDE DEF f
  <2> QED
    BY <2>1, <2>2, <2>3 DEF Bijection, Injection, Surjection, IsInjective
<1> HIDE DEF f
<1>7. ExistsBijection(Alive, used)
  BY <1>6 DEF ExistsBijection
<1>8. Cardinality(used) = Cardinality(Alive)
  BY <1>2, <1>7, FS_Bijection
<1> QED
  BY <1>5, <1>8 DEF CountExact, used, TicksInv, TimerInv, SlotsInv

\* The invariant gives the time left of every owner, and whose timer it is.
LEMMA OwnersExact ==
    TicksInv => TimeLeftExact
<1> SUFFICES ASSUME TicksInv, NEW o \in Alive \ misled, Armed(slot[o]), waited[o] < MaxSince
             PROVE  /\ timers[slot[o]].owner = o
                    /\ timers[slot[o]].ms + waited[o] =
                          asked[o] + (IF guarded \/ ~Running(slot[o]) THEN 0 ELSE since)
  BY DEF TimeLeftExact
<1>1. timers[slot[o]].owner = o
  BY ArmedFor DEF TicksInv
<1>2. Exact(o)
  BY DEF TicksInv, AllExact
<1> QED
  BY <1>1, <1>2 DEF Exact

\* The inductive invariant holds in every state.
LEMMA TicksAlways ==
    Spec => []TicksInv
BY InitTicks, NextTicks, PTL DEF Spec

------------------------------------------------------------------------------
(* Theorems. *)

\* The slots of the timers fit their storage and every variable keeps its type,
\* whatever the operations do and in whatever order (TimerMgr::allocTimer()).
THEOREM TimersTypeCorrect ==
    Spec => []TypeOK
<1>1. TicksInv => TypeOK
  BY DEF TicksInv, TimerInv
<1> QED
  BY <1>1, TicksAlways, PTL

\* m_allocatedTimers is the number of allocated slots and of owners, and no slot
\* has two owners, through slots that are freed and reused (TimerMgr::allocTimer()
\* and freeTimer()).
THEOREM TimersCounted ==
    Spec => []CountExact
BY SlotsCounted, TicksAlways, PTL

\* What a timer has left is the timeout asked for less the time that has passed
\* and was reported (TimerMgr::tick(), ClientImpl::doApiEnter() and doApiExit(),
\* the waits of AppClient).
THEOREM TimeLeftCorrect ==
    Spec => []TimeLeftExact
BY OwnersExact, TicksAlways, PTL

\* Between two calls no running timer is without a wait that ends in time
\* (ClientImpl::doApiExit(), AppClient::nextTickProgramInternal()).
THEOREM TickAlwaysProgrammed ==
    Spec => []TickProgrammed
<1>1. TicksInv => TickProgrammed
  BY DEF TicksInv
<1> QED
  BY <1>1, TicksAlways, PTL
==============================================================================
