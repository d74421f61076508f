------------------------- MODULE NetClientProofs ----------------------------
(***************************************************************************)
(* Proofs about the client's netcode.  Prediction and rollback, for every  *)
(* capacity, depth limit, world, input set and step function: the types,   *)
(* that no rollback is left pending, that the ring ends at the current     *)
(* tick, that every tick a rollback can replay still has its inputs, and   *)
(* that entries of one tick agree.  The connection, for every timeout,     *)
(* retry interval, retry limit and call spacing: that an outage never      *)
(* outlives its budget.                                                    *)
(***************************************************************************)
EXTENDS NetClient, ListLemmas

(* Prediction and rollback *)

\* An entry is never ahead of the client, and an entry with k younger ones
\* behind it is at most k ticks old: from one entry to the next the tick
\* grows by at most one, and the last entry is the current tick.
Spaced(buf, t) ==
  \A k \in DOMAIN buf : buf[k].tick <= t /\ buf[k].tick + (Len(buf) - k) >= t

IInv ==
  /\ TypeOK
  /\ NoDanglingRollback
  /\ Spaced(snapshot_buffer, tick)
  /\ ReplayInputsKept

-----------------------------------------------------------------------------
(* The buffers *)

\* The entries of a snapshot buffer are indexed from 1 and carry a tick of the model.
LEMMA EntryType ==
  ASSUME NEW buf \in Seq(Snapshots), NEW k \in DOMAIN buf
  PROVE  /\ Len(buf) \in Nat /\ DOMAIN buf = 1 .. Len(buf) /\ k \in 1 .. Len(buf)
         /\ buf[k] \in Snapshots /\ buf[k].tick \in 0 .. MaxTick /\ buf[k].tick \in Nat
<1>1. /\ Len(buf) \in Nat /\ DOMAIN buf = 1 .. Len(buf)
      /\ buf[k] \in Snapshots
  OBVIOUS
<1>2. \A s \in Snapshots : s.tick \in 0 .. MaxTick /\ s.tick \in Nat
  BY DepthAssumption DEF Snapshots
<1> QED BY <1>1, <1>2

\* Concatenation, element by element.
LEMMA ConcatFacts ==
  ASSUME NEW S, NEW a \in Seq(S), NEW b \in Seq(S)
  PROVE  /\ a \o b \in Seq(S)
         /\ Len(a \o b) = Len(a) + Len(b)
         /\ \A j \in 1 .. Len(a) + Len(b) :
              (a \o b)[j] = IF j <= Len(a) THEN a[j] ELSE b[j - Len(a)]
OBVIOUS

\* An entry that is d entries from the end of the buffer at tick t, and moves
\* n entries further from it while the client advances by e <= n ticks, stays
\* spaced.
LEMMA StaysSpaced ==
  ASSUME NEW a \in Nat, NEW t \in Nat, NEW d \in Int, NEW n \in Nat, NEW e \in Nat,
         a <= t, a + d >= t, e <= n
  PROVE  a <= t + e /\ a + (d + n) >= t + e
OBVIOUS

\* What push leaves behind: a shorter-than-capacity buffer with the new entry
\* last and, before it, entries of the old buffer at their old distance from the end.
LEMMA PushFacts ==
  ASSUME NEW S, NEW buf \in Seq(S), Len(buf) <= SNAPSHOT_CAPACITY,
         NEW t, NEW s, Entry(t, s) \in S
  PROVE  LET new == Push(buf, t, s) IN
         /\ new \in Seq(S)
         /\ Len(new) \in 1 .. SNAPSHOT_CAPACITY
         /\ new[Len(new)] = Entry(t, s)
         /\ \A k \in DOMAIN new : k # Len(new) =>
              \E j \in DOMAIN buf : new[k] = buf[j] /\ Len(buf) - j = Len(new) - 1 - k
<1> USE CapacityAssumption
<1>1. CASE Len(buf) = SNAPSHOT_CAPACITY
  <2> DEFINE new == Append(Tail(buf), Entry(t, s))
  <2>1. Push(buf, t, s) = new
    BY <1>1 DEF Push
  <2>2. /\ Tail(buf) \in Seq(S)
        /\ Len(Tail(buf)) = Len(buf) - 1
        /\ \A k \in 1 .. Len(buf) - 1 : Tail(buf)[k] = buf[k + 1]
    BY <1>1
  <2>3. /\ new \in Seq(S)
        /\ Len(new) = Len(buf)
        /\ new[Len(new)] = Entry(t, s)
        /\ \A k \in 1 .. Len(buf) - 1 : new[k] = buf[k + 1]
    BY <1>1, <2>2
  <2>4. \A k \in DOMAIN new : k # Len(new) =>
              k + 1 \in DOMAIN buf /\ new[k] = buf[k + 1] /\ Len(buf) - (k + 1) = Len(new) - 1 - k
    BY <2>3
  <2> HIDE DEF new
  <2> QED BY <1>1, <2>1, <2>3, <2>4
<1>2. CASE Len(buf) # SNAPSHOT_CAPACITY
  <2> DEFINE new == Append(buf, Entry(t, s))
  <2>1. Push(buf, t, s) = new
    BY <1>2 DEF Push
  <2>2. /\ new \in Seq(S)
        /\ Len(new) = Len(buf) + 1
        /\ new[Len(new)] = Entry(t, s)
        /\ \A k \in 1 .. Len(buf) : new[k] = buf[k]
    OBVIOUS
  <2>3. \A k \in DOMAIN new : k # Len(new) =>
              k \in DOMAIN buf /\ new[k] = buf[k] /\ Len(buf) - k = Len(new) - 1 - k
    BY <2>2
  <2> HIDE DEF new
  <2> QED BY <1>2, <2>1, <2>2, <2>3
<1> QED BY <1>1, <1>2

\* A run of pushes keeps, at their distance from the end, the newest entries
\* of the old buffer followed by the pushed ones.
LEMMA PushAllFacts ==
  ASSUME NEW S, NEW buf \in Seq(S), NEW es \in Seq(S)
  PROVE  /\ PushAll(buf, es) \in Seq(S)
         /\ Len(PushAll(buf, es)) <= SNAPSHOT_CAPACITY
         /\ \A k \in DOMAIN PushAll(buf, es) : \E j \in DOMAIN (buf \o es) :
              /\ PushAll(buf, es)[k] = (buf \o es)[j]
              /\ Len(buf \o es) - j = Len(PushAll(buf, es)) - k
<1> USE CapacityAssumption
<1> DEFINE all == buf \o es
           over == Len(all) - SNAPSHOT_CAPACITY
<1>1. all \in Seq(S) /\ Len(all) \in Nat
  OBVIOUS
<1> HIDE DEF all
<1>2. CASE over > 0
  <2> DEFINE new == SubSeq(all, over + 1, Len(all))
  <2>1. PushAll(buf, es) = new
    BY <1>2 DEF PushAll, all
  <2>2. over + 1 \in 1 .. Len(all) /\ over \in Nat
    BY <1>1, <1>2
  <2>3. /\ new \in Seq(S)
        /\ Len(new) = SNAPSHOT_CAPACITY
        /\ \A k \in 1 .. SNAPSHOT_CAPACITY : new[k] = all[over + k]
    BY <1>1, <2>2
  <2>4. \A k \in DOMAIN new : over + k \in DOMAIN all /\ new[k] = all[over + k]
                               /\ Len(all) - (over + k) = Len(new) - k
    BY <1>1, <2>2, <2>3
  <2> HIDE DEF new
  <2> QED BY <2>1, <2>3, <2>4 DEF all
<1>3. CASE ~ (over > 0)
  <2>1. PushAll(buf, es) = all
    BY <1>3 DEF PushAll, all
  <2> QED BY <1>1, <1>3, <2>1 DEF all
<1> QED BY <1>2, <1>3

-----------------------------------------------------------------------------
(* The invariant *)

\* An empty client satisfies the invariant.
LEMMA RollbackInit == Init => IInv
BY CapacityAssumption, WorldAssumption, DepthAssumption
   DEF Init, IInv, TypeOK, NoDanglingRollback, Spaced, ReplayInputsKept, NoTick, Never, Snapshots

\* A frame keeps it: the ring and the inputs move on by one tick together.
LEMMA FrameStep ==
  ASSUME IInv, NEW i \in Inputs, Frame(i)
  PROVE  IInv'
<1> USE CapacityAssumption, DepthAssumption
<1> DEFINE w == Step(world, i)
           new == Push(snapshot_buffer, tick + 1, w)
<1>1. /\ tick < MaxTick /\ tick' = tick + 1 /\ world' = w
      /\ snapshot_buffer' = new
      /\ input_buffer' = RetainRecent(InsertInput(input_buffer, tick + 1, i), tick + 1)
      /\ UNCHANGED <<pending_rollback, first_revised>>
  BY DEF Frame, ApplyInput
<1>2. w \in World /\ tick \in Nat /\ tick + 1 \in 0 .. MaxTick
  BY <1>1, WorldAssumption DEF IInv, TypeOK
<1>3. Entry(tick + 1, w) \in Snapshots
  BY <1>2 DEF Entry, Snapshots
<1>4. /\ new \in Seq(Snapshots)
      /\ Len(new) \in 1 .. SNAPSHOT_CAPACITY
      /\ new[Len(new)] = Entry(tick + 1, w)
      /\ \A k \in DOMAIN new : k # Len(new) =>
           \E j \in DOMAIN snapshot_buffer :
             new[k] = snapshot_buffer[j] /\ Len(snapshot_buffer) - j = Len(new) - 1 - k
  BY <1>3, PushFacts DEF IInv, TypeOK
<1> HIDE DEF new, w
<1>5. /\ DOMAIN input_buffer' =
           {v \in DOMAIN input_buffer \cup {tick + 1} :
              tick + 1 >= SNAPSHOT_CAPACITY => v > tick + 1 - SNAPSHOT_CAPACITY}
      /\ \A v \in DOMAIN input_buffer' : input_buffer'[v] \in Inputs
  BY <1>1 DEF RetainRecent, InsertInput, IInv, TypeOK
<1>6. TypeOK'
  BY <1>1, <1>2, <1>4, <1>5 DEF IInv, TypeOK, Never
<1>7. Spaced(snapshot_buffer', tick')
  <2> SUFFICES ASSUME NEW k \in DOMAIN new
               PROVE  new[k].tick <= tick + 1 /\ new[k].tick + (Len(new) - k) >= tick + 1
    BY <1>1 DEF Spaced
  <2>1. k \in 1 .. Len(new)
    BY <1>4
  <2>2. CASE k = Len(new)
    BY <1>2, <1>4, <2>2 DEF Entry
  <2>3. CASE k # Len(new)
    <3>1. PICK j \in DOMAIN snapshot_buffer :
            new[k] = snapshot_buffer[j] /\ Len(snapshot_buffer) - j = Len(new) - 1 - k
      BY <1>4, <2>3
    <3>2. /\ snapshot_buffer[j].tick <= tick
          /\ snapshot_buffer[j].tick + (Len(snapshot_buffer) - j) >= tick
          /\ snapshot_buffer[j].tick \in Nat
      BY <3>1, EntryType DEF IInv, Spaced, TypeOK
    <3>3. Len(snapshot_buffer) \in Nat /\ j \in Nat /\ Len(new) \in Nat /\ k \in Nat
      <4>1. snapshot_buffer \in Seq(Snapshots)
        BY DEF IInv, TypeOK
      <4>2. Len(snapshot_buffer) \in Nat /\ j \in 1 .. Len(snapshot_buffer)
        BY <4>1, EntryType
      <4>3. Len(new) \in Nat /\ k \in Nat
        BY <1>4, <2>1
      <4> QED BY <4>2, <4>3
    <3>4. new[k].tick = snapshot_buffer[j].tick
      BY <3>1
    <3>5. Len(new) - k = (Len(snapshot_buffer) - j) + 1
      BY <3>1, <3>3
    <3>6. Len(snapshot_buffer) - j \in Int
      BY <3>3
    <3>7. /\ snapshot_buffer[j].tick <= tick + 1
          /\ snapshot_buffer[j].tick + ((Len(snapshot_buffer) - j) + 1) >= tick + 1
      BY <1>2, <3>2, <3>6, StaysSpaced
    <3> QED BY <3>4, <3>5, <3>7
  <2> QED BY <2>2, <2>3
<1>8. ReplayInputsKept'
  <2> SUFFICES ASSUME NEW k \in DOMAIN new, NEW t \in new[k].tick + 1 .. tick + 1
               PROVE  t \in DOMAIN input_buffer'
    BY <1>1 DEF ReplayInputsKept
  <2>1. k \in 1 .. Len(new) /\ new[k] \in Snapshots /\ new[k].tick \in Nat /\ t \in Nat
    <3>1. new \in Seq(Snapshots)
      BY <1>4
    <3>2. k \in 1 .. Len(new) /\ new[k] \in Snapshots /\ new[k].tick \in Nat
      BY <3>1, EntryType
    <3>3. t \in Nat
      BY <1>2, <3>2
    <3> QED BY <3>2, <3>3
  <2>2. new[k].tick + (Len(new) - k) >= tick + 1
    BY <1>1, <1>7 DEF Spaced
  <2>3. t > tick + 1 - SNAPSHOT_CAPACITY
    BY <1>2, <1>4, <2>1, <2>2
  <2>4. t \in DOMAIN input_buffer \cup {tick + 1}
    <3>1. CASE k = Len(new)
      BY <1>2, <1>4, <3>1 DEF Entry
    <3>2. CASE k # Len(new) /\ t # tick + 1
      <4>1. PICK j \in DOMAIN snapshot_buffer : new[k] = snapshot_buffer[j]
        BY <1>4, <3>2
      <4>2. t \in snapshot_buffer[j].tick + 1 .. tick
        BY <1>2, <2>1, <3>2, <4>1
      <4> QED BY <4>1, <4>2 DEF IInv, ReplayInputsKept
    <3> QED BY <3>1, <3>2
  <2> QED BY <1>5, <2>3, <2>4
<1>9. NoDanglingRollback'
  BY <1>1 DEF IInv, NoDanglingRollback, NoTick
<1> QED BY <1>6, <1>7, <1>8, <1>9 DEF IInv

\* A late input keeps it: inputs are only added.
LEMMA ReviseStep ==
  ASSUME IInv, NEW t \in 0 .. MaxTick, NEW i \in Inputs, ReviseInput(t, i)
  PROVE  IInv'
<1>1. /\ DOMAIN input_buffer' = DOMAIN input_buffer \cup {t}
      /\ \A u \in DOMAIN input_buffer' : input_buffer'[u] \in Inputs
      /\ t \in 1 .. tick
      /\ first_revised' \in {t, first_revised}
      /\ UNCHANGED <<tick, world, snapshot_buffer, pending_rollback>>
  BY DEF ReviseInput, InsertInput, IInv, TypeOK
<1>2. TypeOK'
  BY <1>1, DepthAssumption DEF IInv, TypeOK, Never
<1>3. ReplayInputsKept'
  BY <1>1 DEF IInv, ReplayInputsKept
<1> QED BY <1>1, <1>2, <1>3 DEF IInv, NoDanglingRollback, NoTick, Spaced

\* A server state keeps it: what receive_server_state lets through,
\* rollback_to can serve, and what it pushes ends at the current tick.
LEMMA ServerStep ==
  ASSUME IInv, NEW st \in 0 .. MaxTick, NEW sw \in World, HandleServerState(st, sw)
  PROVE  IInv'
<1> USE CapacityAssumption, DepthAssumption
<1>1. /\ UNCHANGED <<tick, input_buffer, first_revised>>
      /\ Holds(snapshot_buffer, st) /\ ~ TooDeep(st)
      /\ tick \in 0 .. MaxTick
  BY DEF HandleServerState, IInv, TypeOK
<1>2. CASE /\ pending_rollback' = NoTick
           /\ UNCHANGED <<world, snapshot_buffer>>
  BY <1>1, <1>2 DEF IInv, TypeOK, NoDanglingRollback, NoTick, Spaced, ReplayInputsKept
<1>3. CASE RollbackTo(st)
  <2>1. st <= tick
    BY <1>1 DEF Holds, IInv, Spaced
  <2>2. ~ RollbackTooDeep(st)
    BY <1>1 DEF TooDeep, RollbackTooDeep
  <2>3. PICK run \in [st .. tick -> World] :
          /\ Resimulation(st, run)
          /\ snapshot_buffer' = PushAll(snapshot_buffer, Resimulated(st, run))
          /\ world' = run[tick]
          /\ pending_rollback' = NoTick
    BY <1>1, <1>3, <2>2 DEF RollbackTo
  <2> DEFINE es == Resimulated(st, run)
             all == snapshot_buffer \o es
             new == PushAll(snapshot_buffer, es)
  <2>4. /\ es \in Seq(Snapshots)
        /\ Len(es) = tick - st
        /\ \A k \in 1 .. tick - st : es[k].tick = st + k
    <3>1. tick - st \in Nat
      BY <1>1, <2>1
    <3>2. \A k \in 1 .. tick - st : Entry(st + k, run[st + k]) \in Snapshots
      BY <1>1, <2>1, <2>3 DEF Entry, Snapshots
    <3> QED BY <3>1, <3>2 DEF Resimulated, Entry
  <2>5. snapshot_buffer \in Seq(Snapshots)
    BY DEF IInv, TypeOK
  <2> HIDE DEF es
  <2>6. /\ all \in Seq(Snapshots)
        /\ Len(all) = Len(snapshot_buffer) + (tick - st)
        /\ \A j \in DOMAIN all :
             all[j] = IF j <= Len(snapshot_buffer) THEN snapshot_buffer[j]
                                                   ELSE es[j - Len(snapshot_buffer)]
    <3>1. Len(snapshot_buffer) \in Nat /\ Len(es) \in Nat
      BY <2>4, <2>5
    <3>2. all \in Seq(Snapshots) /\ Len(all) = Len(snapshot_buffer) + Len(es)
      BY <2>4, <2>5, ConcatFacts
    <3>3. \A j \in 1 .. Len(snapshot_buffer) + Len(es) :
            all[j] = IF j <= Len(snapshot_buffer) THEN snapshot_buffer[j]
                                                  ELSE es[j - Len(snapshot_buffer)]
      BY <2>4, <2>5, ConcatFacts
    <3> QED BY <2>4, <3>1, <3>2, <3>3
  <2>7. /\ new \in Seq(Snapshots)
        /\ Len(new) <= SNAPSHOT_CAPACITY
        /\ \A k \in DOMAIN new : \E j \in DOMAIN all :
             new[k] = all[j] /\ Len(all) - j = Len(new) - k
    <3>1. es \in Seq(Snapshots)
      BY <2>4
    <3> QED BY <2>5, <3>1, PushAllFacts, Zenon
  <2> HIDE DEF all, new
  <2>8. \A j \in DOMAIN all :
          /\ all[j].tick <= tick
          /\ all[j].tick + (Len(all) - j) >= tick
          /\ \A t \in all[j].tick + 1 .. tick : t \in DOMAIN input_buffer
    <3> SUFFICES ASSUME NEW j \in DOMAIN all
                 PROVE  /\ all[j].tick <= tick
                        /\ all[j].tick + (Len(all) - j) >= tick
                        /\ \A t \in all[j].tick + 1 .. tick : t \in DOMAIN input_buffer
      OBVIOUS
    <3>1. j \in 1 .. Len(all) /\ Len(snapshot_buffer) \in Nat /\ tick - st \in Nat
      BY <1>1, <2>1, <2>5, <2>6
    <3>2. CASE j <= Len(snapshot_buffer)
      <4>1. j \in DOMAIN snapshot_buffer /\ all[j] = snapshot_buffer[j]
            /\ snapshot_buffer[j].tick \in Nat
        BY <2>5, <2>6, <3>1, <3>2, EntryType
      <4>2. /\ snapshot_buffer[j].tick <= tick
            /\ snapshot_buffer[j].tick + (Len(snapshot_buffer) - j) >= tick
            /\ \A t \in snapshot_buffer[j].tick + 1 .. tick : t \in DOMAIN input_buffer
        BY <4>1 DEF IInv, Spaced, ReplayInputsKept
      <4>3. all[j].tick = snapshot_buffer[j].tick
        BY <4>1
      <4>4. Len(all) - j = (Len(snapshot_buffer) - j) + (tick - st)
        BY <2>6, <3>1
      <4>5. Len(snapshot_buffer) - j \in Int /\ tick \in Nat
        BY <1>1, <3>1
      <4>6. /\ snapshot_buffer[j].tick <= tick + 0
            /\ snapshot_buffer[j].tick + ((Len(snapshot_buffer) - j) + (tick - st)) >= tick + 0
        <5>1. 0 \in Nat /\ 0 <= tick - st
          BY <3>1
        <5> HIDE DEF all
        <5> QED BY <3>1, <4>1, <4>2, <4>5, <5>1, StaysSpaced
      <4> QED BY <4>2, <4>3, <4>4, <4>5, <4>6
    <3>3. CASE j > Len(snapshot_buffer)
      <4> DEFINE k == j - Len(snapshot_buffer)
      <4>1. k \in 1 .. tick - st /\ all[j].tick = st + k
        BY <2>4, <2>6, <3>1, <3>3
      <4>2. PICK b \in DOMAIN snapshot_buffer : snapshot_buffer[b].tick = st
        BY <1>1 DEF Holds
      <4>3. \A t \in st + 1 .. tick : t \in DOMAIN input_buffer
        BY <4>2 DEF IInv, ReplayInputsKept
      <4>4. Len(all) - j = (tick - st) - k
        BY <2>6, <3>1
      <4> HIDE DEF k
      <4>5. st + k <= tick /\ st + k + ((tick - st) - k) >= tick /\ k \in Nat
        BY <1>1, <4>1
      <4>6. \A t \in st + k + 1 .. tick : t \in st + 1 .. tick
        BY <1>1, <4>5
      <4> QED BY <4>1, <4>3, <4>4, <4>5, <4>6
    <3> QED BY <3>1, <3>2, <3>3
  <2>9. /\ snapshot_buffer' = new /\ pending_rollback' = NoTick /\ world' \in World
    BY <1>1, <2>1, <2>3 DEF new, es
  <2>10. TypeOK'
    BY <1>1, <1>3, <2>7, <2>9 DEF IInv, TypeOK
  <2>11. Spaced(new, tick)
    <3> SUFFICES ASSUME NEW k \in DOMAIN new
                 PROVE  new[k].tick <= tick /\ new[k].tick + (Len(new) - k) >= tick
      BY DEF Spaced
    <3>1. PICK j \in DOMAIN all : new[k] = all[j] /\ Len(all) - j = Len(new) - k
      BY <2>7
    <3> QED BY <2>8, <3>1
  <2>12. \A k \in DOMAIN new : \A t \in new[k].tick + 1 .. tick : t \in DOMAIN input_buffer
    BY <2>7, <2>8
  <2> QED BY <1>1, <2>9, <2>10, <2>11, <2>12
          DEF IInv, NoDanglingRollback, NoTick, ReplayInputsKept
<1> QED BY <1>2, <1>3 DEF HandleServerState

\* A full sync keeps it: the ring restarts with the packet's tick alone.
LEMMA FullSyncStep ==
  ASSUME IInv, NEW t \in 0 .. MaxTick, NEW w \in World, FullSync(t, w)
  PROVE  IInv'
<1> USE CapacityAssumption, DepthAssumption
<1>1. snapshot_buffer' = <<Entry(t, w)>> /\ tick' = t /\ world' = w /\ first_revised' = Never
      /\ UNCHANGED <<input_buffer, pending_rollback>>
  BY DEF FullSync, SyncedBuffer, Push
<1>2. /\ Entry(t, w) \in Snapshots
      /\ Entry(t, w).tick = t
  BY DEF Entry, Snapshots
<1> DEFINE new == <<Entry(t, w)>>
<1>3. new \in Seq(Snapshots) /\ Len(new) = 1 /\ DOMAIN new = {1} /\ new[1].tick = t
  BY <1>2
<1> HIDE DEF new
<1>4. snapshot_buffer' = new
  BY <1>1 DEF new
<1>5. TypeOK'
  BY <1>1, <1>3, <1>4 DEF IInv, TypeOK, Never
<1>6. Spaced(new, t)
  BY <1>3 DEF Spaced
<1>7. \A k \in DOMAIN new : \A u \in new[k].tick + 1 .. t : u \in DOMAIN input_buffer
  BY <1>3
<1> QED BY <1>1, <1>4, <1>5, <1>6, <1>7 DEF IInv, NoDanglingRollback, NoTick, ReplayInputsKept

\* Every step keeps the invariant.
LEMMA RollbackStep == IInv /\ [Next]_vars => IInv'
<1> SUFFICES ASSUME IInv, [Next]_vars PROVE IInv'
  OBVIOUS
<1>1. CASE UNCHANGED vars
  BY <1>1 DEF vars, IInv, TypeOK, NoDanglingRollback, Spaced, ReplayInputsKept
<1>2. CASE Next
  BY <1>2, FrameStep, ReviseStep, ServerStep, FullSyncStep DEF Next
<1> QED BY <1>1, <1>2

\* Prediction and rollback stay well typed; the ring never exceeds its capacity.
THEOREM RollbackTypeCorrect == Spec => []TypeOK
<1>1. IInv => TypeOK
  BY DEF IInv
<1> QED BY RollbackInit, RollbackStep, <1>1, PTL DEF Spec

\* handle_server_state never returns with a rollback still pending.
THEOREM RollbackNeverDangles == Spec => []NoDanglingRollback
<1>1. IInv => NoDanglingRollback
  BY DEF IInv
<1> QED BY RollbackInit, RollbackStep, <1>1, PTL DEF Spec

\* A rollback to any snapshot still in the ring finds the inputs of every tick it replays.
THEOREM ReplayFindsInputs == Spec => []ReplayInputsKept
<1>1. IInv => ReplayInputsKept
  BY DEF IInv
<1> QED BY RollbackInit, RollbackStep, <1>1, PTL DEF Spec

\* The newest snapshot in the ring is always the client's current tick.
THEOREM RingEndsAtCurrentTick == Spec => []NewestIsCurrent
<1>1. IInv => NewestIsCurrent
  <2> SUFFICES ASSUME IInv, snapshot_buffer # << >>
               PROVE  snapshot_buffer[Len(snapshot_buffer)].tick = tick
    BY DEF NewestIsCurrent
  <2>1. Len(snapshot_buffer) \in DOMAIN snapshot_buffer
    BY DEF IInv, TypeOK
  <2>2. snapshot_buffer[Len(snapshot_buffer)].tick \in Nat /\ tick \in Nat
    BY <2>1, EntryType DEF IInv, TypeOK
  <2> QED BY <2>1, <2>2 DEF IInv, Spaced, TypeOK
<1> QED BY RollbackInit, RollbackStep, <1>1, PTL DEF Spec

-----------------------------------------------------------------------------
\* From an entry on, the ring holds every tick up to t.
Contiguous(buf, t) ==
  \A k \in DOMAIN buf : \A u \in buf[k].tick .. t : \E j \in DOMAIN buf : j >= k /\ buf[j].tick = u

\* Entries of the same tick agree, below the first revised tick.
Agreeing(buf, fr) ==
  \A i, j \in DOMAIN buf : buf[i].tick = buf[j].tick /\ buf[i].tick < fr => buf[i].snap = buf[j].snap

\* An entry is one step after any entry of the tick before it.
Chained(buf, inputs, fr) ==
  \A i, j \in DOMAIN buf :
    buf[j].tick = buf[i].tick + 1 /\ buf[j].tick < fr
      => buf[j].snap = Step(buf[i].snap, inputs[buf[j].tick])

\* Entries of tick t hold the world w.
EndsWith(buf, t, w, fr) ==
  t < fr => \A k \in DOMAIN buf : buf[k].tick = t => buf[k].snap = w

\* The strengthening under which DuplicatesAgree is inductive.
AgreeInv ==
  /\ Contiguous(snapshot_buffer, tick)
  /\ Agreeing(snapshot_buffer, first_revised)
  /\ Chained(snapshot_buffer, input_buffer, first_revised)
  /\ EndsWith(snapshot_buffer, tick, world, first_revised)

\* get finds the oldest entry of a tick that the buffer holds.
LEMMA GetFacts ==
  ASSUME NEW S, NEW buf \in Seq(S), NEW t, Holds(buf, t)
  PROVE  \E i \in DOMAIN buf : /\ buf[i].tick = t /\ Get(buf, t) = buf[i].snap
                               /\ \A j \in 1 .. i - 1 : buf[j].tick # t
<1> DEFINE Hits == {k \in DOMAIN buf : buf[k].tick = t}
           Oldest(k) == buf[k].tick = t /\ \A j \in 1 .. k - 1 : buf[j].tick # t
<1>1. DOMAIN buf = 1 .. Len(buf) /\ Len(buf) \in Nat
  OBVIOUS
<1>2. Hits \in SUBSET Nat /\ Hits # {}
  BY <1>1 DEF Holds
<1>3. PICK m \in Hits : \A k \in Hits : m <= k
  BY <1>2, LeastNatural
<1>4. m \in DOMAIN buf /\ Oldest(m)
  <2>1. m \in 1 .. Len(buf) /\ buf[m].tick = t
    BY <1>1
  <2>2. ASSUME NEW j \in 1 .. m - 1, buf[j].tick = t PROVE FALSE
    <3>1. j \in Hits
      BY <1>1, <2>1, <2>2
    <3> QED BY <1>3, <2>1, <3>1
  <2> QED BY <1>1, <2>1, <2>2
<1> DEFINE i == CHOOSE k \in DOMAIN buf : Oldest(k)
<1>5. i \in DOMAIN buf /\ Oldest(i)
  BY <1>4
<1>6. Get(buf, t) = buf[i].snap
  BY DEF Get
<1> QED BY <1>5, <1>6

\* What holds of entries holds of those that survive in a younger ring.
LEMMA SurvivorsAgree ==
  ASSUME NEW S, NEW all \in Seq(S), NEW new \in Seq(S), NEW t \in Nat, NEW w, NEW inputs, NEW fr,
         \A k \in DOMAIN all : all[k].tick \in Nat,
         \A k \in DOMAIN new : \E j \in DOMAIN all : new[k] = all[j] /\ Len(all) - j = Len(new) - k,
         Contiguous(all, t), Agreeing(all, fr), Chained(all, inputs, fr), EndsWith(all, t, w, fr)
  PROVE  Contiguous(new, t) /\ Agreeing(new, fr) /\ Chained(new, inputs, fr) /\ EndsWith(new, t, w, fr)
<1>s. \A k \in DOMAIN new : \E j \in DOMAIN all : new[k] = all[j]
  OBVIOUS
<1>a. Agreeing(new, fr)
  <2> SUFFICES ASSUME NEW i \in DOMAIN new, NEW j \in DOMAIN new,
                      new[i].tick = new[j].tick, new[i].tick < fr
               PROVE  new[i].snap = new[j].snap
    BY DEF Agreeing
  <2>1. PICK a \in DOMAIN all : new[i] = all[a]
    BY <1>s
  <2>2. PICK b \in DOMAIN all : new[j] = all[b]
    BY <1>s
  <2> QED BY <2>1, <2>2 DEF Agreeing
<1>c. Chained(new, inputs, fr)
  <2> SUFFICES ASSUME NEW i \in DOMAIN new, NEW j \in DOMAIN new,
                      new[j].tick = new[i].tick + 1, new[j].tick < fr
               PROVE  new[j].snap = Step(new[i].snap, inputs[new[j].tick])
    BY DEF Chained
  <2>1. PICK a \in DOMAIN all : new[i] = all[a]
    BY <1>s
  <2>2. PICK b \in DOMAIN all : new[j] = all[b]
    BY <1>s
  <2> QED BY <2>1, <2>2 DEF Chained
<1>1. Agreeing(new, fr) /\ Chained(new, inputs, fr) /\ EndsWith(new, t, w, fr)
  BY <1>s, <1>a, <1>c DEF EndsWith
<1>2. /\ DOMAIN all = 1 .. Len(all) /\ Len(all) \in Nat
      /\ DOMAIN new = 1 .. Len(new) /\ Len(new) \in Nat
  OBVIOUS
<1>3. ASSUME NEW k \in DOMAIN new, NEW u \in new[k].tick .. t
      PROVE  \E l \in DOMAIN new : l >= k /\ new[l].tick = u
  <2>1. PICK j \in DOMAIN all : new[k] = all[j] /\ Len(all) - j = Len(new) - k
    OBVIOUS
  <2>2. PICK h \in DOMAIN all : h >= j /\ all[h].tick = u
    BY <2>1, <1>3 DEF Contiguous
  <2> DEFINE l == Len(new) - (Len(all) - h)
  <2>3. l \in DOMAIN new /\ l >= k
    BY <1>2, <2>1, <2>2
  <2>4. PICK g \in DOMAIN all : new[l] = all[g] /\ Len(all) - g = Len(new) - l
    BY <2>3
  <2>5. g = h
    BY <1>2, <2>4
  <2> QED BY <2>2, <2>3, <2>4, <2>5
<1>4. Contiguous(new, t)
  BY <1>3 DEF Contiguous
<1> QED BY <1>1, <1>4

\* A frame adds one entry, one step after the current one.
LEMMA AgreeFrame ==
  ASSUME IInv, AgreeInv, IInv', NEW i \in Inputs, Frame(i)
  PROVE  AgreeInv'
<1> DEFINE buf == snapshot_buffer
           e == Entry(tick + 1, Step(world, i))
           all == Append(buf, e)
           new == snapshot_buffer'
           typed == InsertInput(input_buffer, tick + 1, i)
<1>1. /\ tick' = tick + 1 /\ world' = Step(world, i) /\ first_revised' = first_revised
      /\ new = Push(buf, tick + 1, Step(world, i))
      /\ input_buffer' = RetainRecent(typed, tick + 1)
  BY DEF Frame, ApplyInput
<1>2. /\ buf \in Seq(Snapshots) /\ Len(buf) <= SNAPSHOT_CAPACITY /\ tick \in Nat
      /\ tick + 1 \in 0 .. MaxTick /\ Step(world, i) \in World
      /\ first_revised \in Int
  BY <1>1, WorldAssumption, DepthAssumption DEF IInv, TypeOK, Never
<1>3. e \in Snapshots /\ e.tick = tick + 1 /\ e.snap = Step(world, i)
  BY <1>2 DEF Entry, Snapshots
<1>4. /\ all \in Seq(Snapshots) /\ Len(all) = Len(buf) + 1 /\ Len(buf) \in Nat
      /\ DOMAIN buf = 1 .. Len(buf) /\ DOMAIN all = 1 .. Len(buf) + 1
      /\ all[Len(buf) + 1] = e /\ \A j \in 1 .. Len(buf) : all[j] = buf[j]
  BY <1>2, <1>3
<1>5. /\ new \in Seq(Snapshots)
      /\ \A k \in DOMAIN new : \E j \in DOMAIN all : new[k] = all[j] /\ Len(all) - j = Len(new) - k
  <2>1. /\ new \in Seq(Snapshots) /\ Len(new) \in 1 .. SNAPSHOT_CAPACITY /\ new[Len(new)] = e
        /\ \A k \in DOMAIN new : k # Len(new) =>
             \E j \in DOMAIN buf : new[k] = buf[j] /\ Len(buf) - j = Len(new) - 1 - k
    BY <1>1, <1>2, <1>3, PushFacts
  <2> HIDE DEF all, new, e
  <2>2. ASSUME NEW k \in DOMAIN new
        PROVE  \E j \in DOMAIN all : new[k] = all[j] /\ Len(all) - j = Len(new) - k
    <3>1. CASE k = Len(new)
      BY <1>4, <2>1, <3>1
    <3>2. CASE k # Len(new)
      <4>1. PICK j \in DOMAIN buf : new[k] = buf[j] /\ Len(buf) - j = Len(new) - 1 - k
        BY <2>1, <3>2
      <4>2. k \in 1 .. Len(new) /\ Len(new) \in Nat
        BY <2>1
      <4> QED BY <1>4, <4>1, <4>2
    <3> QED BY <3>1, <3>2
  <2> QED BY <2>1, <2>2
<1> HIDE DEF all, new, e
<1>6. \A j \in 1 .. Len(buf) : buf[j].tick \in Nat /\ buf[j].tick <= tick
  BY <1>2, <1>4, EntryType DEF IInv, Spaced
<1>7. \A j \in DOMAIN all : /\ all[j].tick \in Nat
                            /\ \/ j \in DOMAIN buf /\ all[j] = buf[j] /\ all[j].tick <= tick
                               \/ j = Len(buf) + 1 /\ all[j] = e /\ all[j].tick = tick + 1
  <2> SUFFICES ASSUME NEW j \in DOMAIN all
               PROVE  /\ all[j].tick \in Nat
                      /\ \/ j \in DOMAIN buf /\ all[j] = buf[j] /\ all[j].tick <= tick
                         \/ j = Len(buf) + 1 /\ all[j] = e /\ all[j].tick = tick + 1
    OBVIOUS
  <2>1. CASE j = Len(buf) + 1
    BY <1>2, <1>3, <1>4, <2>1
  <2>2. CASE j \in 1 .. Len(buf)
    BY <1>4, <1>6, <2>2
  <2> QED BY <1>4, <2>1, <2>2
<1>8. Contiguous(all, tick + 1)
  <2> SUFFICES ASSUME NEW k \in DOMAIN all, NEW u \in all[k].tick .. tick + 1
               PROVE  \E j \in DOMAIN all : j >= k /\ all[j].tick = u
    BY DEF Contiguous
  <2>1. CASE u = tick + 1
    BY <1>3, <1>4, <2>1
  <2>2. CASE u # tick + 1
    <3>1. u \in all[k].tick .. tick /\ all[k] = buf[k] /\ k \in DOMAIN buf
      BY <1>2, <1>7, <2>2
    <3>2. PICK j \in DOMAIN buf : j >= k /\ buf[j].tick = u
      BY <3>1 DEF AgreeInv, Contiguous
    <3> QED BY <1>4, <3>2
  <2> QED BY <2>1, <2>2
<1>9. Agreeing(all, first_revised)
  BY <1>2, <1>7 DEF AgreeInv, Agreeing
<1>10. Chained(all, typed, first_revised)
  <2> SUFFICES ASSUME NEW a \in DOMAIN all, NEW b \in DOMAIN all,
                      all[b].tick = all[a].tick + 1, all[b].tick < first_revised
               PROVE  all[b].snap = Step(all[a].snap, typed[all[b].tick])
    BY DEF Chained
  <2>1. a \in DOMAIN buf /\ all[a] = buf[a] /\ buf[a].tick \in Nat /\ buf[a].tick <= tick
    BY <1>2, <1>7
  <2>2. CASE b \in DOMAIN buf /\ all[b] = buf[b] /\ all[b].tick <= tick
    <3>1. buf[b].tick \in buf[a].tick + 1 .. tick
      BY <1>2, <1>7, <2>1, <2>2
    <3>2. buf[b].tick \in DOMAIN input_buffer
      BY <2>1, <3>1 DEF IInv, ReplayInputsKept
    <3>3. typed[buf[b].tick] = input_buffer[buf[b].tick]
      BY <1>2, <2>1, <3>1, <3>2 DEF InsertInput
    <3> QED BY <2>1, <2>2, <3>3 DEF AgreeInv, Chained
  <2>3. CASE all[b] = e /\ all[b].tick = tick + 1
    <3>1. typed[tick + 1] = i
      BY DEF InsertInput
    <3>2. buf[a].tick = tick /\ tick < first_revised
      BY <1>2, <2>1, <2>3
    <3>3. buf[a].snap = world
      BY <2>1, <3>2 DEF AgreeInv, EndsWith
    <3> QED BY <1>3, <2>1, <2>3, <3>1, <3>3
  <2> QED BY <1>7, <2>2, <2>3
<1>11. EndsWith(all, tick + 1, Step(world, i), first_revised)
  BY <1>2, <1>3, <1>7 DEF EndsWith
<1>12. /\ Contiguous(new, tick + 1) /\ Agreeing(new, first_revised) /\ Chained(new, typed, first_revised)
       /\ EndsWith(new, tick + 1, Step(world, i), first_revised)
  BY <1>2, <1>4, <1>5, <1>7, <1>8, <1>9, <1>10, <1>11, SurvivorsAgree
<1>13. Chained(new, input_buffer', first_revised)
  <2> SUFFICES ASSUME NEW a \in DOMAIN new, NEW b \in DOMAIN new,
                      new[b].tick = new[a].tick + 1, new[b].tick < first_revised
               PROVE  new[b].snap = Step(new[a].snap, input_buffer'[new[b].tick])
    BY DEF Chained
  <2>1. new[b].tick \in Nat /\ new[b].tick <= tick' /\ new[a].tick \in Nat
    BY <1>5, EntryType DEF IInv, Spaced, new
  <2>2. new[b].tick \in new[a].tick + 1 .. tick'
    BY <1>1, <1>2, <2>1
  <2>3. new[b].tick \in DOMAIN input_buffer'
    BY <2>2 DEF IInv, ReplayInputsKept, new
  <2>4. input_buffer'[new[b].tick] = typed[new[b].tick]
    BY <1>1, <2>3 DEF RetainRecent
  <2> QED BY <1>12, <2>4 DEF Chained
<1> QED BY <1>1, <1>12, <1>13 DEF AgreeInv, new

\* Below the first revised tick a re-simulation from rt repeats what the ring
\* already holds: a least tick where it did not would contradict the step to it.
LEMMA ResimulationRepeats ==
  ASSUME IInv, AgreeInv, NEW rt \in Nat, Holds(snapshot_buffer, rt),
         NEW run \in [rt .. tick -> World], Resimulation(rt, run)
  PROVE  \A j \in DOMAIN snapshot_buffer :
           snapshot_buffer[j].tick >= rt /\ snapshot_buffer[j].tick < first_revised
             => snapshot_buffer[j].snap = run[snapshot_buffer[j].tick]
<1> DEFINE buf == snapshot_buffer
           Bad == {t \in rt .. tick : t < first_revised /\ \E j \in DOMAIN buf : buf[j].tick = t /\ buf[j].snap # run[t]}
<1>1. buf \in Seq(Snapshots) /\ tick \in Nat /\ first_revised \in Int
  BY DepthAssumption DEF IInv, TypeOK, Never
<1>2. PICK o \in DOMAIN buf : buf[o].tick = rt /\ Get(buf, rt) = buf[o].snap
  BY <1>1, GetFacts
<1>3. \A j \in DOMAIN buf : buf[j].tick \in Nat /\ buf[j].tick <= tick
  BY <1>1, EntryType DEF IInv, Spaced
<1>4. Bad = {}
  <2>1. SUFFICES ASSUME Bad # {} PROVE FALSE
    OBVIOUS
  <2>2. Bad \in SUBSET Nat
    BY <1>1
  <2>3. PICK t \in Bad : \A k \in Bad : t <= k
    BY <2>1, <2>2, LeastNatural
  <2>4. PICK j \in DOMAIN buf : buf[j].tick = t /\ buf[j].snap # run[t]
    OBVIOUS
  <2>5. t \in rt .. tick /\ t < first_revised /\ t \in Nat
    BY <1>1
  <2>6. t # rt
    BY <1>2, <2>4, <2>5 DEF Resimulation, AgreeInv, Agreeing
  <2>7. t - 1 \in rt .. tick /\ t \in rt + 1 .. tick /\ t - 1 < first_revised
    BY <1>1, <2>5, <2>6
  <2>8. PICK i \in DOMAIN buf : buf[i].tick = t - 1
    BY <1>2, <2>7 DEF AgreeInv, Contiguous
  <2>9. t - 1 \notin Bad
    BY <2>3, <2>5
  <2>10. buf[i].snap = run[t - 1]
    BY <2>7, <2>8, <2>9
  <2>11. buf[j].tick = buf[i].tick + 1 /\ buf[j].tick < first_revised
    BY <2>4, <2>5, <2>8
  <2>12. buf[j].snap = Step(buf[i].snap, input_buffer[t])
    BY <2>4, <2>11 DEF AgreeInv, Chained
  <2>13. t \in DOMAIN input_buffer
    BY <1>2, <2>7 DEF IInv, ReplayInputsKept
  <2>14. run[t] = Step(run[t - 1], input_buffer[t])
    BY <2>7, <2>13 DEF Resimulation, InputAt
  <2> QED BY <2>4, <2>10, <2>12, <2>14
<1> QED
  <2> SUFFICES ASSUME NEW j \in DOMAIN buf, buf[j].tick >= rt, buf[j].tick < first_revised
               PROVE  buf[j].snap = run[buf[j].tick]
    OBVIOUS
  <2>1. buf[j].tick \in rt .. tick
    BY <1>1, <1>3
  <2> QED BY <1>4, <2>1

\* A server state that causes a rollback re-simulates what was predicted, unless
\* an input changed.
LEMMA AgreeServer ==
  ASSUME IInv, AgreeInv, NEW st \in 0 .. MaxTick, NEW sw \in World, HandleServerState(st, sw)
  PROVE  AgreeInv'
<1> DEFINE buf == snapshot_buffer
           fr == first_revised
<1>1. /\ UNCHANGED <<tick, input_buffer, first_revised>> /\ Holds(buf, st) /\ ~ TooDeep(st)
      /\ st \in Nat
  BY DepthAssumption DEF HandleServerState
<1>2. /\ buf \in Seq(Snapshots) /\ tick \in Nat /\ tick \in 0 .. MaxTick /\ fr \in Int
  BY DepthAssumption DEF IInv, TypeOK, Never
<1>3. CASE UNCHANGED <<world, snapshot_buffer>>
  BY <1>1, <1>3 DEF AgreeInv
<1>4. CASE RollbackTo(st)
  <2>1. \A j \in DOMAIN buf : buf[j].tick \in Nat /\ buf[j].tick <= tick
    BY <1>2, EntryType DEF IInv, Spaced
  <2>2. st <= tick
    BY <1>1, <2>1 DEF Holds
  <2>3. ~ RollbackTooDeep(st)
    BY <1>1 DEF TooDeep, RollbackTooDeep
  <2>4. PICK run \in [st .. tick -> World] :
          /\ Resimulation(st, run)
          /\ snapshot_buffer' = PushAll(buf, Resimulated(st, run))
          /\ world' = run[tick]
    BY <1>1, <1>4, <2>3 DEF RollbackTo
  <2> DEFINE es == Resimulated(st, run)
             all == buf \o es
             new == PushAll(buf, es)
             n == Len(buf)
  <2>5. /\ es \in Seq(Snapshots) /\ Len(es) = tick - st /\ tick - st \in Nat
        /\ \A k \in 1 .. tick - st : es[k].tick = st + k /\ es[k].snap = run[st + k]
    <3>1. tick - st \in Nat
      BY <1>1, <1>2, <2>2
    <3>2. \A k \in 1 .. tick - st : Entry(st + k, run[st + k]) \in Snapshots
      <4>1. \A k \in 1 .. tick - st : st + k \in 0 .. MaxTick /\ st + k \in st .. tick
        BY <1>1, <1>2, <2>2, DepthAssumption
      <4> QED BY <4>1 DEF Entry, Snapshots
    <3> QED BY <3>1, <3>2 DEF Resimulated, Entry
  <2> HIDE DEF es
  <2>6. /\ all \in Seq(Snapshots) /\ Len(all) = n + (tick - st) /\ n \in Nat
        /\ DOMAIN all = 1 .. n + (tick - st) /\ DOMAIN buf = 1 .. n
        /\ \A j \in 1 .. n + (tick - st) : all[j] = IF j <= n THEN buf[j] ELSE es[j - n]
    <3>1. all \in Seq(Snapshots) /\ Len(all) = n + Len(es)
      BY <1>2, <2>5, ConcatFacts
    <3>2. \A j \in 1 .. n + Len(es) : all[j] = IF j <= n THEN buf[j] ELSE es[j - n]
      BY <1>2, <2>5, ConcatFacts
    <3> HIDE DEF all
    <3>3. DOMAIN all = 1 .. Len(all) /\ DOMAIN buf = 1 .. n /\ n \in Nat
      BY <1>2, <3>1
    <3> QED BY <2>5, <3>1, <3>2, <3>3
  <2>7. /\ new \in Seq(Snapshots)
        /\ \A k \in DOMAIN new : \E j \in DOMAIN all : new[k] = all[j] /\ Len(all) - j = Len(new) - k
    <3>1. es \in Seq(Snapshots) /\ buf \in Seq(Snapshots)
      BY <1>2, <2>5
    <3> QED BY <3>1, PushAllFacts, Zenon
  <2> HIDE DEF all, new, n
  \* Old entries, and new ones that repeat the run.
  <2>8. \A j \in DOMAIN all :
          /\ all[j].tick \in Nat /\ all[j].tick <= tick
          /\ \/ j \in DOMAIN buf /\ j <= n /\ all[j] = buf[j]
             \/ j > n /\ all[j].tick = st + (j - n) /\ all[j].snap = run[all[j].tick]
    <3> SUFFICES ASSUME NEW j \in DOMAIN all
                 PROVE  /\ all[j].tick \in Nat /\ all[j].tick <= tick
                        /\ \/ j \in DOMAIN buf /\ j <= n /\ all[j] = buf[j]
                           \/ j > n /\ all[j].tick = st + (j - n) /\ all[j].snap = run[all[j].tick]
      OBVIOUS
    <3>1. CASE j <= n
      BY <2>1, <2>6, <3>1
    <3>2. CASE j > n
      <4>1. j - n \in 1 .. tick - st /\ all[j] = es[j - n]
        BY <1>1, <1>2, <2>5, <2>6, <3>2
      <4> QED BY <1>1, <1>2, <2>5, <3>2, <4>1
    <3> QED BY <2>6, <3>1, <3>2
  <2>9. \A j \in DOMAIN all : all[j].tick >= st /\ all[j].tick < fr => all[j].snap = run[all[j].tick]
    BY <1>1, <2>4, <2>8, ResimulationRepeats
  <2>10. Contiguous(all, tick)
    <3> SUFFICES ASSUME NEW k \in DOMAIN all, NEW u \in all[k].tick .. tick
                 PROVE  \E j \in DOMAIN all : j >= k /\ all[j].tick = u
      BY DEF Contiguous
    <3>1. CASE k <= n
      <4>1. k \in DOMAIN buf /\ all[k] = buf[k]
        BY <2>6, <2>8, <3>1
      <4>2. PICK j \in DOMAIN buf : j >= k /\ buf[j].tick = u
        BY <4>1 DEF AgreeInv, Contiguous
      <4>3. j \in DOMAIN all /\ all[j] = buf[j]
        BY <2>5, <2>6, <4>2
      <4> QED BY <4>2, <4>3
    <3>2. CASE k > n
      <4>1. all[k].tick = st + (k - n) /\ k \in 1 .. n + (tick - st)
        BY <2>6, <2>8, <3>2
      <4> DEFINE j == n + (u - st)
      <4>2. j \in 1 .. n + (tick - st) /\ j >= k /\ j > n /\ j - n \in 1 .. tick - st
        BY <1>1, <1>2, <2>5, <2>6, <3>2, <4>1
      <4>3. all[j] = es[j - n] /\ es[j - n].tick = st + (j - n)
        BY <2>5, <2>6, <4>2
      <4>4. st + (j - n) = u
        <5>1. u \in Int
          BY <1>2, <2>8
        <5> QED BY <1>1, <2>6, <5>1
      <4> QED BY <2>6, <4>2, <4>3, <4>4
    <3> QED BY <2>6, <3>1, <3>2
  <2>11. Agreeing(all, fr)
    <3> SUFFICES ASSUME NEW a \in DOMAIN all, NEW b \in DOMAIN all,
                        all[a].tick = all[b].tick, all[a].tick < fr
                 PROVE  all[a].snap = all[b].snap
      BY DEF Agreeing
    <3>1. CASE all[a].tick >= st
      BY <2>9, <3>1
    <3>2. CASE all[a].tick < st
      <4>1. a \in DOMAIN buf /\ all[a] = buf[a] /\ b \in DOMAIN buf /\ all[b] = buf[b]
        BY <1>1, <2>6, <2>8, <3>2
      <4> QED BY <4>1 DEF AgreeInv, Agreeing
    <3> QED BY <1>1, <2>8, <3>1, <3>2
  <2>12. Chained(all, input_buffer, fr)
    <3> SUFFICES ASSUME NEW a \in DOMAIN all, NEW b \in DOMAIN all,
                        all[b].tick = all[a].tick + 1, all[b].tick < fr
                 PROVE  all[b].snap = Step(all[a].snap, input_buffer[all[b].tick])
      BY DEF Chained
    <3>1. all[a].tick \in Nat /\ all[b].tick \in Nat /\ all[b].tick <= tick
      BY <2>8
    <3>2. CASE all[a].tick >= st
      <4>1. all[a].snap = run[all[a].tick] /\ all[b].snap = run[all[b].tick]
        BY <1>1, <1>2, <2>9, <3>1, <3>2
      <4>2. all[b].tick \in st + 1 .. tick /\ all[b].tick - 1 = all[a].tick
        BY <1>1, <1>2, <3>1, <3>2
      <4>3. PICK o \in DOMAIN buf : buf[o].tick = st
        BY <1>1 DEF Holds
      <4>4. all[b].tick \in DOMAIN input_buffer
        BY <4>2, <4>3 DEF IInv, ReplayInputsKept
      <4> QED BY <2>4, <4>1, <4>2, <4>4 DEF Resimulation, InputAt
    <3>3. CASE all[a].tick < st
      <4>1. a \in DOMAIN buf /\ all[a] = buf[a]
        BY <1>1, <2>6, <2>8, <3>3
      <4>2. b \in DOMAIN buf /\ all[b] = buf[b]
        BY <1>1, <2>6, <2>8, <3>1, <3>3
      <4> QED BY <4>1, <4>2 DEF AgreeInv, Chained
    <3> QED BY <1>1, <3>1, <3>2, <3>3
  <2>13. EndsWith(all, tick, run[tick], fr)
    BY <2>2, <2>9 DEF EndsWith
  <2>14. Contiguous(new, tick) /\ Agreeing(new, fr) /\ Chained(new, input_buffer, fr) /\ EndsWith(new, tick, run[tick], fr)
    <3>1. \A j \in DOMAIN all : all[j].tick \in Nat
      BY <2>8
    <3> QED BY <1>2, <2>6, <2>7, <2>10, <2>11, <2>12, <2>13, <3>1, SurvivorsAgree
  <2> QED BY <1>1, <2>4, <2>14 DEF AgreeInv, new, es
<1> QED BY <1>3, <1>4 DEF HandleServerState

\* Every step keeps the agreement of duplicates.
LEMMA AgreeStep == IInv /\ AgreeInv /\ IInv' /\ [Next]_vars => AgreeInv'
<1> SUFFICES ASSUME IInv, AgreeInv, IInv', [Next]_vars PROVE AgreeInv'
  OBVIOUS
<1>1. ASSUME NEW t \in 0 .. MaxTick, NEW i \in Inputs, ReviseInput(t, i) PROVE AgreeInv'
  <2>1. /\ t \in 1 .. tick /\ input_buffer' = InsertInput(input_buffer, t, i)
        /\ first_revised' = (IF t < first_revised THEN t ELSE first_revised)
        /\ UNCHANGED <<tick, world, snapshot_buffer>>
    BY <1>1 DEF ReviseInput
  <2>2. snapshot_buffer \in Seq(Snapshots) /\ tick \in Nat /\ t \in Nat /\ first_revised \in Int
    BY DepthAssumption DEF IInv, TypeOK, Never
  <2>3. first_revised' <= t /\ first_revised' <= first_revised /\ first_revised' \in Int
    BY <2>1, <2>2
  <2>4. \A j \in DOMAIN snapshot_buffer : snapshot_buffer[j].tick \in Nat /\ snapshot_buffer[j].tick <= tick
    BY <2>2, EntryType DEF IInv, Spaced
  <2>5. Contiguous(snapshot_buffer, tick)
    BY DEF AgreeInv
  <2>6. Agreeing(snapshot_buffer, first_revised')
    BY <2>2, <2>3, <2>4 DEF AgreeInv, Agreeing
  <2>7. EndsWith(snapshot_buffer, tick, world, first_revised')
    BY <2>2, <2>3 DEF AgreeInv, EndsWith
  <2>8. Chained(snapshot_buffer, input_buffer', first_revised')
    <3> SUFFICES ASSUME NEW a \in DOMAIN snapshot_buffer, NEW b \in DOMAIN snapshot_buffer,
                        snapshot_buffer[b].tick = snapshot_buffer[a].tick + 1,
                        snapshot_buffer[b].tick < first_revised'
                 PROVE  snapshot_buffer[b].snap = Step(snapshot_buffer[a].snap, input_buffer'[snapshot_buffer[b].tick])
      BY DEF Chained
    <3>1. /\ snapshot_buffer[b].tick < first_revised /\ snapshot_buffer[b].tick # t
          /\ snapshot_buffer[b].tick \in snapshot_buffer[a].tick + 1 .. tick
      BY <2>2, <2>3, <2>4
    <3>2. snapshot_buffer[b].tick \in DOMAIN input_buffer
      BY <3>1 DEF IInv, ReplayInputsKept
    <3>3. input_buffer'[snapshot_buffer[b].tick] = input_buffer[snapshot_buffer[b].tick]
      BY <2>1, <3>1, <3>2 DEF InsertInput
    <3> QED BY <3>1, <3>3 DEF AgreeInv, Chained
  <2> QED BY <2>1, <2>5, <2>6, <2>7, <2>8 DEF AgreeInv
<1>2. ASSUME NEW t \in 0 .. MaxTick, NEW w \in World, FullSync(t, w) PROVE AgreeInv'
  <2>1. snapshot_buffer' = <<Entry(t, w)>> /\ tick' = t /\ world' = w
    BY <1>2, CapacityAssumption DEF FullSync, SyncedBuffer, Push
  <2> DEFINE new == <<Entry(t, w)>>
  <2>2. DOMAIN new = {1} /\ new[1].tick = t /\ new[1].snap = w
    BY DEF Entry
  <2> HIDE DEF new
  <2>3. t \in Nat
    BY DepthAssumption
  <2>4. Contiguous(new, t)
    <3> SUFFICES ASSUME NEW k \in DOMAIN new, NEW u \in new[k].tick .. t
                 PROVE  \E j \in DOMAIN new : j >= k /\ new[j].tick = u
      BY DEF Contiguous
    <3>1. k = 1 /\ u = t
      BY <2>2, <2>3
    <3> QED BY <2>2, <3>1
  <2>5. Agreeing(new, first_revised') /\ EndsWith(new, t, w, first_revised')
    BY <2>2 DEF Agreeing, EndsWith
  <2>6. Chained(new, input_buffer', first_revised')
    BY <2>2, <2>3 DEF Chained
  <2> QED BY <2>1, <2>4, <2>5, <2>6 DEF AgreeInv, new
<1>3. CASE UNCHANGED vars
  BY <1>3 DEF vars, AgreeInv
<1> QED BY <1>1, <1>2, <1>3, AgreeFrame, AgreeServer DEF Next

\* Re-simulation is deterministic: whatever worlds, inputs and step function,
\* and however often and far the client rolls back, two snapshots of one tick
\* differ only from the first revised input on.
THEOREM ResimulationIsDeterministic == Spec => []DuplicatesAgree
<1>1. Init => AgreeInv
  BY DEF Init, AgreeInv, Contiguous, Agreeing, Chained, EndsWith
<1>2. AgreeInv => DuplicatesAgree
  BY DEF AgreeInv, Agreeing, DuplicatesAgree
<1> QED BY RollbackInit, RollbackStep, AgreeStep, <1>1, <1>2, PTL DEF Spec

-----------------------------------------------------------------------------
(* ConnectionManager *)

\* An open outage remembers when it began; a frozen client has not been
\* ticked since; a resyncing one has made its r-th retry within r retry
\* periods of the first attempt and is inside the current interval.
OutageInv ==
  /\ Down => conn.since = down_since
  /\ conn.st = "Frozen" => clock = down_since
  /\ conn.st = "Resync" =>
       /\ conn.retry <= MAX_RESYNC_RETRIES
       /\ last_retry_tick <= clock
       /\ clock - last_retry_tick < RETRY_INTERVAL_TICKS
       /\ clock - down_since < FROZEN_TIMEOUT_TICKS
       /\ last_retry_tick - down_since <= MAX_SKIP + conn.retry * RetryPeriod

ConnInv == ConnTypeOK /\ OutageInv

-----------------------------------------------------------------------------
\* One more retry adds one retry period to the schedule, and a schedule of
\* fewer retries is no longer than one of more.
LEMMA RetrySchedule ==
  ASSUME NEW r \in Nat
  PROVE  /\ r * RetryPeriod \in Nat
         /\ (r + 1) * RetryPeriod = r * RetryPeriod + RetryPeriod
         /\ r <= MAX_RESYNC_RETRIES => r * RetryPeriod <= MAX_RESYNC_RETRIES * RetryPeriod
<1> DEFINE P == RetryPeriod
<1>1. P \in Nat /\ MAX_RESYNC_RETRIES \in Nat
  BY TimeoutAssumption DEF RetryPeriod
<1> HIDE DEF P
<1>2. r * P \in Nat /\ (r + 1) * P = r * P + P
  BY <1>1
<1>3. ASSUME r <= MAX_RESYNC_RETRIES PROVE r * P <= MAX_RESYNC_RETRIES * P
  <2>1. PICK d \in Nat : MAX_RESYNC_RETRIES = r + d
    <3>1. MAX_RESYNC_RETRIES - r \in Nat /\ MAX_RESYNC_RETRIES = r + (MAX_RESYNC_RETRIES - r)
      BY <1>1, <1>3
    <3> QED BY <3>1
  <2>2. (r + d) * P = r * P + d * P /\ d * P \in Nat
    BY <1>1, <2>1
  <2> QED BY <1>2, <2>1, <2>2
<1> QED BY <1>2, <1>3 DEF P

\* The state ConnectionManager::new builds satisfies the invariant.
LEMMA ConnectionInit == ConnInit => ConnInv
<1> SUFFICES ASSUME ConnInit PROVE ConnInv
  OBVIOUS
<1>1. conn.st = "Connected" /\ conn.retry = 0 /\ conn.since = 0
  BY DEF ConnInit, Connected, State
<1>2. ConnTypeOK
  BY DEF ConnInit, ConnTypeOK, Connected, State
<1>3. OutageInv
  BY <1>1 DEF OutageInv, Down
<1> QED BY <1>2, <1>3 DEF ConnInv

\* Every operation of ConnectionManager keeps the invariant.
LEMMA ConnectionStep == ConnInv /\ [ConnNext]_connVars => ConnInv'
<1> SUFFICES ASSUME ConnInv, [ConnNext]_connVars PROVE ConnInv'
  OBVIOUS
<1> USE TimeoutAssumption
<1>1. CASE OnDisconnect
  BY <1>1 DEF OnDisconnect, Frozen, State, ConnInv, ConnTypeOK, OutageInv, Down
<1>2. CASE OnReconnect
  BY <1>2 DEF OnReconnect, Connected, State, ConnInv, ConnTypeOK, OutageInv, Down
<1>3. CASE OnVersionMismatch
  BY <1>3 DEF OnVersionMismatch, Disconnected, State, ConnInv, ConnTypeOK, OutageInv, Down
<1>4. CASE Tick
  <2>1. PICK d \in 1 .. MAX_SKIP :
          clock' = clock + d /\ (TickFrozen(clock + d) \/ TickResync(clock + d))
    BY <1>4 DEF Tick
  <2>2. down_since' = down_since /\ force_reload' = force_reload
    BY <1>4 DEF Tick
  <2>3. ASSUME GiveUp PROVE ConnInv'
    BY <2>1, <2>2, <2>3 DEF GiveUp, Disconnected, State, ConnInv, ConnTypeOK, OutageInv, Down
  <2>4. CASE TickFrozen(clock + d)
    <3>1. CASE GiveUp
      BY <3>1, <2>3
    <3>2. CASE /\ Elapsed(clock + d, conn.since) < FROZEN_TIMEOUT_TICKS
               /\ Attempt(0, clock + d)
      <4>1. 0 * RetryPeriod = 0
        BY DEF RetryPeriod
      <4>2. conn' = Resync(0, conn.since) /\ last_retry_tick' = clock + d
        BY <3>2 DEF Attempt
      <4>3. conn.since = clock /\ conn.since = down_since
        BY <2>4 DEF TickFrozen, ConnInv, OutageInv, Down
      <4> QED
        BY <2>1, <2>2, <3>2, <4>1, <4>2, <4>3 DEF Elapsed, Resync, State, ConnInv, ConnTypeOK, OutageInv, Down
    <3> QED BY <2>4, <3>1, <3>2 DEF TickFrozen, Elapsed, ConnInv, ConnTypeOK
  <2>5. CASE TickResync(clock + d)
    <3>1. conn.st = "Resync" /\ conn.since = down_since /\ conn.retry \in Nat
      BY <2>5 DEF TickResync, ConnInv, OutageInv, ConnTypeOK, Down
    <3>2. CASE GiveUp
      BY <3>2, <2>3
    <3>3. CASE /\ Elapsed(clock + d, conn.since) < FROZEN_TIMEOUT_TICKS
               /\ Elapsed(clock + d, last_retry_tick) >= RETRY_INTERVAL_TICKS
               /\ RetriesLeft
               /\ Attempt(conn.retry + 1, clock + d)
      <4>1. /\ conn.retry * RetryPeriod \in Nat
            /\ (conn.retry + 1) * RetryPeriod = conn.retry * RetryPeriod + RetryPeriod
        BY <3>1, RetrySchedule
      <4>2. conn' = Resync(conn.retry + 1, conn.since) /\ last_retry_tick' = clock + d
        BY <3>3 DEF Attempt
      <4>3. clock + d - down_since <= MAX_SKIP + conn.retry * RetryPeriod + RetryPeriod
        BY <2>1, <3>1, <4>1 DEF ConnInv, ConnTypeOK, OutageInv, RetryPeriod
      <4>4. clock + d - down_since < FROZEN_TIMEOUT_TICKS
        BY <2>1, <3>1, <3>3 DEF ConnInv, ConnTypeOK, Elapsed
      <4>5. conn'.retry * RetryPeriod = conn.retry * RetryPeriod + RetryPeriod
        BY <4>1, <4>2 DEF Resync, State
      <4>6. ConnTypeOK'
        BY <2>1, <2>2, <3>1, <4>2 DEF ConnInv, ConnTypeOK, Resync, State
      <4>7. OutageInv'
        <5>1. conn'.st = "Resync" /\ conn'.since = down_since' /\ conn'.retry <= MAX_RESYNC_RETRIES
          BY <2>2, <3>1, <3>3, <4>2 DEF Resync, State, RetriesLeft
        <5>2. last_retry_tick' = clock' /\ clock' = clock + d /\ clock \in Nat /\ down_since \in Nat
          BY <2>1, <4>2 DEF ConnInv, ConnTypeOK
        <5>3. last_retry_tick' - down_since' <= MAX_SKIP + conn'.retry * RetryPeriod
          BY <2>2, <4>1, <4>3, <4>5, <5>2 DEF RetryPeriod
        <5> QED BY <2>2, <4>4, <5>1, <5>2, <5>3 DEF OutageInv, Down, RetryPeriod
      <4> QED BY <4>6, <4>7 DEF ConnInv
    <3>4. CASE /\ Elapsed(clock + d, conn.since) < FROZEN_TIMEOUT_TICKS
               /\ Elapsed(clock + d, last_retry_tick) < RETRY_INTERVAL_TICKS
               /\ UNCHANGED <<conn, last_retry_tick>>
      BY <2>1, <2>2, <3>1, <3>4 DEF Elapsed, ConnInv, ConnTypeOK, OutageInv, Down, RetryPeriod
    <3> QED
      BY <2>1, <2>5, <3>1, <3>2, <3>3, <3>4 DEF TickResync, Elapsed, ConnInv, ConnTypeOK
  <2> QED BY <2>1, <2>4, <2>5
<1>5. CASE UNCHANGED connVars
  BY <1>5 DEF connVars, ConnInv, ConnTypeOK, OutageInv, Down, RetryPeriod
<1> QED BY <1>1, <1>2, <1>3, <1>4, <1>5 DEF ConnNext

\* The schedule bounds the age of an outage by both budgets.
LEMMA ScheduleBounds == ConnInv => OutageBounded
<1> SUFFICES ASSUME ConnInv, Down PROVE clock - down_since < OutageLimit
  BY DEF OutageBounded
<1> USE TimeoutAssumption
<1> DEFINE M == MAX_RESYNC_RETRIES * RetryPeriod
<1>1. M \in Nat /\ (MAX_RESYNC_RETRIES + 1) * RetryPeriod = M + RetryPeriod /\ RetryPeriod \in Nat
  BY RetrySchedule DEF RetryPeriod
<1>2. OutageLimit = IF M + RetryPeriod + 1 < FROZEN_TIMEOUT_TICKS
                    THEN M + RetryPeriod + 1 ELSE FROZEN_TIMEOUT_TICKS
  BY <1>1 DEF OutageLimit
<1>3. CASE conn.st = "Frozen"
  BY <1>1, <1>2, <1>3 DEF ConnInv, ConnTypeOK, OutageInv
<1>4. CASE conn.st = "Resync"
  <2>1. conn.retry \in Nat /\ conn.retry <= MAX_RESYNC_RETRIES
    BY <1>4 DEF ConnInv, ConnTypeOK, OutageInv
  <2>2. conn.retry * RetryPeriod <= M /\ conn.retry * RetryPeriod \in Nat
    BY <2>1, RetrySchedule
  <2>3. last_retry_tick - down_since <= MAX_SKIP + M
    BY <1>1, <1>4, <2>2 DEF ConnInv, ConnTypeOK, OutageInv
  <2>4. clock - down_since < M + RetryPeriod + 1
    BY <1>1, <1>4, <2>3 DEF ConnInv, ConnTypeOK, OutageInv, RetryPeriod
  <2> QED BY <1>1, <1>2, <1>4, <2>4 DEF ConnInv, ConnTypeOK, OutageInv
<1> QED BY <1>3, <1>4 DEF Down

\* The connection state machine stays well typed.
THEOREM ConnectionTypeCorrect == ConnSpec => []ConnTypeOK
<1>1. ConnInv => ConnTypeOK
  BY DEF ConnInv
<1> QED BY ConnectionInit, ConnectionStep, <1>1, PTL DEF ConnSpec

\* tick() gives up on an outage before it is older than FROZEN_TIMEOUT_TICKS
\* and than one retry period per attempt, whatever the constants are and
\* however disconnects, full syncs and version mismatches interleave.
THEOREM OutageIsBounded == ConnSpec => []OutageBounded
BY ConnectionInit, ConnectionStep, ScheduleBounds, PTL DEF ConnSpec

-----------------------------------------------------------------------------
(* The two components around one snapshot ring *)

\* Whatever the connection does, the ring, the inputs and the world only ever
\* change the way prediction and rollback change them.
LEMMA NetStepIsRollbackStep == [NetNext]_allVars => [Next]_vars
<1> SUFFICES ASSUME [NetNext]_allVars PROVE Next \/ UNCHANGED vars
  OBVIOUS
<1>1. CASE UNCHANGED allVars
  BY <1>1 DEF allVars
<1>2. CASE Predict
  BY <1>2 DEF Predict, Next
<1>3. CASE ServerInput
  BY <1>3 DEF ServerInput, Next
<1>4. CASE ServerState
  BY <1>4 DEF ServerState, Next
<1>5. CASE Drop \/ BadVersion \/ OutageTick
  BY <1>5 DEF Drop, BadVersion, OutageTick
<1>6. CASE Reconnect
  BY <1>6 DEF Reconnect, Next
<1> QED BY <1>1, <1>2, <1>3, <1>4, <1>5, <1>6 DEF NetNext

\* Whatever is predicted or rolled back, the connection only ever changes the
\* way ConnectionManager changes it.
LEMMA NetStepIsConnectionStep == [NetNext]_allVars => [ConnNext]_connVars
<1> SUFFICES ASSUME [NetNext]_allVars PROVE ConnNext \/ UNCHANGED connVars
  OBVIOUS
<1>1. CASE UNCHANGED allVars
  BY <1>1 DEF allVars
<1>2. CASE Predict \/ ServerInput \/ ServerState
  BY <1>2 DEF Predict, ServerInput, ServerState
<1>3. CASE Drop \/ BadVersion \/ OutageTick \/ Reconnect
  BY <1>3 DEF Drop, BadVersion, OutageTick, Reconnect, ConnNext
<1> QED BY <1>1, <1>2, <1>3 DEF NetNext

\* The whole client's netcode implements the rollback component: frames that
\* are held back during an outage and a full sync that moves both components
\* at once are steps, or no steps, of prediction and rollback, so that what is
\* proved of it holds of the composition.
THEOREM NetClientImplementsRollback == NetSpec => Spec
<1>1. NetInit => Init
  BY DEF NetInit
<1> QED BY <1>1, NetStepIsRollbackStep, PTL DEF NetSpec, Spec

\* In the whole client's netcode, server states and inputs that arrive during
\* an outage and the full sync that ends it never let an outage outlive its
\* two budgets.
THEOREM NetOutageIsBounded == NetSpec => []OutageBounded
<1>1. NetInit => ConnInit
  BY DEF NetInit
<1> QED BY <1>1, NetStepIsConnectionStep, ConnectionInit, ConnectionStep, ScheduleBounds, PTL DEF NetSpec

\* In the whole client's netcode a full sync that replaces the ring, late
\* server states and frames held back by an outage leave the ring, its inputs
\* and the client's tick consistent.
THEOREM NetRollbackIsSound == NetSpec => [](NoDanglingRollback /\ ReplayInputsKept /\ NewestIsCurrent /\ DuplicatesAgree)
BY NetClientImplementsRollback, RollbackNeverDangles, ReplayFindsInputs, RingEndsAtCurrentTick,
   ResimulationIsDeterministic, PTL
=============================================================================
