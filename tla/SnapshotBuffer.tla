--------------------------- MODULE SnapshotBuffer ---------------------------
(***************************************************************************)
(* The two bounded buffers of engine/netcode/src/snapshot.rs as operators  *)
(* on values.  A snapshot buffer is a sequence of records [tick, snap],    *)
(* oldest first (a VecDeque); an input buffer is a function whose domain   *)
(* is the set of ticks that have an entry (a BTreeMap).                    *)
(*                                                                         *)
(* Operators whose name ends in _Mut are plausible wrong versions of the   *)
(* definition that follows them; no specification uses them.               *)
(***************************************************************************)
EXTENDS Integers, Sequences

CONSTANT SNAPSHOT_CAPACITY      \* 10 in the code: slots of the ring, ticks of the input window

ASSUME CapacityAssumption == SNAPSHOT_CAPACITY \in Nat \ {0}

Entry(t, s) == [tick |-> t, snap |-> s]

\* push: evict the oldest entry of a full buffer, then append.  An existing
\* entry for the same tick is neither looked for nor replaced.
Push(buf, t, s) ==
  Append(IF Len(buf) = SNAPSHOT_CAPACITY THEN Tail(buf) ELSE buf, Entry(t, s))

\* Pushing the entries of es one after the other into a buffer that is not
\* over capacity: the newest SNAPSHOT_CAPACITY entries of buf \o es survive.
PushAll(buf, es) ==
  LET all  == buf \o es
      over == Len(all) - SNAPSHOT_CAPACITY
  IN  IF over > 0 THEN SubSeq(all, over + 1, Len(all)) ELSE all

Holds(buf, t) == \E i \in DOMAIN buf : buf[i].tick = t

\* get: a linear search from the front, so the OLDEST entry for the tick.
Get(buf, t) ==
  LET i == CHOOSE k \in DOMAIN buf :
             /\ buf[k].tick = t
             /\ \A j \in 1 .. k - 1 : buf[j].tick # t
  IN  buf[i].snap

\* InputBuffer::insert: a later insert for the same tick overwrites.
InsertInput(inputs, t, i) ==
  [u \in DOMAIN inputs \cup {t} |-> IF u = t THEN i ELSE inputs[u]]

\* A window two ticks narrower than the snapshot ring.
RetainRecent_Mut(inputs, t) ==
  [u \in {v \in DOMAIN inputs :
            t >= SNAPSHOT_CAPACITY - 2 => v > t - (SNAPSHOT_CAPACITY - 2)} |-> inputs[u]]

\* retain_recent: keep the ticks above t - window; nothing is dropped while
\* t is below the window (the subtraction would underflow a u64).
RetainRecent(inputs, t) ==
  [u \in {v \in DOMAIN inputs :
            t >= SNAPSHOT_CAPACITY => v > t - SNAPSHOT_CAPACITY} |-> inputs[u]]
=============================================================================
