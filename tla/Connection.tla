----------------------------- MODULE Connection -----------------------------
(***************************************************************************)
(* ConnectionManager of engine/netcode/src/connection.rs: what a client    *)
(* does when the transport drops.  Connected -> Frozen on a disconnect,    *)
(* Frozen -> Resync on the next tick, then a bounded number of retries at  *)
(* a fixed interval, all under one total timeout; a verified full sync     *)
(* brings it back, a version mismatch ends it.                             *)
(*                                                                         *)
(* clock is the current_tick its owner passes in; between two calls of     *)
(* tick() it grows by at least 1 and at most MAX_SKIP (1 for an owner that *)
(* calls it every tick).  Only differences of clock readings matter while  *)
(* an outage lasts, and last_retry_tick is written before it is read in    *)
(* each outage, so the model lets the clock stand still while connected.   *)
(* The ReconnectAction that tick() returns is named by the operator that   *)
(* returns it (Attempt, GiveUp) and is not kept.                           *)
(***************************************************************************)
EXTENDS Integers

CONSTANTS
  FROZEN_TIMEOUT_TICKS,   \* 1800 in the code
  RETRY_INTERVAL_TICKS,   \* 120
  MAX_RESYNC_RETRIES,     \* 3
  MAX_SKIP,               \* most ticks between two calls of tick()
  MaxClock                \* bound of the model: no outage starts later

ASSUME TimeoutAssumption ==
  /\ FROZEN_TIMEOUT_TICKS \in Nat \ {0}
  /\ RETRY_INTERVAL_TICKS \in Nat \ {0}
  /\ MAX_RESYNC_RETRIES \in Nat
  /\ MAX_SKIP \in Nat \ {0}
  /\ MaxClock \in Nat

VARIABLES
  conn,             \* ConnectionState with its fields; retry and since are 0 where it has none
  last_retry_tick,
  force_reload,
  clock,
  down_since        \* auxiliary: when the latest outage began

connVars == <<conn, last_retry_tick, force_reload, clock, down_since>>

State(s, r, t) == [st |-> s, retry |-> r, since |-> t]
Connected      == State("Connected", 0, 0)
Frozen(t)      == State("Frozen", 0, t)
Resync(r, t)   == State("Resync", r, t)
Disconnected   == State("Disconnected", 0, 0)

ConnTypeOK ==
  /\ conn \in [st : {"Connected", "Frozen", "Resync", "Disconnected"}, retry : Nat, since : Nat]
  /\ last_retry_tick \in Nat
  /\ force_reload \in BOOLEAN
  /\ clock \in Nat
  /\ down_since \in Nat

\* ConnectionManager::new
ConnInit ==
  /\ conn = Connected
  /\ last_retry_tick = 0
  /\ force_reload = FALSE
  /\ clock = 0
  /\ down_since = 0

-----------------------------------------------------------------------------
\* on_disconnect: only a connected client freezes; later notices are ignored.
OnDisconnect ==
  /\ clock <= MaxClock
  /\ conn.st = "Connected"
  /\ conn' = Frozen(clock)
  /\ down_since' = clock
  /\ UNCHANGED <<last_retry_tick, force_reload, clock>>

\* on_reconnect with a packet whose hash verifies, from any state; a wrong
\* hash is an error that changes nothing.  The snapshot ring, which the owner
\* passes in, is cleared and refilled (FullSync of module Rollback).
OnReconnect ==
  /\ conn' = Connected
  /\ UNCHANGED <<last_retry_tick, force_reload, clock, down_since>>

\* on_version_mismatch
OnVersionMismatch ==
  /\ force_reload' = TRUE
  /\ conn' = Disconnected
  /\ UNCHANGED <<last_retry_tick, clock, down_since>>

\* The elapsed ticks a call of tick() at time now sees since t (saturating_sub).
Elapsed(now, t) == IF now >= t THEN now - t ELSE 0

\* Return Timeout.
GiveUp ==
  /\ conn' = Disconnected
  /\ UNCHANGED last_retry_tick

\* A retry that restarts the outage's clock.
Attempt_Mut(r, now) ==
  /\ conn' = Resync(r, now)
  /\ last_retry_tick' = now

\* Return AttemptReconnect and remember when; the outage keeps its starting time.
Attempt(r, now) ==
  /\ conn' = Resync(r, conn.since)
  /\ last_retry_tick' = now

\* tick() while Frozen
TickFrozen(now) ==
  /\ conn.st = "Frozen"
  /\ IF Elapsed(now, conn.since) >= FROZEN_TIMEOUT_TICKS THEN GiveUp ELSE Attempt(0, now)

\* new_retry > MAX_RESYNC_RETRIES gives up.
RetriesLeft == conn.retry + 1 <= MAX_RESYNC_RETRIES

\* A state machine that leaves everything but Frozen alone.
TickResync_Mut(now) == FALSE

\* tick() while Resync: the total timeout first, then the retry interval.
TickResync(now) ==
  /\ conn.st = "Resync"
  /\ IF Elapsed(now, conn.since) >= FROZEN_TIMEOUT_TICKS
     THEN GiveUp
     ELSE IF Elapsed(now, last_retry_tick) >= RETRY_INTERVAL_TICKS
     THEN IF RetriesLeft THEN Attempt(conn.retry + 1, now) ELSE GiveUp
     ELSE UNCHANGED <<conn, last_retry_tick>>

\* One call of tick() during an outage; in the other states it returns None.
Tick ==
  /\ \E d \in 1 .. MAX_SKIP :
       /\ clock' = clock + d
       /\ TickFrozen(clock + d) \/ TickResync(clock + d)
  /\ UNCHANGED <<force_reload, down_since>>

ConnNext == OnDisconnect \/ OnReconnect \/ OnVersionMismatch \/ Tick

ConnSpec == ConnInit /\ [][ConnNext]_connVars /\ WF_connVars(Tick)

-----------------------------------------------------------------------------
(* Properties *)

Down == conn.st \in {"Frozen", "Resync"}

\* The longest an attempt waits for the call that starts the next one.
RetryPeriod == RETRY_INTERVAL_TICKS - 1 + MAX_SKIP

\* The age at which an outage has been given up on: the total timeout, or one
\* retry period for the first attempt and for each retry, whichever is less.
OutageLimit ==
  LET retries == (MAX_RESYNC_RETRIES + 1) * RetryPeriod + 1
  IN  IF retries < FROZEN_TIMEOUT_TICKS THEN retries ELSE FROZEN_TIMEOUT_TICKS

\* However retries, the total timeout and late calls of tick() interleave, an
\* outage that is still open is younger than both budgets.  With the code's
\* constants and a call per tick the retries, 481 ticks (8 s), end an outage
\* long before the 1800 ticks (30 s) of FROZEN_TIMEOUT_TICKS.
OutageBounded == Down => clock - down_since < OutageLimit

\* Every outage ends: a frozen client is connected again or gives up, as long
\* as its owner keeps calling tick().
OutageResolves == Down ~> conn.st \in {"Connected", "Disconnected"}
=============================================================================
