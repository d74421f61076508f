------------------------------ MODULE ShadowVm -------------------------------
(***************************************************************************)
(* The shadow VM (engine/shadow_vm/src, client/js/shadow_worker.js): the   *)
(* main thread collects frames, samples a window of them now and then and  *)
(* posts it to a Web Worker that replays it; the worker may throw, fail to *)
(* start and be restarted.  Messages to and from a worker keep their       *)
(* order; what a replaced worker had posted, and its error event, still    *)
(* arrive.  The callbacks that join the parts are the integration layer's  *)
(* (the crate names it but does not hold it): a sample is recorded, taken, *)
(* sent and cleared as in tests/integration.rs, the queue and the cleanup  *)
(* counter are reset with a restart, as their own comments say.            *)
(***************************************************************************)
EXTENDS Integers, Sequences, FiniteSets

CONSTANTS
  WINDOW_SIZE,              \* frames of a request
  MIN_INTERVAL, MAX_INTERVAL, \* ticks from one sample to the next
  MAX_PENDING_REQUESTS,
  MAX_RESTARTS_PER_WINDOW, RESTART_WINDOW_FRAMES,
  CLEANUP_INTERVAL,
  MaxTick, MaxCrashes       \* bounds of the model

ASSUME ShadowConstants ==
  /\ {WINDOW_SIZE, MIN_INTERVAL, MAX_PENDING_REQUESTS, MAX_RESTARTS_PER_WINDOW,
      RESTART_WINDOW_FRAMES, CLEANUP_INTERVAL, MaxTick} \subseteq Nat \ {0}
  /\ MAX_INTERVAL \in Nat /\ MIN_INTERVAL <= MAX_INTERVAL /\ MaxCrashes \in Nat

VARIABLES
  tick,         \* last frame of the main thread
  window,       \* TraceCollector: ticks of the collected frames
  next_sample,  \* SamplingScheduler: next_sample_tick
  pending,      \* ShadowRequestQueue: pending_count
  validations,  \* CleanupScheduler: validation_count
  life,         \* WorkerLifecycle: [state, restarts, since]
  onerror,      \* has the browser an error event for the main thread
  worker,       \* the current worker: loading, first, ready, uninit, broken, stuck or gone
  to_worker,    \* messages to it
  queued,       \* how many of them, the first ones, the script's pendingMessages hold
  to_main,      \* messages to the main thread, of this worker or an earlier one
  workers,      \* auxiliary: workers created so far
  crashes,      \* auxiliary: failures of workers so far
  requests,     \* auxiliary: windows sent so far
  strays,       \* auxiliary: answers since the last restart that belong to no request of this worker
  lost          \* auxiliary: requests counted since then that will never be answered

mainVars   == <<tick, window, next_sample, pending, validations, life>>
workerVars == <<worker, to_worker, queued, workers>>
auxShadow  == <<crashes, requests, strays, lost>>
shadowVars == <<mainVars, onerror, workerVars, to_main, auxShadow>>

\* Everything created, ShadowVmClient::new has posted ShadowInit.
ShadowInit ==
  /\ tick = 0 /\ window = <<>>
  /\ next_sample \in MIN_INTERVAL .. MAX_INTERVAL
  /\ pending = 0 /\ validations = 0
  /\ life = [state |-> "Alive", restarts |-> 0, since |-> 0]
  /\ onerror = FALSE
  /\ worker = "loading" /\ to_worker = <<"init">> /\ queued = 0 /\ workers = 1 /\ to_main = <<>>
  /\ crashes = 0 /\ requests = <<>> /\ strays = 0 /\ lost = 0

-----------------------------------------------------------------------------
(* The main thread. *)

\* TraceCollector::record
Recorded(w, t) == Append(IF Len(w) >= WINDOW_SIZE THEN Tail(w) ELSE w, t)

\* A collector that keeps the frames it has handed out.
AfterSend_Mut(w) == w

\* TraceCollector::clear
AfterSend(w) == <<>>

\* should_sample, take_request and try_send all agree to a request.
MaySend(t, w) ==
  /\ t >= next_sample
  /\ life.state = "Alive"
  /\ Len(w) >= WINDOW_SIZE
  /\ pending < MAX_PENDING_REQUESTS

\* send_request: the window is posted and the collector cleared.
Sent(w) ==
  /\ to_worker' = Append(to_worker, "validate")
  /\ window' = AfterSend(w)
  /\ requests' = Append(requests, w)
  /\ UNCHANGED lost

\* send_request fails to serialise or to post: try_send has counted the request
\* and nothing takes that back.  Whether the caller then clears the collector
\* is its own affair.
SendFails(w) ==
  /\ lost' = lost + 1
  /\ window' \in {w, AfterSend(w)}
  /\ UNCHANGED <<to_worker, requests>>

\* One frame: record it, and if a sample is due, try to send the window.
MainFrame ==
  /\ tick < MaxTick
  /\ tick' = tick + 1
  /\ IF tick' >= next_sample
     THEN \E gap \in MIN_INTERVAL .. MAX_INTERVAL : next_sample' = tick' + gap
     ELSE UNCHANGED next_sample
  /\ LET w == Recorded(window, tick')
     IN  \/ MaySend(tick', w) /\ pending' = pending + 1 /\ (Sent(w) \/ SendFails(w))
         \/ ~ MaySend(tick', w) /\ window' = w /\ UNCHANGED <<pending, to_worker, requests, lost>>
  /\ UNCHANGED <<validations, life, onerror, worker, queued, workers, to_main, crashes, strays>>

\* CleanupScheduler::on_validation_completed
Validated(n) == IF n + 1 >= CLEANUP_INTERVAL THEN 0 ELSE n + 1

\* A queue that forgets to count an answer with an error.
AfterAnswer_Mut(n, m) == IF m.kind = "error" \/ n = 0 THEN n ELSE n - 1

\* on_response_received: a saturating decrement.
AfterAnswer(n, m) == IF n = 0 THEN 0 ELSE n - 1

\* WorkerLifecycle::on_init_ack
InitAcked(l) == IF l.state = "Restarting" THEN [l EXCEPT !.state = "Alive"] ELSE l

\* Is m the answer to a request of the current worker?
Answers(m) == m.request /\ m.worker = workers

\* The main thread's onmessage.  Every ShadowResponse counts as an answer, also
\* one of an earlier worker or of a failed initialisation.  An acknowledgement
\* is a message of no bytes, which on_message refuses (DeserializationFailed);
\* external: the layer above may know it for what it is and call on_init_ack.
OnMessage ==
  /\ to_main # <<>> /\ to_main' = Tail(to_main)
  /\ LET m == Head(to_main)
     IN  \/ /\ m.kind = "empty"
            /\ life' \in {life, InitAcked(life)}
            /\ lost' = IF Answers(m) THEN lost + 1 ELSE lost
            /\ UNCHANGED <<pending, validations, strays>>
         \/ /\ m.kind # "empty"
            /\ pending' = AfterAnswer(pending, m)
            /\ validations' = Validated(validations)
            /\ strays' = IF Answers(m) THEN strays ELSE strays + 1
            /\ UNCHANGED <<life, lost>>
  /\ UNCHANGED <<tick, window, next_sample, onerror, workerVars, crashes, requests>>

\* WorkerLifecycle::on_error
OnError ==
  /\ onerror /\ onerror' = FALSE
  /\ life' = IF life.state = "Dead" THEN life ELSE [life EXCEPT !.state = "Crashed"]
  /\ UNCHANGED <<tick, window, next_sample, pending, validations, workerVars, to_main, auxShadow>>

\* start_restart up to its check: the window starts anew when it is over, then
\* the restart is counted.
Counted ==
  IF tick - life.since >= RESTART_WINDOW_FRAMES
  THEN [life EXCEPT !.restarts = 1, !.since = tick]
  ELSE [life EXCEPT !.restarts = @ + 1]

\* A new worker is created and sent ShadowInit.
NewWorker ==
  /\ worker' = "loading" /\ to_worker' = <<"init">> /\ queued' = 0 /\ workers' = workers + 1
  /\ strays' = 0 /\ lost' = 0

\* A restart that leaves the old requests counted.
Restart_Mut == NewWorker /\ UNCHANGED <<pending, validations>>

\* What follows a granted restart: queue and cleanup counter are reset.
Restart == NewWorker /\ pending' = 0 /\ validations' = 0

\* start_restart after a crash; at the limit the worker is given up.
StartRestart ==
  /\ life.state = "Crashed"
  /\ IF Counted.restarts >= MAX_RESTARTS_PER_WINDOW
     THEN /\ life' = [Counted EXCEPT !.state = "Dead"]
          /\ UNCHANGED <<pending, validations, workerVars, strays, lost>>
     ELSE /\ life' = [Counted EXCEPT !.state = "Restarting"]
          /\ Restart
  /\ UNCHANGED <<tick, window, next_sample, onerror, to_main, crashes, requests>>

-----------------------------------------------------------------------------
(* The worker. *)

Post(kind, request) == to_main' = Append(to_main, [kind |-> kind, request |-> request, worker |-> workers])

\* shadow_worker.js: the WASM module loads, and the messages that came before
\* are dispatched from pendingMessages; or loading fails and is only logged.
WorkerLoads ==
  /\ worker = "loading"
  /\ \/ worker' = "first" /\ queued' \in 0 .. Len(to_worker)
     \/ worker' = "stuck" /\ UNCHANGED queued
  /\ UNCHANGED <<mainVars, onerror, to_worker, workers, to_main, auxShadow>>

\* dispatch of the first message there is, by a handler that returns.
Dispatched ==
  /\ to_worker # <<>> /\ to_worker' = Tail(to_worker)
  /\ queued' = IF queued = 0 THEN 0 ELSE queued - 1
  /\ UNCHANGED <<mainVars, onerror, workers, auxShadow>>

\* handle_init: acknowledged by a message of no bytes, or answered with an error
\* (hash, text or script not accepted).
HandleInit ==
  /\ worker = "first" /\ Dispatched
  /\ \/ worker' = "ready" /\ Post("empty", FALSE)
     \/ worker' = "uninit" /\ Post("error", FALSE)

\* handle_message: one answer for every request, the outcome of validate_sync,
\* the error of its replay, or no bytes when neither can be serialised.
HandleMessage ==
  /\ worker \in {"ready", "uninit"} /\ Dispatched
  /\ \/ worker = "ready" /\ \E kind \in {"response", "empty"} : Post(kind, TRUE)
     \/ Post("error", TRUE)
  /\ UNCHANGED worker

Validates(messages) == Cardinality({i \in DOMAIN messages : messages[i] = "validate"})

\* dispatch throws.  Called from onmessage that is an error event for the main
\* thread.  Called for a message of pendingMessages it ends the loop over them,
\* and the promise's catch logs it: no event, and the rest of them is never
\* dispatched, while later messages are.
Thrown ==
  LET gone == IF queued = 0 THEN 1 ELSE queued
  IN  /\ to_worker # <<>>
      /\ to_worker' = SubSeq(to_worker, gone + 1, Len(to_worker)) /\ queued' = 0
      /\ lost' = lost + Validates(SubSeq(to_worker, 1, gone))
      /\ onerror' = (onerror \/ queued = 0)
      /\ UNCHANGED <<mainVars, workers, to_main, requests, strays>>

\* handle_init panics, before WORKER_STATE is Ready or after it, or
\* handle_message does, with WORKER_STATE borrowed or not.
HandlerPanics ==
  /\ crashes < MaxCrashes /\ crashes' = crashes + 1
  /\ \/ worker = "first" /\ worker' \in {"uninit", "ready"}
     \/ worker \in {"ready", "uninit"} /\ worker' \in {worker, "broken"}
  /\ Thrown

\* WORKER_STATE has stayed borrowed: every further message panics.
BrokenPanics == worker = "broken" /\ Thrown /\ UNCHANGED <<worker, crashes>>

\* The worker's script itself cannot be loaded: an error event, and nobody to
\* read what is posted to it.
ScriptFails ==
  /\ worker = "loading" /\ worker' = "gone"
  /\ crashes < MaxCrashes /\ crashes' = crashes + 1
  /\ onerror' = TRUE
  /\ UNCHANGED <<mainVars, to_worker, queued, workers, to_main, requests, strays, lost>>

ShadowNext ==
  \/ MainFrame \/ OnMessage \/ OnError \/ StartRestart
  \/ WorkerLoads \/ HandleInit \/ HandleMessage \/ HandlerPanics \/ BrokenPanics \/ ScriptFails

ShadowSpec == ShadowInit /\ [][ShadowNext]_shadowVars

-----------------------------------------------------------------------------
\* Answers on their way from the current worker to requests it was sent.
OnTheWay == {i \in DOMAIN to_main : Answers(to_main[i])}

Unanswered == Validates(to_worker) + Cardinality(OnTheWay)

\* The queue counts exactly the requests that the current worker has before it
\* or has answered, so that a worker never has more than the limit before it,
\* but for two things: a request that is never answered (send_request failed
\* after try_send, a handler threw, the answer had no bytes) is counted until the
\* next restart, and an answer that belongs to no request of this worker (an
\* earlier worker's, or the error of a failed initialisation) makes the queue
\* count too few, by one at most.
BackpressureExact ==
  /\ pending \in 0 .. MAX_PENDING_REQUESTS
  /\ Unanswered + lost - pending \in 0 .. strays

\* Every request holds WINDOW_SIZE frames in a row and ends with the frame it
\* was sent in, and no frame is sent twice: samples closer together than a
\* window are skipped, and crashes and a full queue leave no gap in a window.
RequestsFresh ==
  \A i \in DOMAIN requests :
    /\ Len(requests[i]) = WINDOW_SIZE
    /\ \A k \in 2 .. WINDOW_SIZE : requests[i][k] = requests[i][k - 1] + 1
    /\ i > 1 => requests[i][1] > requests[i - 1][WINDOW_SIZE]

\* A full queue does not stay full: it drains, or the worker is found crashed.
\* The exceptions are the two failures of which the main thread is not told: the
\* worker's module never loaded, or requests that were lost without an error
\* event (send_request failed, or a throw ended the loop over pendingMessages)
\* fill the queue alone.
QueueDrains ==
  pending = MAX_PENDING_REQUESTS
    ~> \/ pending < MAX_PENDING_REQUESTS \/ life.state # "Alive"
       \/ worker = "stuck" \/ lost >= MAX_PENDING_REQUESTS
=============================================================================
