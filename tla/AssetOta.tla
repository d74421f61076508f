------------------------------ MODULE AssetOta ------------------------------
(***************************************************************************)
(* OtaManager of engine/ota/src/ota_manager.rs: the assets in which a      *)
(* newer manifest differs are queued by priority and handed out for        *)
(* download as long as the memory budget allows.  A manifest is a function *)
(* from asset ids to versions (their BLAKE3 hashes).                       *)
(***************************************************************************)
EXTENDS Integers, Sequences, FiniteSets, FiniteSetsExt, Selection

CONSTANTS
  Assets,              \* asset ids, numbered in their order
  AssetVersions,
  SizeOf(_),           \* size of an item, in units of the budget
  PriorityOf(_),       \* 1 Normal, 2 Background
  OTA_MEMORY_BUDGET,
  MaxQueued            \* bound of the model: items waiting

VARIABLES
  current_manifest,
  download_queue,      \* priority -> items in the order they were queued
  in_progress_bytes,
  downloading          \* auxiliary: how many downloads of each item are under way

assetVars == <<current_manifest, download_queue, in_progress_bytes, downloading>>

Items == [id : Assets, version : AssetVersions]

ASSUME AssetOtaConstants ==
  /\ Assets \subseteq Nat \ {0} /\ \E n \in Assets : \A m \in Assets : m <= n
  /\ IsFiniteSet(AssetVersions) /\ OTA_MEMORY_BUDGET \in Nat
  /\ \A i \in Items : SizeOf(i) \in Nat

Manifests == UNION {[S -> AssetVersions] : S \in SUBSET Assets}

AssetInit ==
  /\ current_manifest \in Manifests
  /\ download_queue = [p \in 1 .. 2 |-> << >>]
  /\ in_progress_bytes = 0
  /\ downloading = [i \in Items |-> 0]

\* AssetManifest::diff: what newer adds and what it updates.
Added(newer)   == DOMAIN newer \ DOMAIN current_manifest
Changed(newer) == {a \in DOMAIN newer \cap DOMAIN current_manifest : newer[a] # current_manifest[a]}

\* The items of the assets in S that have priority p, in id order (BTreeMap).
ItemsOf(newer, S, p) ==
  LET last == CHOOSE n \in Assets : \A m \in Assets : m <= n
      item(a) == [id |-> a, version |-> newer[a]]
      ids == Selected([a \in 1 .. last |-> a], {a \in S : PriorityOf(item(a)) = p})
  IN  [n \in 1 .. Len(ids) |-> item(ids[n])]

\* schedule_update: additions, then updates, behind what is queued already.
ScheduleUpdate(newer) ==
  /\ Len(download_queue[1]) + Len(download_queue[2]) + Cardinality(DOMAIN newer) <= MaxQueued
  /\ download_queue' = [p \in 1 .. 2 |-> download_queue[p] \o ItemsOf(newer, Added(newer), p)
                                                           \o ItemsOf(newer, Changed(newer), p)]
  /\ UNCHANGED <<current_manifest, in_progress_bytes, downloading>>

\* A budget that is tested before the item's own size is added.
Fits_Mut(bytes, item) == bytes <= OTA_MEMORY_BUDGET

Fits(bytes, item) == bytes + SizeOf(item) <= OTA_MEMORY_BUDGET

\* next_batch: one pass over the whole queue, taking every item that fits what
\* is left of the budget; walk[n] is where it stands after the first n items.
NextBatch ==
  LET all == download_queue[1] \o download_queue[2]
      walk[n \in 0 .. Len(all)] ==
        IF n = 0 THEN [bytes |-> in_progress_bytes, batch |-> {}, downloading |-> downloading]
        ELSE LET w == walk[n - 1]
             IN  IF Fits(w.bytes, all[n])
                 THEN [bytes |-> w.bytes + SizeOf(all[n]), batch |-> w.batch \cup {n},
                       downloading |-> [w.downloading EXCEPT ![all[n]] = @ + 1]]
                 ELSE w
      end == walk[Len(all)]
      left(from, q) == Selected(q, {n \in DOMAIN q : from + n \notin end.batch})
  IN  /\ end.batch # {}
      /\ in_progress_bytes' = end.bytes
      /\ download_queue' = [p \in 1 .. 2 |-> IF p = 1 THEN left(0, download_queue[1])
                                             ELSE left(Len(download_queue[1]), download_queue[2])]
      /\ downloading' = end.downloading
      /\ UNCHANGED current_manifest

\* complete_item; the caller reports each download once (saturating_sub).
CompleteItem(item) ==
  /\ downloading[item] > 0
  /\ downloading' = [downloading EXCEPT ![item] = @ - 1]
  /\ in_progress_bytes' = IF in_progress_bytes >= SizeOf(item) THEN in_progress_bytes - SizeOf(item) ELSE 0
  /\ UNCHANGED <<current_manifest, download_queue>>

ApplyManifest(m) ==
  /\ current_manifest' = m
  /\ UNCHANGED <<download_queue, in_progress_bytes, downloading>>

AssetNext ==
  \/ \E m \in Manifests : ScheduleUpdate(m) \/ ApplyManifest(m)
  \/ NextBatch
  \/ \E i \in Items : CompleteItem(i)

-----------------------------------------------------------------------------
\* However schedules, batches and completions interleave, the downloads under
\* way fit the memory budget, and the counter the next batch is judged by is
\* exactly their size: nothing leaks and nothing is counted twice.
DownloadsWithinBudget ==
  LET size == MapThenSumSet(LAMBDA i : downloading[i] * SizeOf(i), Items)
  IN  size <= OTA_MEMORY_BUDGET /\ in_progress_bytes = size
=============================================================================
