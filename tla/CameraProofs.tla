--------------------------- MODULE CameraProofs -----------------------------
(***************************************************************************)
(* Proofs about the cameras, for every set of cameras and of handles their *)
(* markers ask for, in whatever order the systems of PreUpdate find the    *)
(* changes: that the registry stays sound, that a cinematic removes its    *)
(* own override and no other, and that the sorted stacks implement the     *)
(* overrides of module PriorityOverrides.                                  *)
(***************************************************************************)
EXTENDS Camera, ListLemmas

(* The registry *)

\* Functions from some of S to T.
Partial(S, T) == UNION {[R -> T] : R \in SUBSET S}

Registries == [handle_to_entity : Partial(Nat, CAMERAS), entity_to_handle : Partial(CAMERAS, Nat), next_id : Nat \ {0}]

\* The two directions of a registry agree, and its handles lie below next_id.
Agrees(r) ==
  /\ \A h \in DOMAIN r.handle_to_entity :
       /\ 0 < h /\ h < r.next_id
       /\ r.handle_to_entity[h] \in DOMAIN r.entity_to_handle
       /\ r.entity_to_handle[r.handle_to_entity[h]] = h
  /\ \A c \in DOMAIN r.entity_to_handle :
       /\ r.entity_to_handle[c] \in DOMAIN r.handle_to_entity
       /\ r.handle_to_entity[r.entity_to_handle[c]] = c

\* The inductive invariant: a camera that PreUpdate will register has a marker, and
\* one that it will unregister although it has a marker is still to be registered
\* or was unlucky.
IInv ==
  /\ marker \in [CAMERAS -> Int]
  /\ added \subseteq CAMERAS
  /\ \A c \in added : marker[c] \in Nat
  /\ registry \in Registries
  /\ Agrees(registry)
  /\ \A c \in removed : marker[c] # NoMarker => c \in added \cup unlucky
  /\ MarkedIsRegistered

-----------------------------------------------------------------------------
\* Partial functions stay partial functions.
LEMMA BoundPartial ==
  ASSUME NEW S, NEW T, NEW f \in Partial(S, T), NEW x \in S, NEW v \in T
  PROVE  Bound(f, x, v) \in Partial(S, T)
<1>1. PICK R \in SUBSET S : f \in [R -> T]
  BY DEF Partial
<1>2. Bound(f, x, v) \in [R \cup {x} -> T]
  BY <1>1 DEF Bound
<1> QED BY <1>2 DEF Partial

\* Removing an entry leaves a partial function.
LEMMA UnboundPartial ==
  ASSUME NEW S, NEW T, NEW f \in Partial(S, T), NEW x
  PROVE  Unbound(f, x) \in Partial(S, T)
<1>1. PICK R \in SUBSET S : f \in [R -> T]
  BY DEF Partial
<1>2. Unbound(f, x) \in [R \ {x} -> T]
  BY <1>1 DEF Unbound
<1> QED BY <1>2 DEF Partial

\* What a partial function is.
LEMMA PartialFacts ==
  ASSUME NEW S, NEW T, NEW f \in Partial(S, T)
  PROVE  /\ DOMAIN f \subseteq S
         /\ \A x \in DOMAIN f : f[x] \in T
BY DEF Partial

\* register keeps the registry sound: a handle asked for is taken only when it is
\* free, and next_id is never a handle in use.
LEMMA RegisterOK ==
  ASSUME NEW r \in Registries, Agrees(r), NEW c \in CAMERAS, marker[c] \in Nat
  PROVE  Register(r, c) \in Registries /\ Agrees(Register(r, c))
<1> DEFINE n == marker[c]
           h == IF n = 0 THEN r.next_id ELSE n
           known == c \in DOMAIN r.entity_to_handle \/ (n # 0 /\ n \in DOMAIN r.handle_to_entity)
           next == IF n = 0 THEN h + 1 ELSE AfterHandle(r, n)
           q == [handle_to_entity |-> Bound(r.handle_to_entity, h, c),
                 entity_to_handle |-> Bound(r.entity_to_handle, c, h),
                 next_id |-> next]
<1>1. CASE known
  BY <1>1 DEF Register
<1>2. CASE ~ known
  <2>1. Register(r, c) = q
    BY <1>2 DEF Register
  <2>2. /\ r.handle_to_entity \in Partial(Nat, CAMERAS) /\ r.entity_to_handle \in Partial(CAMERAS, Nat)
        /\ r.next_id \in Nat \ {0}
    BY DEF Registries
  <2>3. h \in Nat \ {0} /\ next \in Nat \ {0} /\ h < next /\ r.next_id <= next
    BY <2>2 DEF AfterHandle
  <2>4. c \notin DOMAIN r.entity_to_handle
    BY <1>2
  <2>5. h \notin DOMAIN r.handle_to_entity
    BY <1>2, <2>2 DEF Agrees
  <2>6. /\ q.handle_to_entity \in Partial(Nat, CAMERAS)
        /\ DOMAIN q.handle_to_entity = DOMAIN r.handle_to_entity \cup {h}
        /\ q.handle_to_entity[h] = c
        /\ \A y \in DOMAIN r.handle_to_entity \ {h} : q.handle_to_entity[y] = r.handle_to_entity[y]
    <3>1. Bound(r.handle_to_entity, h, c) \in Partial(Nat, CAMERAS)
      BY <2>2, <2>3, BoundPartial
    <3> QED BY <3>1 DEF Bound
  <2>7. /\ q.entity_to_handle \in Partial(CAMERAS, Nat)
        /\ DOMAIN q.entity_to_handle = DOMAIN r.entity_to_handle \cup {c}
        /\ q.entity_to_handle[c] = h
        /\ \A y \in DOMAIN r.entity_to_handle \ {c} : q.entity_to_handle[y] = r.entity_to_handle[y]
    <3>1. Bound(r.entity_to_handle, c, h) \in Partial(CAMERAS, Nat)
      BY <2>2, <2>3, BoundPartial
    <3> QED BY <3>1 DEF Bound
  <2>8. q.next_id = next
    OBVIOUS
  <2> HIDE DEF q, h, next
  <2>9. \A g \in DOMAIN r.handle_to_entity : g \in Nat
    BY <2>2, PartialFacts
  <2>10. ASSUME NEW g \in DOMAIN q.handle_to_entity
         PROVE  /\ 0 < g /\ g < q.next_id
                /\ q.handle_to_entity[g] \in DOMAIN q.entity_to_handle
                /\ q.entity_to_handle[q.handle_to_entity[g]] = g
    <3>1. CASE g = h
      BY <2>3, <2>6, <2>7, <2>8, <3>1
    <3>2. CASE g # h
      <4>1. g \in DOMAIN r.handle_to_entity /\ q.handle_to_entity[g] = r.handle_to_entity[g]
        BY <2>6, <3>2
      <4>2. /\ 0 < g /\ g < r.next_id
            /\ r.handle_to_entity[g] \in DOMAIN r.entity_to_handle
            /\ r.entity_to_handle[r.handle_to_entity[g]] = g
        BY <4>1 DEF Agrees
      <4>3. 0 < g /\ g < q.next_id
        BY <2>2, <2>3, <2>8, <2>9, <4>1, <4>2
      <4> QED BY <2>4, <2>7, <4>1, <4>2, <4>3
    <3> QED BY <3>1, <3>2
  <2>11. ASSUME NEW d \in DOMAIN q.entity_to_handle
         PROVE  /\ q.entity_to_handle[d] \in DOMAIN q.handle_to_entity
                /\ q.handle_to_entity[q.entity_to_handle[d]] = d
    <3>1. CASE d = c
      BY <2>6, <2>7, <3>1
    <3>2. CASE d # c
      <4>1. d \in DOMAIN r.entity_to_handle /\ q.entity_to_handle[d] = r.entity_to_handle[d]
        BY <2>7, <3>2
      <4>2. /\ r.entity_to_handle[d] \in DOMAIN r.handle_to_entity
            /\ r.handle_to_entity[r.entity_to_handle[d]] = d
        BY <4>1 DEF Agrees
      <4> QED BY <2>5, <2>6, <4>1, <4>2
    <3> QED BY <3>1, <3>2
  <2>12. q \in Registries
    BY <2>3, <2>6, <2>7, <2>8 DEF Registries, q
  <2> QED BY <2>1, <2>10, <2>11, <2>12 DEF Agrees
<1> QED BY <1>1, <1>2

\* unregister removes a handle in both directions.
LEMMA UnregisterOK ==
  ASSUME NEW r \in Registries, Agrees(r), NEW c
  PROVE  Unregister(r, c) \in Registries /\ Agrees(Unregister(r, c))
<1>1. CASE c \notin DOMAIN r.entity_to_handle
  BY <1>1 DEF Unregister
<1>2. CASE c \in DOMAIN r.entity_to_handle
  <2> DEFINE h == r.entity_to_handle[c]
             q == Unregister(r, c)
  <2>1. /\ r.handle_to_entity \in Partial(Nat, CAMERAS) /\ r.entity_to_handle \in Partial(CAMERAS, Nat)
        /\ r.next_id \in Nat \ {0}
    BY DEF Registries
  <2>2. /\ q.handle_to_entity = Unbound(r.handle_to_entity, h)
        /\ q.entity_to_handle = Unbound(r.entity_to_handle, c)
        /\ q.next_id = r.next_id
        /\ q = [handle_to_entity |-> q.handle_to_entity, entity_to_handle |-> q.entity_to_handle,
                next_id |-> r.next_id]
    BY <1>2 DEF Unregister, Registries
  <2>3. /\ q.handle_to_entity \in Partial(Nat, CAMERAS)
        /\ DOMAIN q.handle_to_entity = DOMAIN r.handle_to_entity \ {h}
        /\ \A y \in DOMAIN r.handle_to_entity \ {h} : q.handle_to_entity[y] = r.handle_to_entity[y]
    <3>1. Unbound(r.handle_to_entity, h) \in Partial(Nat, CAMERAS)
      BY <2>1, UnboundPartial
    <3> QED BY <2>2, <3>1 DEF Unbound
  <2>4. /\ q.entity_to_handle \in Partial(CAMERAS, Nat)
        /\ DOMAIN q.entity_to_handle = DOMAIN r.entity_to_handle \ {c}
        /\ \A y \in DOMAIN r.entity_to_handle \ {c} : q.entity_to_handle[y] = r.entity_to_handle[y]
    <3>1. Unbound(r.entity_to_handle, c) \in Partial(CAMERAS, Nat)
      BY <2>1, UnboundPartial
    <3> QED BY <2>2, <3>1 DEF Unbound
  <2>5. q \in Registries
    BY <2>1, <2>2, <2>3, <2>4 DEF Registries
  <2> HIDE DEF q
  <2>6. Agrees(q)
    BY <1>2, <2>2, <2>3, <2>4 DEF Agrees
  <2> QED BY <2>5, <2>6 DEF q
<1> QED BY <1>1, <1>2

\* register and unregister concern one camera.
LEMMA RegisterOne ==
  ASSUME NEW r, NEW c
  PROVE  /\ DOMAIN Register(r, c).entity_to_handle \subseteq DOMAIN r.entity_to_handle \cup {c}
         /\ DOMAIN r.entity_to_handle \subseteq DOMAIN Register(r, c).entity_to_handle
BY DEF Register, Bound

\* unregister takes exactly one camera out.
LEMMA UnregisterOne ==
  ASSUME NEW r \in Registries, NEW c
  PROVE  DOMAIN Unregister(r, c).entity_to_handle = DOMAIN r.entity_to_handle \ {c}
BY DEF Unregister, Unbound, Registries

-----------------------------------------------------------------------------
\* The game starts with an empty registry.
LEMMA CameraInitOK == CameraInit => IInv
<1> SUFFICES ASSUME CameraInit PROVE IInv
  OBVIOUS
<1>1. PICK n \in REQUESTED : marker = [c \in CAMERAS |-> IF c = MAIN_CAMERA THEN n ELSE NoMarker]
  BY DEF CameraInit
<1>2. n \in Nat /\ MAIN_CAMERA \in CAMERAS
  BY CameraConstants
<1>3. marker \in [CAMERAS -> Int] /\ marker[MAIN_CAMERA] \in Nat
  BY <1>1, <1>2 DEF NoMarker
<1>4. /\ registry = [handle_to_entity |-> <<>>, entity_to_handle |-> <<>>, next_id |-> 1]
      /\ added = {MAIN_CAMERA}
  BY DEF CameraInit
<1>5. \A S, T : <<>> \in Partial(S, T)
  <2> SUFFICES ASSUME NEW S, NEW T PROVE <<>> \in Partial(S, T)
    OBVIOUS
  <2>1. <<>> \in [{} -> T]
    OBVIOUS
  <2> QED BY <2>1 DEF Partial
<1>6. registry \in Registries /\ Agrees(registry)
  BY <1>4, <1>5 DEF Registries, Agrees
<1>7. removed = {} /\ MarkedIsRegistered
  BY <1>1, <1>4 DEF CameraInit, MarkedIsRegistered
<1> QED BY <1>2, <1>3, <1>4, <1>6, <1>7 DEF IInv

\* The steps that touch neither the markers nor the registry.
LEMMA OthersOK ==
  ASSUME IInv, UNCHANGED <<marker, added, removed, registry, unlucky>>
  PROVE  IInv'
BY DEF IInv, Agrees, Registries, MarkedIsRegistered

\* Markers come and go with game code.
LEMMA MarkerOK ==
  ASSUME IInv, NEW c \in CAMERAS, NEW n \in REQUESTED,
         SpawnCamera(c, n) \/ InsertMarker(c, n)
  PROVE  IInv'
<1>1. n \in Nat
  BY CameraConstants
<1>2. /\ marker' = [marker EXCEPT ![c] = n] /\ added' = added \cup {c}
      /\ UNCHANGED <<removed, registry, unlucky>>
  BY DEF SpawnCamera, InsertMarker, GameCall
<1>3. MarkedIsRegistered'
  BY <1>2 DEF IInv, MarkedIsRegistered
<1> QED BY <1>1, <1>2, <1>3 DEF IInv

\* Removing a marker, or the entity with it, keeps the invariant.
LEMMA UnmarkOK ==
  ASSUME IInv, NEW c \in CAMERAS, Unmark(c), UNCHANGED <<registry, unlucky>>
  PROVE  IInv'
<1>1. /\ marker' = [marker EXCEPT ![c] = NoMarker] /\ added' = added \ {c}
      /\ removed' = IF marker[c] = NoMarker THEN removed ELSE removed \cup {c}
  BY DEF Unmark
<1>2. NoMarker \in Int /\ NoMarker \notin Nat
  BY DEF NoMarker
<1>3. MarkedIsRegistered'
  BY <1>1, <1>2 DEF IInv, MarkedIsRegistered
<1>4. \A d \in removed' : marker'[d] # NoMarker => d \in added' \cup unlucky'
  BY <1>1 DEF IInv
<1>5. /\ marker' \in [CAMERAS -> Int] /\ added' \subseteq CAMERAS
      /\ \A d \in added' : marker'[d] \in Nat
  BY <1>1, <1>2 DEF IInv
<1> QED BY <1>3, <1>4, <1>5 DEF IInv

\* Every step keeps the invariant.
LEMMA CameraNextOK == IInv /\ [CameraNext]_cameraVars => IInv'
<1> SUFFICES ASSUME IInv, [CameraNext]_cameraVars PROVE IInv'
  OBVIOUS
<1>1. CASE StartPreUpdate \/ RegisterDone \/ UnregisterDone
  BY <1>1, OthersOK DEF StartPreUpdate, RegisterDone, UnregisterDone, PreUpdateRest
<1>2. CASE FlushCameraOps \/ StartUpdate \/ HandleRequest \/ FinishUpdate
  BY <1>2, OthersOK DEF FlushCameraOps, StartUpdate, HandleRequest, FinishUpdate, ecsVars
<1>3. CASE \E h \in 0 .. registry.next_id, op \in ScriptOps : ScriptCall(h, op)
  BY <1>3, OthersOK DEF ScriptCall, ecsVars
<1>4. ASSUME NEW c \in CAMERAS, RegisterCamera(c) PROVE IInv'
  <2>1. /\ c \in added /\ registry' = Register(registry, c) /\ added' = added \ {c} /\ marker' = marker
        /\ unlucky' = IF c \in removed \/ c \notin DOMAIN registry'.entity_to_handle
                      THEN unlucky \cup {c} ELSE unlucky
        /\ removed' = removed
    BY <1>4 DEF RegisterCamera, PreUpdateRest
  <2>2. Register(registry, c) \in Registries /\ Agrees(Register(registry, c))
    BY <2>1, RegisterOK DEF IInv
  <2>3. marker[c] # NoMarker
    BY <2>1 DEF IInv, NoMarker
  <2>4. MarkedIsRegistered'
    BY <2>1, <2>3, RegisterOne DEF IInv, MarkedIsRegistered
  <2>5. \A d \in removed' : marker'[d] # NoMarker => d \in added' \cup unlucky'
    BY <2>1 DEF IInv
  <2> QED BY <2>1, <2>2, <2>4, <2>5 DEF IInv
<1>5. ASSUME NEW c \in CAMERAS, UnregisterCamera(c) PROVE IInv'
  <2>1. /\ registry' = Unregister(registry, c) /\ added' = added /\ marker' = marker
        /\ removed' = removed \ {c} /\ c \in removed
        /\ unlucky' = IF marker[c] = NoMarker THEN unlucky \ {c} ELSE unlucky
    BY <1>5 DEF UnregisterCamera, PreUpdateRest
  <2>2. Unregister(registry, c) \in Registries /\ Agrees(Unregister(registry, c))
    BY UnregisterOK DEF IInv
  <2>3. MarkedIsRegistered'
    <3>1. DOMAIN registry'.entity_to_handle = DOMAIN registry.entity_to_handle \ {c}
      BY <2>1, UnregisterOne DEF IInv
    <3> QED BY <2>1, <3>1 DEF IInv, MarkedIsRegistered
  <2>4. \A d \in removed' : marker'[d] # NoMarker => d \in added' \cup unlucky'
    BY <2>1 DEF IInv
  <2> QED BY <2>1, <2>2, <2>3, <2>4 DEF IInv
<1>6. CASE \E c \in CAMERAS : \E id \in 0 .. stack[c].next_id - 1 : RequestRemoval(c, id)
  BY <1>6, OthersOK DEF RequestRemoval, GameCall, ecsVars
<1>7. CASE \E c \in CAMERAS : \E n \in REQUESTED : SpawnCamera(c, n) \/ InsertMarker(c, n)
  BY <1>7, MarkerOK
<1>8. CASE \E c \in CAMERAS : RemoveMarker(c) \/ DespawnCamera(c)
  BY <1>8, UnmarkOK DEF RemoveMarker, DespawnCamera, GameCall
<1>9. CASE \E c \in CAMERAS : AddCinematic(c) \/ RemoveCinematic(c)
  BY <1>9, OthersOK DEF AddCinematic, RemoveCinematic, GameCall, ecsVars
<1>10. CASE UNCHANGED cameraVars
  BY <1>10, OthersOK DEF cameraVars, ecsVars
<1> QED BY <1>1, <1>2, <1>3, <1>4, <1>5, <1>6, <1>7, <1>8, <1>9, <1>10 DEF CameraNext

\* CameraRegistry: scripts reach at most one camera by a handle and each camera
\* has at most one, whatever handles the markers ask for and in whatever order
\* cameras are registered, refused and unregistered; a handle next_id gives out
\* is never in use; and after PreUpdate exactly the marked cameras have one, but
\* for those register refused or that were unmarked and marked within a frame.
THEOREM RegistryStaysSound == CameraSpec => []RegistrySound
<1>1. IInv => RegistrySound
  BY DEF IInv, Agrees, RegistrySound, HandlesInverse
<1> QED BY CameraInitOK, CameraNextOK, <1>1, PTL DEF CameraSpec

-----------------------------------------------------------------------------
(* The stacks of overrides *)

\* Max and Min of sets of positions.
LEMMA MaxOfPositions ==
  ASSUME NEW n \in Nat, NEW S \in SUBSET (1 .. n), S # {}
  PROVE  Max(S) \in S /\ \A k \in S : k <= Max(S)
<1>0. S \in SUBSET (0 .. n)
  OBVIOUS
<1>1. \E m \in S : \A k \in S : k <= m
  BY <1>0, GreatestNatural
<1>2. \E m \in S : \A k \in S : m >= k
  BY <1>1
<1> QED BY <1>2 DEF Max

\* A set of positions has a least one.
LEMMA MinOfPositions ==
  ASSUME NEW n \in Nat, NEW S \in SUBSET (1 .. n), S # {}
  PROVE  Min(S) \in S /\ \A k \in S : Min(S) <= k
<1>1. \E m \in S : \A k \in S : m <= k
  BY LeastNatural
<1> QED BY <1>1 DEF Min

\* Vec::insert: what lies behind the place moves up by one.
LEMMA InsertAtFacts ==
  ASSUME NEW T, NEW s \in Seq(T), NEW e \in T, NEW i \in 1 .. Len(s) + 1
  PROVE  /\ InsertAt(s, i, e) \in Seq(T)
         /\ Len(InsertAt(s, i, e)) = Len(s) + 1
         /\ DOMAIN InsertAt(s, i, e) = 1 .. Len(s) + 1
         /\ \A j \in 1 .. Len(s) + 1 :
              InsertAt(s, i, e)[j] = IF j < i THEN s[j] ELSE IF j = i THEN e ELSE s[j - 1]
<1> DEFINE a == SubSeq(s, 1, i - 1)
           b == SubSeq(s, i, Len(s))
<1>1. /\ a \in Seq(T) /\ Len(a) = i - 1 /\ \A j \in 1 .. i - 1 : a[j] = s[j]
      /\ b \in Seq(T) /\ Len(b) = Len(s) - i + 1 /\ \A j \in 1 .. Len(s) - i + 1 : b[j] = s[j + i - 1]
  OBVIOUS
<1>2. InsertAt(s, i, e) = a \o <<e>> \o b
  BY DEF InsertAt
<1> HIDE DEF a, b
<1> DEFINE c == a \o <<e>>
<1>3. c \in Seq(T) /\ Len(c) = i /\ c[i] = e /\ \A j \in 1 .. i - 1 : c[j] = s[j]
  <2>1. c \in Seq(T) /\ Len(c) = Len(a) + 1
    BY <1>1
  <2>2. \A j \in 1 .. Len(a) + 1 : c[j] = IF j <= Len(a) THEN a[j] ELSE <<e>>[j - Len(a)]
    BY <1>1
  <2> HIDE DEF c
  <2> QED BY <1>1, <2>1, <2>2
<1> HIDE DEF c
<1>4. InsertAt(s, i, e) = c \o b
  BY <1>2 DEF c
<1>5. Len(c \o b) = Len(s) + 1 /\ c \o b \in Seq(T)
  <2>1. c \o b \in Seq(T) /\ Len(c \o b) = Len(c) + Len(b)
    BY <1>1, <1>3
  <2> QED BY <1>1, <2>1, <1>3
<1>6. ASSUME NEW j \in 1 .. Len(s) + 1
      PROVE  (c \o b)[j] = IF j < i THEN s[j] ELSE IF j = i THEN e ELSE s[j - 1]
  <2>1. (c \o b)[j] = IF j <= Len(c) THEN c[j] ELSE b[j - Len(c)]
    BY <1>1, <1>3
  <2>2. CASE j < i
    BY <1>1, <1>3, <2>1, <2>2
  <2>3. CASE j = i
    BY <1>1, <1>3, <2>1, <2>3
  <2>4. CASE j > i
    <3>1. (c \o b)[j] = b[j - i] /\ j - i \in 1 .. Len(s) - i + 1 /\ j - i + i - 1 = j - 1
      BY <1>1, <1>3, <2>1, <2>4
    <3>2. b[j - i] = s[j - i + i - 1]
      BY <1>1, <3>1
    <3> QED BY <1>1, <2>4, <3>1, <3>2
  <2>5. j \in Int /\ i \in Int
    OBVIOUS
  <2>6. j < i \/ j = i \/ j > i
    BY <2>5
  <2> QED BY <2>2, <2>3, <2>4, <2>6, Zenon
<1> QED BY <1>4, <1>5, <1>6

\* Vec::remove: what lies behind the place moves down by one.
LEMMA RemoveAtFacts ==
  ASSUME NEW T, NEW s \in Seq(T), NEW i \in 1 .. Len(s)
  PROVE  /\ RemoveAt(s, i) \in Seq(T)
         /\ Len(RemoveAt(s, i)) = Len(s) - 1
         /\ DOMAIN RemoveAt(s, i) = 1 .. Len(s) - 1
         /\ \A j \in 1 .. Len(s) - 1 : RemoveAt(s, i)[j] = IF j < i THEN s[j] ELSE s[j + 1]
<1> DEFINE a == SubSeq(s, 1, i - 1)
           b == SubSeq(s, i + 1, Len(s))
<1>1. /\ a \in Seq(T) /\ Len(a) = i - 1 /\ \A j \in 1 .. i - 1 : a[j] = s[j]
      /\ b \in Seq(T) /\ Len(b) = Len(s) - i /\ \A j \in 1 .. Len(s) - i : b[j] = s[j + i]
  OBVIOUS
<1>2. RemoveAt(s, i) = a \o b
  BY DEF RemoveAt
<1> HIDE DEF a, b
<1>3. Len(a \o b) = Len(s) - 1 /\ a \o b \in Seq(T)
  <2>0. a \in Seq(T) /\ b \in Seq(T)
    BY <1>1
  <2>1. a \o b \in Seq(T) /\ Len(a \o b) = Len(a) + Len(b)
    BY <2>0
  <2> QED BY <1>1, <2>1
<1>4. ASSUME NEW j \in 1 .. Len(s) - 1
      PROVE  (a \o b)[j] = IF j < i THEN s[j] ELSE s[j + 1]
  <2>1. (a \o b)[j] = IF j <= Len(a) THEN a[j] ELSE b[j - Len(a)]
    BY <1>1
  <2> QED BY <1>1, <2>1
<1> QED BY <1>2, <1>3, <1>4

-----------------------------------------------------------------------------
OverrideType == [id : Nat, priority : Int, remaining : Int, by : {"request", "cinematic"}]

\* The entries lie in the order of their priorities, the newer of two equal ones
\* above the older, and no two share an id.
Ordered(e) ==
  \A i, j \in DOMAIN e : i < j =>
    /\ e[i].id # e[j].id
    /\ e[i].priority < e[j].priority \/ (e[i].priority = e[j].priority /\ e[i].id < e[j].id)

\* A stack as push keeps it: ordered, with ids below next_id.
SoundStack(s) ==
  /\ s \in [entries : Seq(OverrideType), next_id : Nat]
  /\ \A i \in DOMAIN s.entries : s.entries[i].id < s.next_id
  /\ Ordered(s.entries)

\* The entries of t are entries of s, in their order, but for the time they have.
ThinnedOut(t, s) ==
  \E at \in [DOMAIN t -> DOMAIN s] :
    /\ \A n \in DOMAIN t : t[n].id = s[at[n]].id /\ t[n].priority = s[at[n]].priority /\ t[n].by = s[at[n]].by
    /\ \A n, m \in DOMAIN t : n < m => at[n] < at[m]

\* A sound stack that loses entries, or time, is sound.
LEMMA ThinnedOutSound ==
  ASSUME NEW s, SoundStack(s), NEW t \in Seq(OverrideType), ThinnedOut(t, s.entries)
  PROVE  SoundStack([s EXCEPT !.entries = t])
<1>1. PICK at \in [DOMAIN t -> DOMAIN s.entries] :
        /\ \A n \in DOMAIN t : /\ t[n].id = s.entries[at[n]].id
                               /\ t[n].priority = s.entries[at[n]].priority /\ t[n].by = s.entries[at[n]].by
        /\ \A n, m \in DOMAIN t : n < m => at[n] < at[m]
  BY DEF ThinnedOut
<1>2. [s EXCEPT !.entries = t] = [entries |-> t, next_id |-> s.next_id] /\ s.next_id \in Nat
  BY DEF SoundStack
<1>3. Ordered(t)
  BY <1>1 DEF SoundStack, Ordered
<1>4. \A i \in DOMAIN t : t[i].id < s.next_id
  BY <1>1 DEF SoundStack
<1> QED BY <1>2, <1>3, <1>4 DEF SoundStack

\* insert_at: the place of an override of priority p.
LEMMA AboveFacts ==
  ASSUME NEW e \in Seq(OverrideType), Ordered(e), NEW p \in Int
  PROVE  /\ Above(e, p) \in 1 .. Len(e) + 1
         /\ \A j \in 1 .. Len(e) : j < Above(e, p) <=> e[j].priority <= p
<1> DEFINE I == {i \in 1 .. Len(e) : e[i].priority <= p}
<1>1. Above(e, p) = 1 + (IF I # {} THEN Max(I) ELSE 0)
  BY DEF Above, SelectLastInSeq
<1>2. Len(e) \in Nat /\ DOMAIN e = 1 .. Len(e) /\ \A j \in 1 .. Len(e) : e[j].priority \in Int
  <2>1. Len(e) \in Nat /\ DOMAIN e = 1 .. Len(e) /\ \A j \in 1 .. Len(e) : e[j] \in OverrideType
    OBVIOUS
  <2> QED BY <2>1 DEF OverrideType
<1>3. I \in SUBSET (1 .. Len(e))
  OBVIOUS
<1>4. CASE I = {}
  <2>1. \A j \in 1 .. Len(e) : ~ (e[j].priority <= p)
    BY <1>4
  <2>2. Above(e, p) = 1
    BY <1>1, <1>4
  <2> QED BY <1>2, <2>1, <2>2
<1>5. CASE I # {}
  <2>1. Max(I) \in I /\ \A k \in I : k <= Max(I)
    <3> HIDE DEF I
    <3> QED BY <1>2, <1>3, <1>5, MaxOfPositions
  <2> DEFINE m == Max(I)
  <2>2. m \in 1 .. Len(e) /\ e[m].priority <= p
    BY <2>1
  <2>3. \A k \in 1 .. Len(e) : e[k].priority <= p => k <= m
    BY <2>1
  <2>4. Above(e, p) = 1 + m
    BY <1>1, <1>5
  <2> HIDE DEF m, I
  <2>5. ASSUME NEW j \in 1 .. Len(e), j < m PROVE e[j].priority <= p
    <3>1. e[j].priority <= e[m].priority
      BY <1>2, <2>2, <2>5 DEF Ordered
    <3> QED BY <1>2, <2>2, <3>1
  <2> QED BY <1>2, <2>2, <2>3, <2>4, <2>5
<1> QED BY <1>4, <1>5

\* The entry that a push adds.
NewEntry(s, p, d, by) == [id |-> s.next_id, priority |-> p, remaining |-> d, by |-> by]

\* CameraOverrideStack::push
LEMMA WithOverrideSound ==
  ASSUME NEW s, SoundStack(s), NEW p \in Int, NEW d \in Int, NEW by \in {"request", "cinematic"}
  PROVE  /\ SoundStack(WithOverride(s, p, d, by))
         /\ WithOverride(s, p, d, by).next_id = s.next_id + 1
         /\ Range(WithOverride(s, p, d, by).entries)
              = Range(s.entries) \cup {NewEntry(s, p, d, by)}
<1> DEFINE e == s.entries
           i == Above(e, p)
           o == NewEntry(s, p, d, by)
           t == InsertAt(e, i, o)
<1>1. e \in Seq(OverrideType) /\ Ordered(e) /\ s.next_id \in Nat /\ \A k \in DOMAIN e : e[k].id < s.next_id
  BY DEF SoundStack
<1>2. WithOverride(s, p, d, by) = [entries |-> t, next_id |-> s.next_id + 1]
  BY DEF WithOverride, NewEntry
<1>3. o \in OverrideType /\ o.id = s.next_id /\ o.priority = p
  BY <1>1 DEF OverrideType, NewEntry
<1> HIDE DEF o, e
<1>4. i \in 1 .. Len(e) + 1 /\ \A j \in 1 .. Len(e) : j < i <=> e[j].priority <= p
  BY <1>1, AboveFacts
<1> HIDE DEF i
<1>5. /\ t \in Seq(OverrideType) /\ DOMAIN t = 1 .. Len(e) + 1
      /\ \A j \in 1 .. Len(e) + 1 : t[j] = IF j < i THEN e[j] ELSE IF j = i THEN o ELSE e[j - 1]
  <2>1. e \in Seq(OverrideType) /\ o \in OverrideType /\ i \in 1 .. Len(e) + 1
    BY <1>1, <1>3, <1>4
  <2>2. t \in Seq(OverrideType) /\ DOMAIN t = 1 .. Len(e) + 1
    BY <2>1, InsertAtFacts
  <2>3. ASSUME NEW j \in 1 .. Len(e) + 1
        PROVE  t[j] = IF j < i THEN e[j] ELSE IF j = i THEN o ELSE e[j - 1]
    BY <2>1, InsertAtFacts
  <2> QED BY <2>2, <2>3
<1> HIDE DEF t
<1>6. /\ Len(e) \in Nat /\ DOMAIN e = 1 .. Len(e)
      /\ \A k \in 1 .. Len(e) : e[k].id \in Nat /\ e[k].priority \in Int
  <2>1. Len(e) \in Nat /\ DOMAIN e = 1 .. Len(e) /\ \A k \in 1 .. Len(e) : e[k] \in OverrideType
    BY <1>1
  <2> QED BY <2>1 DEF OverrideType
<1>7. \A j \in DOMAIN t : t[j].id < s.next_id + 1
  <2> SUFFICES ASSUME NEW j \in DOMAIN t PROVE t[j].id < s.next_id + 1
    OBVIOUS
  <2>1. CASE j < i
    BY <1>1, <1>4, <1>5, <1>6, <2>1
  <2>2. CASE j = i
    BY <1>1, <1>3, <1>5, <2>2
  <2>3. CASE i < j
    <3>1. t[j] = e[j - 1] /\ j - 1 \in 1 .. Len(e)
      BY <1>4, <1>5, <1>6, <2>3
    <3> QED BY <1>1, <1>6, <3>1
  <2> QED BY <1>4, <1>5, <1>6, <2>1, <2>2, <2>3
<1>8. Ordered(t)
  <2> SUFFICES ASSUME NEW j \in DOMAIN t, NEW k \in DOMAIN t, j < k
               PROVE  /\ t[j].id # t[k].id
                      /\ t[j].priority < t[k].priority \/ (t[j].priority = t[k].priority /\ t[j].id < t[k].id)
    BY DEF Ordered
  <2>0. j \in 1 .. Len(e) + 1 /\ k \in 1 .. Len(e) + 1
    BY <1>5
  <2>1. CASE k < i
    <3>1. t[j] = e[j] /\ t[k] = e[k] /\ j \in 1 .. Len(e) /\ k \in 1 .. Len(e)
      BY <1>4, <1>5, <1>6, <2>0, <2>1
    <3> QED BY <1>1, <1>6, <3>1 DEF Ordered
  <2>2. CASE k = i
    <3>1. t[j] = e[j] /\ t[k] = o /\ j \in 1 .. Len(e) /\ j < i
      BY <1>4, <1>5, <1>6, <2>0, <2>2
    <3>2. e[j].priority <= p /\ e[j].id < s.next_id
      BY <1>1, <1>4, <1>6, <3>1
    <3> QED BY <1>1, <1>3, <1>6, <3>1, <3>2
  <2>3. CASE j = i
    <3>1. t[k] = e[k - 1] /\ t[j] = o /\ k - 1 \in 1 .. Len(e) /\ ~ (k - 1 < i)
      BY <1>4, <1>5, <1>6, <2>0, <2>3
    <3>2. ~ (e[k - 1].priority <= p) /\ e[k - 1].id < s.next_id
      BY <1>1, <1>4, <1>6, <3>1
    <3> QED BY <1>1, <1>3, <1>6, <3>1, <3>2
  <2>4. CASE j < i /\ i < k
    <3>1. t[k] = e[k - 1] /\ t[j] = e[j] /\ k - 1 \in 1 .. Len(e) /\ j \in 1 .. Len(e) /\ j < k - 1
      BY <1>4, <1>5, <1>6, <2>0, <2>4
    <3> QED BY <1>1, <1>6, <3>1 DEF Ordered
  <2>5. CASE i < j
    <3>1. t[k] = e[k - 1] /\ t[j] = e[j - 1] /\ k - 1 \in 1 .. Len(e) /\ j - 1 \in 1 .. Len(e) /\ j - 1 < k - 1
      BY <1>4, <1>5, <1>6, <2>0, <2>5
    <3> QED BY <1>1, <1>6, <3>1 DEF Ordered
  <2> QED BY <1>4, <2>0, <2>1, <2>2, <2>3, <2>4, <2>5
<1>9. Range(t) = Range(e) \cup {o}
  <2>1. \A j \in DOMAIN t : t[j] \in Range(e) \cup {o}
    <3> SUFFICES ASSUME NEW j \in DOMAIN t PROVE t[j] \in Range(e) \cup {o}
      OBVIOUS
    <3>1. CASE j < i
      BY <1>4, <1>5, <1>6, <3>1 DEF Range
    <3>2. CASE j = i
      BY <1>5, <3>2
    <3>3. CASE i < j
      <4>1. t[j] = e[j - 1] /\ j - 1 \in DOMAIN e
        BY <1>4, <1>5, <1>6, <3>3
      <4> QED BY <4>1 DEF Range
    <3> QED BY <1>4, <1>5, <1>6, <3>1, <3>2, <3>3
  <2>2. o \in Range(t)
    <3>1. i \in DOMAIN t /\ t[i] = o
      BY <1>4, <1>5
    <3> QED BY <3>1 DEF Range
  <2>3. ASSUME NEW k \in DOMAIN e PROVE e[k] \in Range(t)
    <3>1. CASE k < i
      <4>1. k \in DOMAIN t /\ t[k] = e[k]
        BY <1>4, <1>5, <1>6, <3>1
      <4> QED BY <4>1 DEF Range
    <3>2. CASE ~ (k < i)
      <4>1. k + 1 \in DOMAIN t /\ t[k + 1] = e[k]
        BY <1>4, <1>5, <1>6, <3>2
      <4> QED BY <4>1 DEF Range
    <3> QED BY <3>1, <3>2
  <2> QED BY <2>1, <2>2, <2>3 DEF Range
<1>10. SoundStack([entries |-> t, next_id |-> s.next_id + 1])
  BY <1>1, <1>5, <1>7, <1>8 DEF SoundStack
<1> QED BY <1>2, <1>9, <1>10 DEF e, o

-----------------------------------------------------------------------------

\* What a sound stack is, field by field.
LEMMA StackFacts ==
  ASSUME NEW s, SoundStack(s)
  PROVE  /\ s.entries \in Seq(OverrideType) /\ Ordered(s.entries) /\ s.next_id \in Nat
         /\ Len(s.entries) \in Nat /\ DOMAIN s.entries = 1 .. Len(s.entries)
         /\ \A k \in DOMAIN s.entries : s.entries[k] \in OverrideType /\ s.entries[k].id < s.next_id
         /\ \A k \in DOMAIN s.entries : s.entries[k].id \in Nat /\ s.entries[k].priority \in Int
         /\ \A t : [s EXCEPT !.entries = t].entries = t /\ [s EXCEPT !.entries = t].next_id = s.next_id
<1>1. s.entries \in Seq(OverrideType) /\ Ordered(s.entries) /\ s.next_id \in Nat
  BY DEF SoundStack
<1>2. Len(s.entries) \in Nat /\ DOMAIN s.entries = 1 .. Len(s.entries)
  BY <1>1
<1>3. \A k \in DOMAIN s.entries : s.entries[k] \in OverrideType /\ s.entries[k].id < s.next_id
  BY <1>1 DEF SoundStack
<1>4. \A k \in DOMAIN s.entries : s.entries[k].id \in Nat /\ s.entries[k].priority \in Int
  BY <1>3 DEF OverrideType
<1>5. \A t : [s EXCEPT !.entries = t].entries = t /\ [s EXCEPT !.entries = t].next_id = s.next_id
  BY DEF SoundStack
<1> QED BY <1>1, <1>2, <1>3, <1>4, <1>5

\* A stack without the entry at one position.
LEMMA RemoveAtSound ==
  ASSUME NEW s, SoundStack(s), NEW i \in DOMAIN s.entries
  PROVE  /\ SoundStack([s EXCEPT !.entries = RemoveAt(s.entries, i)])
         /\ Range(RemoveAt(s.entries, i)) = {o \in Range(s.entries) : o.id # s.entries[i].id}
         /\ Range(RemoveAt(s.entries, i)) = Range(s.entries) \ {s.entries[i]}
<1> DEFINE e == s.entries
           t == RemoveAt(e, i)
           at == [n \in DOMAIN t |-> IF n < i THEN n ELSE n + 1]
<1>1. /\ e \in Seq(OverrideType) /\ Ordered(e)
      /\ Len(e) \in Nat /\ DOMAIN e = 1 .. Len(e) /\ i \in 1 .. Len(e)
  BY StackFacts
<1> HIDE DEF e
<1>2. /\ t \in Seq(OverrideType) /\ DOMAIN t = 1 .. Len(e) - 1
      /\ \A j \in 1 .. Len(e) - 1 : t[j] = IF j < i THEN e[j] ELSE e[j + 1]
  BY <1>1, RemoveAtFacts
<1> HIDE DEF t
<1>3. at \in [DOMAIN t -> DOMAIN e]
  BY <1>1, <1>2
<1>4. \A n \in DOMAIN t : t[n] = e[at[n]] /\ at[n] # i
  BY <1>1, <1>2
<1>5. \A n, m \in DOMAIN t : n < m => at[n] < at[m]
  BY <1>1, <1>2
<1>6. \A k \in DOMAIN e : k # i => \E n \in DOMAIN t : t[n] = e[k]
  <2> SUFFICES ASSUME NEW k \in DOMAIN e, k # i PROVE \E n \in DOMAIN t : t[n] = e[k]
    OBVIOUS
  <2>1. CASE k < i
    <3>1. k \in DOMAIN t /\ t[k] = e[k]
      BY <1>1, <1>2, <2>1
    <3> QED BY <3>1
  <2>2. CASE i < k
    <3>1. k - 1 \in DOMAIN t /\ t[k - 1] = e[k]
      BY <1>1, <1>2, <2>2
    <3> QED BY <3>1
  <2> QED BY <1>1, <2>1, <2>2
<1> HIDE DEF at
<1>7. SoundStack([s EXCEPT !.entries = t])
  <2>1. ThinnedOut(t, e)
    BY <1>3, <1>4, <1>5 DEF ThinnedOut
  <2> QED BY <1>2, <2>1, ThinnedOutSound DEF e
<1>8. \A k \in DOMAIN e : k # i => e[k].id # e[i].id
  <2> SUFFICES ASSUME NEW k \in DOMAIN e, k # i PROVE e[k].id # e[i].id
    OBVIOUS
  <2>1. k < i \/ i < k
    BY <1>1
  <2> QED BY <1>1, <2>1 DEF Ordered
<1>9. Range(t) = {e[k] : k \in DOMAIN e \ {i}}
  BY <1>3, <1>4, <1>6 DEF Range
<1>10. Range(t) = {o \in Range(e) : o.id # e[i].id} /\ Range(t) = Range(e) \ {e[i]}
  BY <1>8, <1>9 DEF Range
<1> QED BY <1>7, <1>10 DEF e, t

\* CameraOverrideStack::remove_by_id
LEMMA RemovedByIdSound ==
  ASSUME NEW s, SoundStack(s), NEW id
  PROVE  /\ SoundStack(RemovedById(s, id))
         /\ RemovedById(s, id).next_id = s.next_id
         /\ Range(RemovedById(s, id).entries) = {o \in Range(s.entries) : o.id # id}
         /\ (\A o \in Range(s.entries) : o.id # id) => RemovedById(s, id) = s
<1> DEFINE e == s.entries
           I == {i \in 1 .. Len(e) : e[i].id = id}
<1>0. /\ Len(e) \in Nat /\ DOMAIN e = 1 .. Len(e)
      /\ \A t : [s EXCEPT !.entries = t].entries = t /\ [s EXCEPT !.entries = t].next_id = s.next_id
  BY StackFacts
<1>1. CASE I = {}
  <2>1. RemovedById(s, id) = [s EXCEPT !.entries = e]
    BY <1>1 DEF RemovedById, RemoveFirstMatch
  <2>2. [s EXCEPT !.entries = e] = s
    BY DEF SoundStack
  <2>3. Range(e) = {o \in Range(e) : o.id # id}
    BY <1>0, <1>1 DEF Range
  <2> QED BY <2>1, <2>2, <2>3
<1>2. CASE I # {}
  <2>1. RemovedById(s, id) = [s EXCEPT !.entries = RemoveAt(e, Min(I))]
    BY <1>2 DEF RemovedById, RemoveFirstMatch, SelectInSeq
  <2>2. Min(I) \in I
    <3>1. I \in SUBSET (1 .. Len(e))
      OBVIOUS
    <3> HIDE DEF I
    <3> QED BY <1>0, <1>2, <3>1, MinOfPositions
  <2>3. Min(I) \in DOMAIN e /\ e[Min(I)].id = id
    BY <1>0, <2>2
  <2> HIDE DEF I
  <2>4. /\ SoundStack([s EXCEPT !.entries = RemoveAt(e, Min(I))])
        /\ Range(RemoveAt(e, Min(I))) = {o \in Range(e) : o.id # id}
    BY <2>3, RemoveAtSound
  <2>5. ~ \A o \in Range(e) : o.id # id
    BY <2>3 DEF Range
  <2> QED BY <1>0, <2>1, <2>4, <2>5
<1> QED BY <1>1, <1>2

\* Front is the stack without its last position.
LEMMA FrontIsRemoveAt ==
  ASSUME NEW T, NEW e \in Seq(T), e # <<>>
  PROVE  Front(e) = RemoveAt(e, Len(e))
<1> DEFINE f == SubSeq(e, 1, Len(e) - 1)
           r == RemoveAt(e, Len(e))
<1>0. Len(e) \in Nat /\ Len(e) > 0
  OBVIOUS
<1>1. f \in Seq(T) /\ Len(f) = Len(e) - 1 /\ \A j \in 1 .. Len(e) - 1 : f[j] = e[j]
  <2>1. 1 \in 1 .. Len(e) + 1 /\ Len(e) - 1 \in 0 .. Len(e)
    BY <1>0
  <2>2. f \in Seq(T) /\ Len(f) = Len(e) - 1
    <3>1. f = [j \in 1 .. Len(e) - 1 |-> e[1 + j - 1]]
      BY <1>0
    <3>2. \A j \in 1 .. Len(e) - 1 : e[1 + j - 1] \in T
      BY <1>0
    <3>3. Len(e) - 1 \in Nat
      BY <1>0
    <3> HIDE DEF f
    <3> QED BY <3>1, <3>2, <3>3
  <2>3. \A j \in 1 .. Len(e) - 1 : f[j] = e[1 + j - 1]
    BY <1>0, <2>1
  <2> HIDE DEF f
  <2> QED BY <1>0, <2>2, <2>3
<1>2. r \in Seq(T) /\ Len(r) = Len(e) - 1 /\ \A j \in 1 .. Len(e) - 1 : r[j] = e[j]
  <2>1. /\ r \in Seq(T) /\ Len(r) = Len(e) - 1
        /\ \A j \in 1 .. Len(e) - 1 : r[j] = IF j < Len(e) THEN e[j] ELSE e[j + 1]
    BY <1>0, RemoveAtFacts
  <2> HIDE DEF r
  <2> QED BY <1>0, <2>1
<1> HIDE DEF f, r
<1>3. f = r
  <2>1. DOMAIN f = 1 .. Len(e) - 1 /\ DOMAIN r = 1 .. Len(e) - 1
    BY <1>1, <1>2
  <2>2. \A j \in 1 .. Len(e) - 1 : f[j] = r[j]
    BY <1>1, <1>2
  <2>3. f = [j \in 1 .. Len(e) - 1 |-> f[j]] /\ r = [j \in 1 .. Len(e) - 1 |-> r[j]]
    BY <1>1, <1>2, <2>1
  <2> QED BY <2>2, <2>3
<1> QED BY <1>3 DEF f, r, Front

\* CameraOverrideStack::pop_top
LEMMA PoppedSound ==
  ASSUME NEW s, SoundStack(s)
  PROVE  /\ SoundStack(Popped(s))
         /\ Popped(s).next_id = s.next_id
         /\ s.entries = <<>> => Popped(s) = s
         /\ s.entries # <<>> => Range(Popped(s).entries) = Range(s.entries) \ {Last(s.entries)}
<1>1. CASE s.entries = <<>>
  <2>1. Popped(s) = [s EXCEPT !.entries = <<>>]
    BY <1>1 DEF Popped
  <2>2. [s EXCEPT !.entries = <<>>] = s
    BY <1>1 DEF SoundStack
  <2> QED BY <1>1, <2>1, <2>2
<1>2. CASE s.entries # <<>>
  <2>1. s.entries \in Seq(OverrideType) /\ Len(s.entries) \in DOMAIN s.entries
    BY <1>2, StackFacts
  <2>2. Front(s.entries) = RemoveAt(s.entries, Len(s.entries))
    BY <1>2, <2>1, FrontIsRemoveAt
  <2>3. Popped(s) = [s EXCEPT !.entries = RemoveAt(s.entries, Len(s.entries))]
    BY <1>2, <2>2 DEF Popped
  <2>4. /\ SoundStack([s EXCEPT !.entries = RemoveAt(s.entries, Len(s.entries))])
        /\ Range(RemoveAt(s.entries, Len(s.entries))) = Range(s.entries) \ {s.entries[Len(s.entries)]}
    BY <2>1, RemoveAtSound
  <2>5. /\ Popped(s).entries = RemoveAt(s.entries, Len(s.entries))
        /\ Popped(s).next_id = s.next_id
    BY <2>3, StackFacts
  <2> QED BY <1>2, <2>3, <2>4, <2>5 DEF Last
<1> QED BY <1>1, <1>2

\* CameraOverrideStack::clear
LEMMA ClearedSound ==
  ASSUME NEW s, SoundStack(s)
  PROVE  /\ SoundStack(Cleared(s))
         /\ Cleared(s).next_id = s.next_id
         /\ Cleared(s).entries = <<>> /\ Range(Cleared(s).entries) = {}
<1>1. Cleared(s).entries = <<>> /\ Cleared(s).next_id = s.next_id
  BY StackFacts DEF Cleared
<1>2. ThinnedOut(<<>>, s.entries)
  <2>1. [n \in {} |-> 0] \in [DOMAIN <<>> -> DOMAIN s.entries]
    OBVIOUS
  <2> QED BY <2>1 DEF ThinnedOut
<1>3. <<>> \in Seq(OverrideType)
  OBVIOUS
<1>4. SoundStack(Cleared(s))
  BY <1>2, <1>3, ThinnedOutSound DEF Cleared
<1> QED BY <1>1, <1>4 DEF Range

\* override_stack_tick_system
LEMMA TickedSound ==
  ASSUME NEW s, SoundStack(s)
  PROVE  /\ SoundStack(Ticked(s))
         /\ Ticked(s).next_id = s.next_id
         /\ Range(Ticked(s).entries) =
              {o \in Range(s.entries) : o.remaining = Forever}
                \cup {[o EXCEPT !.remaining = @ - 1] : o \in {q \in Range(s.entries) : q.remaining > 1}}
<1> DEFINE e == s.entries
           K == {i \in DOMAIN e : e[i].remaining = Forever \/ e[i].remaining > 1}
           kept == Selected(e, K)
           Aged(o) == IF o.remaining = Forever THEN o ELSE [o EXCEPT !.remaining = @ - 1]
           t == [i \in DOMAIN kept |-> Aged(kept[i])]
<1>1. Ticked(s) = [s EXCEPT !.entries = t]
  BY DEF Ticked
<1>2. /\ Ticked(s).entries = t /\ Ticked(s).next_id = s.next_id
      /\ e \in Seq(OverrideType) /\ \A k \in DOMAIN e : e[k] \in OverrideType
  BY <1>1, StackFacts
<1>3. K \in SUBSET DOMAIN e
  OBVIOUS
<1> HIDE DEF e
<1>4. kept \in Seq(OverrideType) /\ \E at : ReadsOff(kept, e, K, at)
  <2> HIDE DEF K
  <2> QED BY <1>2, <1>3, SelectedFacts
<1>5. PICK at : ReadsOff(kept, e, K, at)
  BY <1>4
<1>6. \A k \in K : e[k] \in OverrideType /\ (e[k].remaining = Forever \/ e[k].remaining > 1)
  BY <1>2
<1> HIDE DEF kept, K
<1>7. /\ DOMAIN t = DOMAIN kept /\ DOMAIN kept = 1 .. Len(kept) /\ Len(kept) \in Nat
      /\ \A n \in DOMAIN kept : t[n] = Aged(e[at[n]]) /\ at[n] \in K
      /\ \A k \in K : \E n \in DOMAIN kept : at[n] = k
      /\ \A n, m \in DOMAIN kept : n < m => at[n] < at[m]
      /\ at \in [DOMAIN kept -> DOMAIN e]
  <2>1. DOMAIN t = DOMAIN kept /\ \A n \in DOMAIN kept : t[n] = Aged(kept[n])
    <3> HIDE DEF Aged
    <3> QED OBVIOUS
  <2>2. DOMAIN kept = 1 .. Len(kept) /\ Len(kept) \in Nat
    BY <1>4
  <2>3. /\ \A n \in DOMAIN kept : kept[n] = e[at[n]] /\ at[n] \in K
        /\ \A k \in K : \E n \in DOMAIN kept : at[n] = k
        /\ \A n, m \in DOMAIN kept : n < m => at[n] < at[m]
        /\ at \in [DOMAIN kept -> DOMAIN e]
    BY <1>3, <1>5 DEF ReadsOff
  <2> HIDE DEF Aged, t
  <2> QED BY <2>1, <2>2, <2>3
<1>8. \A o \in OverrideType : /\ Aged(o) \in OverrideType
                              /\ Aged(o).id = o.id /\ Aged(o).priority = o.priority /\ Aged(o).by = o.by
  <2> SUFFICES ASSUME NEW o \in OverrideType
               PROVE  /\ Aged(o) \in OverrideType
                      /\ Aged(o).id = o.id /\ Aged(o).priority = o.priority /\ Aged(o).by = o.by
    OBVIOUS
  <2>1. o.remaining - 1 \in Int
    BY DEF OverrideType
  <2> QED BY <2>1 DEF OverrideType
<1> HIDE DEF Aged
<1>9. t \in Seq(OverrideType)
  <2>1. \A n \in 1 .. Len(kept) : Aged(kept[n]) \in OverrideType
    BY <1>4, <1>8
  <2> QED BY <1>7, <2>1
<1> HIDE DEF t
<1>10. SoundStack(Ticked(s))
  <2>1. ThinnedOut(t, e)
    BY <1>6, <1>7, <1>8 DEF ThinnedOut
  <2> QED BY <1>1, <1>9, <2>1, ThinnedOutSound DEF e
<1>11. Range(t) = {Aged(e[k]) : k \in K}
  BY <1>7 DEF Range
<1>12. {Aged(e[k]) : k \in K} =
         {o \in Range(e) : o.remaining = Forever}
           \cup {[o EXCEPT !.remaining = @ - 1] : o \in {q \in Range(e) : q.remaining > 1}}
  <2>1. \A o : /\ o.remaining = Forever => Aged(o) = o
               /\ o.remaining > 1 => Aged(o) = [o EXCEPT !.remaining = @ - 1]
    <3>1. ~ (Forever > 1)
      BY DEF Forever
    <3> QED BY <3>1 DEF Aged
  <2>2. \A k \in DOMAIN e : k \in K <=> e[k].remaining = Forever \/ e[k].remaining > 1
    BY DEF K
  <2> QED BY <1>3, <2>1, <2>2 DEF Range
<1> QED BY <1>2, <1>10, <1>11, <1>12 DEF e

-----------------------------------------------------------------------------
\* What PriorityOverrides sees of an entry and of a stack.
Seen(o) == [id |-> o.id, priority |-> o.priority, left |-> o.remaining]
Held(s) == {Seen(o) : o \in Range(s.entries)}

\* To the abstraction a push adds one override, the newest.
LEMMA HeldWithOverride ==
  ASSUME NEW s, SoundStack(s), NEW p \in Int, NEW d \in Int, NEW by \in {"request", "cinematic"}
  PROVE  Held(WithOverride(s, p, d, by)) = Held(s) \cup {[id |-> s.next_id, priority |-> p, left |-> d]}
<1> DEFINE o == NewEntry(s, p, d, by)
<1>1. Range(WithOverride(s, p, d, by).entries) = Range(s.entries) \cup {o}
  BY WithOverrideSound
<1>2. Seen(o) = [id |-> s.next_id, priority |-> p, left |-> d]
  BY DEF Seen, NewEntry
<1> HIDE DEF o
<1> QED BY <1>1, <1>2 DEF Held

\* To the abstraction remove_by_id removes the one with that id.
LEMMA HeldRemovedById ==
  ASSUME NEW s, SoundStack(s), NEW id
  PROVE  Held(RemovedById(s, id)) = {o \in Held(s) : o.id # id}
<1>1. Range(RemovedById(s, id).entries) = {o \in Range(s.entries) : o.id # id}
  BY RemovedByIdSound
<1>2. \A o : Seen(o).id = o.id
  BY DEF Seen
<1> QED BY <1>1, <1>2 DEF Held

\* To the abstraction clear removes all.
LEMMA HeldCleared ==
  ASSUME NEW s, SoundStack(s)
  PROVE  Held(Cleared(s)) = {}
BY ClearedSound DEF Held

\* To the abstraction a tick takes a frame from each and drops those that had one left.
LEMMA HeldTicked ==
  ASSUME NEW s, SoundStack(s)
  PROVE  Held(Ticked(s)) = {o \in Held(s) : o.left = Forever}
                             \cup {[o EXCEPT !.left = @ - 1] : o \in {q \in Held(s) : q.left > 1}}
<1> DEFINE R == Range(s.entries)
           Later(o) == [o EXCEPT !.remaining = @ - 1]
           Sooner(o) == [o EXCEPT !.left = @ - 1]
<1>1. Range(Ticked(s).entries) = {o \in R : o.remaining = Forever} \cup {Later(o) : o \in {q \in R : q.remaining > 1}}
  BY TickedSound
<1>2. \A o : Seen(o).left = o.remaining
  BY DEF Seen
<1>3. \A o \in R : Seen(Later(o)) = Sooner(Seen(o))
  <2>1. \A o \in R : o \in OverrideType
    BY StackFacts DEF Range
  <2> SUFFICES ASSUME NEW o \in OverrideType PROVE Seen(Later(o)) = Sooner(Seen(o))
    BY <2>1
  <2> QED BY DEF Seen, OverrideType
<1> HIDE DEF R, Later, Sooner
<1>4. Held(Ticked(s)) = {Seen(o) : o \in {q \in R : q.remaining = Forever}}
                          \cup {Seen(Later(o)) : o \in {q \in R : q.remaining > 1}}
  BY <1>1 DEF Held
<1>5. {Seen(o) : o \in {q \in R : q.remaining = Forever}} = {o \in Held(s) : o.left = Forever}
  BY <1>2 DEF Held, R
<1>6. {Seen(Later(o)) : o \in {q \in R : q.remaining > 1}} = {Sooner(o) : o \in {q \in Held(s) : q.left > 1}}
  BY <1>2, <1>3 DEF Held, R
<1> QED BY <1>4, <1>5, <1>6 DEF Sooner

\* The top of the stack is the best of what it holds.
LEMMA TopIsBest ==
  ASSUME NEW s, SoundStack(s), s.entries # <<>>
  PROVE  /\ Held(s) # {}
         /\ Overrides!Best(Held(s)) = Seen(Last(s.entries))
         /\ Held(Popped(s)) = Held(s) \ {Seen(Last(s.entries))}
         /\ Last(s.entries) \in Range(s.entries)
<1> DEFINE e == s.entries
           top == Last(e)
<1>1. /\ Len(e) \in Nat /\ DOMAIN e = 1 .. Len(e) /\ Ordered(e) /\ Len(e) \in DOMAIN e
      /\ \A k \in DOMAIN e : e[k].id \in Nat /\ e[k].priority \in Int
  <2>1. e \in Seq(OverrideType) /\ Len(e) \in Nat /\ DOMAIN e = 1 .. Len(e) /\ Ordered(e)
    BY StackFacts
  <2>2. Len(e) > 0
    BY <2>1
  <2> QED BY <2>1, <2>2, StackFacts
<1>2. top = e[Len(e)] /\ top \in Range(e)
  BY <1>1 DEF Last, Range
<1> HIDE DEF top
<1>3. \A o \in Range(e) : o = top \/ (o.id # top.id /\ Overrides!Better(Seen(top), Seen(o)))
  <2> SUFFICES ASSUME NEW k \in DOMAIN e, k # Len(e)
               PROVE  e[k].id # top.id /\ Overrides!Better(Seen(top), Seen(e[k]))
    BY <1>2 DEF Range
  <2>1. k < Len(e)
    BY <1>1
  <2>2. /\ e[k].id # top.id
        /\ e[k].priority < top.priority \/ (e[k].priority = top.priority /\ e[k].id < top.id)
    BY <1>1, <1>2, <2>1 DEF Ordered
  <2>3. Seen(top).id = top.id /\ Seen(top).priority = top.priority /\ Seen(e[k]).id = e[k].id /\ Seen(e[k]).priority = e[k].priority
    BY DEF Seen
  <2>4. e[k].id \in Int /\ top.id \in Int /\ e[k].priority \in Int /\ top.priority \in Int
    BY <1>1, <1>2
  <2> QED BY <2>2, <2>3, <2>4 DEF Overrides!Better
<1>4. Seen(top) \in Held(s)
  BY <1>2 DEF Held
<1>5. \A q \in Held(s) \ {Seen(top)} : Overrides!Better(Seen(top), q)
  BY <1>3 DEF Held
<1>6. ASSUME NEW b \in Held(s), \A q \in Held(s) \ {b} : Overrides!Better(b, q)
      PROVE  b = Seen(top)
  <2>1. SUFFICES ASSUME b # Seen(top) PROVE FALSE
    OBVIOUS
  <2>2. Overrides!Better(b, Seen(top)) /\ Overrides!Better(Seen(top), b)
    BY <1>4, <1>5, <1>6, <2>1
  <2>3. PICK k \in DOMAIN e : b = Seen(e[k])
    BY DEF Held, Range
  <2>4. b.id \in Int /\ b.priority \in Int /\ Seen(top).id \in Int /\ Seen(top).priority \in Int
    BY <1>1, <1>2, <2>3 DEF Seen
  <2> QED BY <2>2, <2>4 DEF Overrides!Better
<1>7. Overrides!Best(Held(s)) = Seen(top)
  BY <1>4, <1>5, <1>6 DEF Overrides!Best
<1>8. Held(Popped(s)) = Held(s) \ {Seen(top)}
  <2>1. Range(Popped(s).entries) = Range(e) \ {top}
    BY PoppedSound DEF top
  <2>2. \A o \in Range(e) : o # top => Seen(o) # Seen(top)
    <3>1. \A o : Seen(o).id = o.id
      BY DEF Seen
    <3> QED BY <1>3, <3>1
  <2> QED BY <2>1, <2>2 DEF Held
<1> QED BY <1>2, <1>4, <1>7, <1>8 DEF top

-----------------------------------------------------------------------------
(* Views and cinematics *)

RemoveOps == [kind : {"remove"}, id : Nat]

Ops == ScriptOps \cup RemoveOps

\* An entry belongs to the cinematic exactly when it has the shadow's id.
Owned(s, id) == \A o \in Range(s.entries) : (o.by = "cinematic") <=> (o.id = id)

\* The invariant of the views: stacks are sound, the shadow's id was given out,
\* and only operations scripts and game code can ask for are under way.
ViewInv ==
  /\ DOMAIN stack = CAMERAS /\ \A c \in CAMERAS : SoundStack(stack[c])
  /\ cinematic \in [CAMERAS -> Int]
  /\ \A c \in CAMERAS : cinematic[c] < stack[c].next_id
  /\ \A c \in CAMERAS : Owned(stack[c], cinematic[c])
  /\ camera_op_queue \in Seq([handle : Nat, op : ScriptOps])
  /\ camera_requests \in Seq([camera : CAMERAS \cup {EveryCamera}, op : Ops])

\* The game starts with empty stacks.
LEMMA ViewInitOK == CameraInit => ViewInv
<1> SUFFICES ASSUME CameraInit PROVE ViewInv
  OBVIOUS
<1>1. /\ stack = [c \in CAMERAS |-> [entries |-> <<>>, next_id |-> 0]]
      /\ cinematic = [c \in CAMERAS |-> Nobody]
      /\ camera_op_queue = <<>> /\ camera_requests = <<>>
  BY DEF CameraInit
<1>2. SoundStack([entries |-> <<>>, next_id |-> 0])
  BY DEF SoundStack, Ordered
<1>3. Owned([entries |-> <<>>, next_id |-> 0], Nobody)
  BY DEF Owned, Range
<1> QED BY <1>1, <1>2, <1>3 DEF ViewInv, Nobody

\* What an operation may do to a stack.
LEMMA OnStackOK ==
  ASSUME NEW s, SoundStack(s), NEW id \in Int, id < s.next_id, Owned(s, id), NEW op \in Ops
  PROVE  /\ SoundStack(OnStack(s, op)) /\ id < OnStack(s, op).next_id
         /\ Owned(OnStack(s, op), id)
<1>0. s.next_id \in Nat
  BY StackFacts
<1>1. CASE op.kind = "push"
  <2>1. op.priority \in Int /\ op.duration \in Int
    <3>1. op.priority \in PRIORITIES /\ op.duration \in DURATIONS \cup {Forever}
      BY <1>1 DEF Ops, ScriptOps, RemoveOps
    <3>2. PRIORITIES \subseteq Int /\ DURATIONS \cup {Forever} \subseteq Int
      BY CameraConstants DEF Forever
    <3> QED BY <3>1, <3>2
  <2> DEFINE t == WithOverride(s, op.priority, op.duration, "request")
             o == NewEntry(s, op.priority, op.duration, "request")
  <2>2. SoundStack(t) /\ t.next_id = s.next_id + 1 /\ Range(t.entries) = Range(s.entries) \cup {o}
    <3>1. "request" \in {"request", "cinematic"}
      OBVIOUS
    <3> QED BY <2>1, <3>1, WithOverrideSound
  <2>3. OnStack(s, op) = t
    BY <1>1 DEF OnStack
  <2>4. o.id = s.next_id /\ o.by = "request"
    BY DEF NewEntry
  <2> HIDE DEF t, o
  <2>5. Owned(t, id)
    BY <1>0, <2>2, <2>4 DEF Owned
  <2> QED BY <1>0, <2>2, <2>3, <2>5
<1>2. CASE op.kind = "remove"
  <2>1. OnStack(s, op) = RemovedById(s, op.id)
    BY <1>2 DEF OnStack
  <2> QED BY <2>1, RemovedByIdSound DEF Owned
<1>3. CASE op.kind = "pop"
  <2>1. OnStack(s, op) = Popped(s)
    BY <1>3 DEF OnStack
  <2> QED BY <2>1, PoppedSound DEF Owned
<1>4. CASE op.kind = "clear"
  <2>1. OnStack(s, op) = Cleared(s)
    BY <1>4 DEF OnStack
  <2> QED BY <2>1, ClearedSound DEF Owned
<1>5. CASE op.kind \notin {"push", "remove", "pop", "clear"}
  BY <1>5 DEF OnStack
<1> QED BY <1>1, <1>2, <1>3, <1>4, <1>5

\* Expiry takes no override of a cinematic for one of a script.
LEMMA TickOwned ==
  ASSUME NEW s, SoundStack(s), NEW id, Owned(s, id)
  PROVE  Owned(Ticked(s), id)
<1> DEFINE R == Range(s.entries)
           Later(o) == [o EXCEPT !.remaining = @ - 1]
<1>1. Range(Ticked(s).entries) =
        {o \in R : o.remaining = Forever} \cup {Later(o) : o \in {q \in R : q.remaining > 1}}
  BY TickedSound
<1>2. \A o \in R : Later(o).id = o.id /\ Later(o).by = o.by
  <2>1. \A o \in R : o \in OverrideType
    BY StackFacts DEF Range
  <2> QED BY <2>1 DEF OverrideType
<1> HIDE DEF Later
<1>3. \A q \in Range(Ticked(s).entries) : \E o \in R : q.id = o.id /\ q.by = o.by
  BY <1>1, <1>2
<1> QED BY <1>3 DEF Owned

\* The steps that leave the views alone.
LEMMA ViewOthersOK ==
  ASSUME ViewInv, UNCHANGED <<stack, cinematic, camera_op_queue, camera_requests>>
  PROVE  ViewInv'
<1>1. UNCHANGED stack /\ UNCHANGED cinematic /\ UNCHANGED camera_op_queue /\ UNCHANGED camera_requests
  OBVIOUS
<1> QED BY <1>1 DEF ViewInv

\* A step that changes the stack of one camera, and perhaps its shadow.
LEMMA OneStackOK ==
  ASSUME ViewInv, NEW c \in CAMERAS, NEW s, NEW id \in Int, SoundStack(s), id < s.next_id, Owned(s, id),
         stack' = [stack EXCEPT ![c] = s], cinematic' = [cinematic EXCEPT ![c] = id],
         UNCHANGED <<camera_op_queue, camera_requests>>
  PROVE  ViewInv'
<1>1. /\ DOMAIN stack' = CAMERAS
      /\ \A d \in CAMERAS : stack'[d] = IF d = c THEN s ELSE stack[d]
      /\ \A d \in CAMERAS : cinematic'[d] = IF d = c THEN id ELSE cinematic[d]
      /\ cinematic' \in [CAMERAS -> Int]
      /\ camera_op_queue' = camera_op_queue /\ camera_requests' = camera_requests
  BY DEF ViewInv
<1> QED BY <1>1 DEF ViewInv

\* flush_camera_ops only hands over the operations it can resolve.
LEMMA FlushOK ==
  ASSUME IInv, ViewInv, FlushCameraOps
  PROVE  ViewInv'
<1> DEFINE QueueType == [handle : Nat, op : ScriptOps]
           RequestType == [camera : CAMERAS \cup {EveryCamera}, op : Ops]
           K == {i \in DOMAIN camera_op_queue : Reachable(camera_op_queue[i])}
           kept == Selected(camera_op_queue, K)
           new == [i \in DOMAIN kept |-> Resolved(kept[i])]
<1>1. /\ camera_requests' = camera_requests \o new /\ camera_op_queue' = <<>>
      /\ stack' = stack /\ cinematic' = cinematic
  BY DEF FlushCameraOps, viewVars
<1>2. camera_op_queue \in Seq(QueueType) /\ camera_requests \in Seq(RequestType)
  BY DEF ViewInv
<1>3. K \in SUBSET DOMAIN camera_op_queue
  OBVIOUS
<1> HIDE DEF QueueType, RequestType
<1>4. \A k \in K : camera_op_queue[k] \in QueueType /\ Reachable(camera_op_queue[k])
  <2>1. \A k \in DOMAIN camera_op_queue : camera_op_queue[k] \in QueueType
    BY <1>2
  <2> QED BY <2>1
<1> HIDE DEF K
<1>5. kept \in Seq(QueueType)
  BY <1>2, <1>3, SelectedFacts
<1>6. PICK at : ReadsOff(kept, camera_op_queue, K, at)
  BY <1>2, <1>3, SelectedFacts
<1> HIDE DEF kept
<1>7. \A i \in DOMAIN kept : kept[i] \in QueueType /\ Reachable(kept[i])
  BY <1>4, <1>6 DEF ReadsOff
<1>8. registry.handle_to_entity \in Partial(Nat, CAMERAS)
  BY DEF IInv, Registries
<1>9. ASSUME NEW q \in QueueType, Reachable(q)
      PROVE  Resolved(q) \in RequestType
  <2>1. q.op \in Ops
    BY DEF QueueType, Ops
  <2>2. (IF q.handle = 0 THEN EveryCamera ELSE registry.handle_to_entity[q.handle]) \in CAMERAS \cup {EveryCamera}
    BY <1>8, <1>9, PartialFacts DEF Reachable
  <2> QED BY <2>1, <2>2 DEF Resolved, RequestType
<1>10. new \in Seq(RequestType)
  <2>1. \A i \in DOMAIN kept : Resolved(kept[i]) \in RequestType
    BY <1>7, <1>9
  <2>2. DOMAIN kept = 1 .. Len(kept) /\ Len(kept) \in Nat
    BY <1>5
  <2> QED BY <2>1, <2>2
<1> HIDE DEF new
<1>11. camera_requests \o new \in Seq(RequestType)
  BY <1>2, <1>10
<1>12. camera_requests' \in Seq(RequestType) /\ camera_op_queue' \in Seq(QueueType)
  BY <1>1, <1>11
<1> QED BY <1>1, <1>12 DEF ViewInv, RequestType, QueueType

\* Every step keeps the invariant of the views.
LEMMA ViewNextOK == IInv /\ ViewInv /\ [CameraNext]_cameraVars => ViewInv'
<1> SUFFICES ASSUME IInv, ViewInv, [CameraNext]_cameraVars PROVE ViewInv'
  OBVIOUS
<1>1. CASE StartPreUpdate \/ RegisterDone \/ UnregisterDone
  BY <1>1, ViewOthersOK DEF StartPreUpdate, RegisterDone, UnregisterDone, PreUpdateRest, viewVars
<1>2. CASE FlushCameraOps
  BY <1>2, FlushOK
<1>3. CASE StartUpdate
  BY <1>3, ViewOthersOK DEF StartUpdate, viewVars
<1>4. CASE HandleRequest
  <2> DEFINE ev == Head(camera_requests)
             Hit(c) == entity[c] = "alive" /\ ev.camera \in {c, EveryCamera}
  <2>1. /\ camera_requests # <<>> /\ camera_requests' = Tail(camera_requests)
        /\ stack' = [c \in CAMERAS |-> IF Hit(c) THEN OnStack(stack[c], ev.op) ELSE stack[c]]
        /\ cinematic' = cinematic /\ camera_op_queue' = camera_op_queue
    BY <1>4 DEF HandleRequest
  <2>2. ev.op \in Ops /\ camera_requests' \in Seq([camera : CAMERAS \cup {EveryCamera}, op : Ops])
    <3> DEFINE RequestType == [camera : CAMERAS \cup {EveryCamera}, op : Ops]
    <3>1. camera_requests \in Seq(RequestType)
      BY DEF ViewInv
    <3>2. \A r \in RequestType : r.op \in Ops
      OBVIOUS
    <3> HIDE DEF RequestType
    <3>3. Head(camera_requests) \in RequestType /\ Tail(camera_requests) \in Seq(RequestType)
      BY <2>1, <3>1
    <3> QED BY <2>1, <3>2, <3>3 DEF RequestType
  <2> HIDE DEF ev
  <2>3. ASSUME NEW c \in CAMERAS
        PROVE  SoundStack(stack'[c]) /\ cinematic'[c] < stack'[c].next_id /\ Owned(stack'[c], cinematic'[c])
    <3>1. SoundStack(stack[c]) /\ cinematic[c] \in Int /\ cinematic[c] < stack[c].next_id /\ Owned(stack[c], cinematic[c])
      BY DEF ViewInv
    <3>2. stack'[c] = stack[c] \/ stack'[c] = OnStack(stack[c], ev.op)
      BY <2>1
    <3> QED BY <2>1, <2>2, <3>1, <3>2, OnStackOK
  <2>4. DOMAIN stack' = CAMERAS
    BY <2>1
  <2> QED BY <2>1, <2>2, <2>3, <2>4 DEF ViewInv
<1>5. CASE FinishUpdate
  <2>1. /\ stack' = [c \in CAMERAS |-> Ticked(stack[c])] /\ cinematic' = cinematic
        /\ camera_op_queue' = camera_op_queue /\ camera_requests' = camera_requests
    BY <1>5 DEF FinishUpdate
  <2>2. ASSUME NEW c \in CAMERAS
        PROVE  SoundStack(stack'[c]) /\ cinematic'[c] < stack'[c].next_id /\ Owned(stack'[c], cinematic'[c])
    <3>1. SoundStack(stack[c]) /\ cinematic[c] < stack[c].next_id /\ Owned(stack[c], cinematic[c])
      BY DEF ViewInv
    <3>2. stack'[c] = Ticked(stack[c])
      BY <2>1
    <3> QED BY <2>1, <3>1, <3>2, TickedSound, TickOwned
  <2>3. DOMAIN stack' = CAMERAS
    BY <2>1
  <2> QED BY <2>1, <2>2, <2>3 DEF ViewInv
<1>6. ASSUME NEW h \in 0 .. registry.next_id, NEW op \in ScriptOps, ScriptCall(h, op)
      PROVE  ViewInv'
  <2>1. /\ camera_op_queue' = Append(camera_op_queue, [handle |-> h, op |-> op])
        /\ stack' = stack /\ cinematic' = cinematic /\ camera_requests' = camera_requests
    BY <1>6 DEF ScriptCall, viewVars
  <2>2. [handle |-> h, op |-> op] \in [handle : Nat, op : ScriptOps]
    BY DEF IInv, Registries
  <2>3. camera_op_queue' \in Seq([handle : Nat, op : ScriptOps])
    BY <2>1, <2>2 DEF ViewInv
  <2> QED BY <2>1, <2>3 DEF ViewInv
<1>7. ASSUME NEW c \in CAMERAS, RegisterCamera(c) \/ UnregisterCamera(c)
      PROVE  ViewInv'
  BY <1>7, ViewOthersOK DEF RegisterCamera, UnregisterCamera, PreUpdateRest, viewVars
<1>8. ASSUME NEW c \in CAMERAS, NEW id \in 0 .. stack[c].next_id - 1, RequestRemoval(c, id)
      PROVE  ViewInv'
  <2> DEFINE RequestType == [camera : CAMERAS \cup {EveryCamera}, op : Ops]
             ev == [camera |-> c, op |-> [kind |-> "remove", id |-> id]]
  <2>1. /\ camera_requests' = Append(camera_requests, ev)
        /\ stack' = stack /\ cinematic' = cinematic /\ camera_op_queue' = camera_op_queue
    BY <1>8 DEF RequestRemoval, GameCall, viewVars
  <2>2. ev \in RequestType
    <3>1. id \in Nat
      BY StackFacts DEF ViewInv
    <3> QED BY <3>1 DEF Ops, RemoveOps
  <2>3. camera_requests \in Seq(RequestType)
    BY DEF ViewInv
  <2> HIDE DEF RequestType, ev
  <2>4. camera_requests' \in Seq(RequestType)
    BY <2>1, <2>2, <2>3
  <2> QED BY <2>1, <2>4 DEF ViewInv, RequestType
<1>9. ASSUME NEW c \in CAMERAS, NEW n, SpawnCamera(c, n) \/ InsertMarker(c, n)
      PROVE  ViewInv'
  BY <1>9, ViewOthersOK DEF SpawnCamera, InsertMarker, GameCall, viewVars
<1>10. ASSUME NEW c \in CAMERAS, RemoveMarker(c)
       PROVE  ViewInv'
  BY <1>10, ViewOthersOK DEF RemoveMarker, GameCall, viewVars
<1>11. ASSUME NEW c \in CAMERAS, DespawnCamera(c)
       PROVE  ViewInv'
  <2>1. /\ stack' = [stack EXCEPT ![c] = Cleared(stack[c])] /\ cinematic' = [cinematic EXCEPT ![c] = Nobody]
        /\ camera_op_queue' = camera_op_queue /\ camera_requests' = camera_requests
    BY <1>11 DEF DespawnCamera, GameCall, Cleared, ViewInv
  <2>2. SoundStack(Cleared(stack[c])) /\ Nobody < Cleared(stack[c]).next_id /\ Owned(Cleared(stack[c]), Nobody)
    <3>1. SoundStack(stack[c]) /\ stack[c].next_id \in Nat
      BY StackFacts DEF ViewInv
    <3>2. /\ SoundStack(Cleared(stack[c])) /\ Cleared(stack[c]).next_id = stack[c].next_id
          /\ Range(Cleared(stack[c]).entries) = {}
      BY <3>1, ClearedSound
    <3> QED BY <3>1, <3>2 DEF Owned, Nobody
  <2>3. Nobody \in Int
    BY DEF Nobody
  <2> QED BY <2>1, <2>2, <2>3, OneStackOK
<1>12. ASSUME NEW c \in CAMERAS, AddCinematic(c)
       PROVE  ViewInv'
  <2> DEFINE t == WithOverride(stack[c], CINEMATIC_PRIORITY, Forever, "cinematic")
             o == NewEntry(stack[c], CINEMATIC_PRIORITY, Forever, "cinematic")
  <2>1. /\ stack' = [stack EXCEPT ![c] = t] /\ cinematic' = [cinematic EXCEPT ![c] = stack[c].next_id]
        /\ camera_op_queue' = camera_op_queue /\ camera_requests' = camera_requests
        /\ cinematic[c] = Nobody
    BY <1>12 DEF AddCinematic, GameCall
  <2>2. SoundStack(stack[c]) /\ Owned(stack[c], Nobody)
    BY <2>1 DEF ViewInv
  <2>3. CINEMATIC_PRIORITY \in Int /\ Forever \in Int
    BY CameraConstants DEF Forever
  <2>4. SoundStack(t) /\ t.next_id = stack[c].next_id + 1 /\ Range(t.entries) = Range(stack[c].entries) \cup {o}
    <3>1. "cinematic" \in {"request", "cinematic"}
      OBVIOUS
    <3> QED BY <2>2, <2>3, <3>1, WithOverrideSound
  <2>5. o.id = stack[c].next_id /\ o.by = "cinematic"
    BY DEF NewEntry
  <2>6. /\ \A q \in Range(stack[c].entries) : q.id \in Nat /\ q.id < stack[c].next_id
        /\ stack[c].next_id \in Nat
    BY <2>2, StackFacts DEF Range
  <2> HIDE DEF t, o
  <2>7. Owned(t, stack[c].next_id)
    <3>1. \A q \in Range(stack[c].entries) : q.by # "cinematic" /\ q.id # stack[c].next_id
      BY <2>2, <2>6 DEF Owned, Nobody
    <3> QED BY <2>4, <2>5, <3>1 DEF Owned
  <2>8. stack[c].next_id < t.next_id /\ stack[c].next_id \in Int
    BY <2>4, <2>6
  <2> QED BY <2>1, <2>4, <2>7, <2>8, OneStackOK
<1>13. ASSUME NEW c \in CAMERAS, RemoveCinematic(c)
       PROVE  ViewInv'
  <2> DEFINE t == RemovedById(stack[c], cinematic[c])
  <2>1. /\ stack' = [stack EXCEPT ![c] = t] /\ cinematic' = [cinematic EXCEPT ![c] = Nobody]
        /\ camera_op_queue' = camera_op_queue /\ camera_requests' = camera_requests
    BY <1>13 DEF RemoveCinematic, GameCall
  <2>2. /\ SoundStack(stack[c]) /\ Owned(stack[c], cinematic[c])
        /\ \A q \in Range(stack[c].entries) : q.id \in Nat
        /\ stack[c].next_id \in Nat
    BY StackFacts DEF ViewInv, Range
  <2>3. /\ SoundStack(t) /\ t.next_id = stack[c].next_id
        /\ Range(t.entries) = {o \in Range(stack[c].entries) : o.id # cinematic[c]}
    BY <2>2, RemovedByIdSound
  <2> HIDE DEF t
  <2>4. Owned(t, Nobody) /\ Nobody < t.next_id /\ Nobody \in Int
    BY <2>2, <2>3 DEF Owned, Nobody
  <2> QED BY <2>1, <2>3, <2>4, OneStackOK
<1>14. CASE UNCHANGED cameraVars
  BY <1>14, ViewOthersOK DEF cameraVars, viewVars
<1> QED BY <1>1, <1>2, <1>3, <1>4, <1>5, <1>6, <1>7, <1>8, <1>9, <1>10, <1>11, <1>12, <1>13, <1>14 DEF CameraNext

\* CameraCinematicShadow and the stacks: for any number of cameras, overrides and
\* frames, and whatever scripts push, pop and clear in between, the id a cinematic
\* remembers names its own override or one that has left the stack, so that
\* leaving the cinematic removes nobody else's.
THEOREM CinematicKeepsToItself == CameraSpec => []CinematicOwnsItsOverride
<1>1. ViewInv => CinematicOwnsItsOverride
  BY DEF ViewInv, Owned, CinematicOwnsItsOverride, Range
<1> QED BY <1>1, CameraInitOK, CameraNextOK, ViewInitOK, ViewNextOK, PTL DEF CameraSpec

-----------------------------------------------------------------------------
(* PriorityOverrides *)

\* Each action of PriorityOverrides, seen camera by camera.
LEMMA MapAdd ==
  ASSUME NEW C \in SUBSET CAMERAS, NEW p, NEW d, shown' = shown,
         \A c \in CAMERAS :
           Held(stack'[c]) = IF c \in C THEN Held(stack[c]) \cup {[id |-> stack[c].next_id, priority |-> p, left |-> d]}
                                        ELSE Held(stack[c]),
         \A c \in CAMERAS : stack'[c].next_id = IF c \in C THEN stack[c].next_id + 1 ELSE stack[c].next_id
  PROVE  Overrides!Add(C, p, d)
BY DEF Overrides!Add, Held, Seen

\* A step that removes one id from the stacks of C is RemoveId.
LEMMA MapRemoveId ==
  ASSUME NEW C \in SUBSET CAMERAS, NEW id, shown' = shown,
         \A c \in CAMERAS : Held(stack'[c]) = {o \in Held(stack[c]) : c \in C => o.id # id},
         \A c \in CAMERAS : stack'[c].next_id = stack[c].next_id
  PROVE  Overrides!RemoveId(C, id)
BY DEF Overrides!RemoveId, Held, Seen

\* A step that removes the best of each stack of C is RemoveBest.
LEMMA MapRemoveBest ==
  ASSUME NEW C \in SUBSET CAMERAS, shown' = shown,
         \A c \in CAMERAS : Held(stack'[c]) = IF c \in C /\ Held(stack[c]) # {}
                                              THEN Held(stack[c]) \ {Overrides!Best(Held(stack[c]))}
                                              ELSE Held(stack[c]),
         \A c \in CAMERAS : stack'[c].next_id = stack[c].next_id
  PROVE  Overrides!RemoveBest(C)
BY DEF Overrides!RemoveBest, Held, Seen

\* A step that empties the stacks of C is RemoveAll.
LEMMA MapRemoveAll ==
  ASSUME NEW C \in SUBSET CAMERAS, shown' = shown,
         \A c \in CAMERAS : Held(stack'[c]) = IF c \in C THEN {} ELSE Held(stack[c]),
         \A c \in CAMERAS : stack'[c].next_id = stack[c].next_id
  PROVE  Overrides!RemoveAll(C)
BY DEF Overrides!RemoveAll, Held, Seen

\* A step that takes a frame from every override and shows the best is PassFrame.
LEMMA MapPassFrame ==
  ASSUME \A c \in CAMERAS : Held(stack'[c]) = {o \in Held(stack[c]) : o.left = Forever}
                 \cup {[o EXCEPT !.left = @ - 1] : o \in {q \in Held(stack[c]) : q.left > 1}},
         shown' = [c \in CAMERAS |-> IF Held(stack'[c]) = {} THEN Nobody ELSE Overrides!Best(Held(stack'[c])).id],
         \A c \in CAMERAS : stack'[c].next_id = stack[c].next_id
  PROVE  Overrides!PassFrame
BY DEF Overrides!PassFrame, Held, Seen, Forever, Nobody, Overrides!Forever, Overrides!Nobody

\* A step that leaves the stacks and what is shown alone is a stutter.
LEMMA MapStutter ==
  ASSUME \A c \in CAMERAS : Held(stack'[c]) = Held(stack[c]) /\ stack'[c].next_id = stack[c].next_id,
         shown' = shown
  PROVE  UNCHANGED Overrides!overrideVars
BY DEF Overrides!overrideVars, Held, Seen

\* The first state maps to a first state.
LEMMA MapInit == CameraInit => Overrides!PInit
BY DEF CameraInit, Overrides!PInit, Overrides!Nobody, Nobody, Range

-----------------------------------------------------------------------------

\* An override added is a step of PriorityOverrides.
LEMMA NextByAdd ==
  ASSUME NEW C \in SUBSET CAMERAS, NEW p \in PRIORITIES, NEW d \in DURATIONS \cup {Forever}, Overrides!Add(C, p, d)
  PROVE  Overrides!PNext
<1>1. d \in DURATIONS \cup {Overrides!Forever}
  BY DEF Forever, Overrides!Forever
<1> QED BY <1>1 DEF Overrides!PNext

\* An override removed by its id is a step of PriorityOverrides.
LEMMA NextByRemoveId ==
  ASSUME NEW C \in SUBSET CAMERAS, NEW c \in C, NEW o \in Held(stack[c]), Overrides!RemoveId(C, o.id)
  PROVE  Overrides!PNext
BY DEF Overrides!PNext, Held, Seen

\* Its other actions are steps of PriorityOverrides.
LEMMA NextByOther ==
  ASSUME NEW C \in SUBSET CAMERAS,
         Overrides!RemoveBest(C) \/ Overrides!RemoveAll(C) \/ Overrides!PassFrame
  PROVE  Overrides!PNext
BY DEF Overrides!PNext

\* A step of PriorityOverrides under the refinement mapping, or a stutter.
Mapped == [Overrides!PNext]_(Overrides!overrideVars)

\* An operation on the stacks of the cameras in C is a step of PriorityOverrides.
LEMMA OperationMapped ==
  ASSUME ViewInv, NEW C \in SUBSET CAMERAS, NEW op \in Ops, shown' = shown,
         \A c \in CAMERAS : stack'[c] = IF c \in C THEN OnStack(stack[c], op) ELSE stack[c]
  PROVE  Mapped
<1>0. \A c \in CAMERAS : SoundStack(stack[c])
  BY DEF ViewInv
<1>1. CASE op.kind = "push"
  <2>1. op.priority \in PRIORITIES /\ op.duration \in DURATIONS \cup {Forever}
    BY <1>1 DEF Ops, ScriptOps, RemoveOps
  <2>2. op.priority \in Int /\ op.duration \in Int
    <3>1. PRIORITIES \subseteq Int /\ DURATIONS \cup {Forever} \subseteq Int
      BY CameraConstants DEF Forever
    <3> QED BY <2>1, <3>1
  <2>3. \A c \in C : stack'[c] = WithOverride(stack[c], op.priority, op.duration, "request")
    BY <1>1 DEF OnStack
  <2>4. ASSUME NEW c \in C
        PROVE  /\ Held(stack'[c]) = Held(stack[c]) \cup
                    {[id |-> stack[c].next_id, priority |-> op.priority, left |-> op.duration]}
               /\ stack'[c].next_id = stack[c].next_id + 1
    <3>1. SoundStack(stack[c]) /\ "request" \in {"request", "cinematic"}
      BY <1>0
    <3>2. stack'[c].next_id = stack[c].next_id + 1
      BY <2>2, <2>3, <3>1, WithOverrideSound
    <3>3. Held(WithOverride(stack[c], op.priority, op.duration, "request")) = Held(stack[c]) \cup
            {[id |-> stack[c].next_id, priority |-> op.priority, left |-> op.duration]}
      BY <2>2, <3>1, HeldWithOverride
    <3> QED BY <2>3, <3>2, <3>3
  <2>5. Overrides!Add(C, op.priority, op.duration)
    BY <2>4, MapAdd
  <2> QED BY <2>1, <2>5, NextByAdd DEF Mapped
<1>2. CASE op.kind = "remove"
  <2>1. \A c \in C : stack'[c] = RemovedById(stack[c], op.id)
    BY <1>2 DEF OnStack
  <2>2. \A c \in C : Held(stack'[c]) = {o \in Held(stack[c]) : o.id # op.id} /\ stack'[c].next_id = stack[c].next_id
    BY <1>0, <2>1, HeldRemovedById, RemovedByIdSound
  <2>3. CASE \E c \in C : \E o \in Held(stack[c]) : o.id = op.id
    <3>1. PICK c \in C : \E o \in Held(stack[c]) : o.id = op.id
      BY <2>3
    <3>2. PICK o \in Held(stack[c]) : o.id = op.id
      BY <3>1
    <3>3. \A e \in CAMERAS : Held(stack'[e]) = {q \in Held(stack[e]) : e \in C => q.id # op.id}
      BY <2>2
    <3>4. \A e \in CAMERAS : stack'[e].next_id = stack[e].next_id
      BY <2>2
    <3>5. Overrides!RemoveId(C, op.id)
      BY <3>3, <3>4, MapRemoveId
    <3> QED BY <3>2, <3>5, NextByRemoveId DEF Mapped
  <2>4. CASE \A c \in C : \A o \in Held(stack[c]) : o.id # op.id
    <3>1. \A c \in CAMERAS : Held(stack'[c]) = Held(stack[c]) /\ stack'[c].next_id = stack[c].next_id
      BY <2>2, <2>4
    <3> QED BY <3>1, MapStutter DEF Mapped
  <2> QED BY <2>3, <2>4
<1>3. CASE op.kind = "pop"
  <2>1. \A c \in C : stack'[c] = Popped(stack[c])
    BY <1>3 DEF OnStack
  <2>2. ASSUME NEW c \in C
        PROVE  /\ stack'[c].next_id = stack[c].next_id
               /\ Held(stack'[c]) = IF Held(stack[c]) # {} THEN Held(stack[c]) \ {Overrides!Best(Held(stack[c]))}
                                                          ELSE Held(stack[c])
    <3>1. CASE stack[c].entries = <<>>
      <4>1. stack'[c] = stack[c]
        BY <1>0, <2>1, <3>1, PoppedSound
      <4>2. Held(stack[c]) = {}
        BY <3>1 DEF Held, Range
      <4> QED BY <4>1, <4>2
    <3>2. CASE stack[c].entries # <<>>
      <4>1. SoundStack(stack[c]) /\ stack'[c] = Popped(stack[c])
        BY <1>0, <2>1
      <4>2. stack'[c].next_id = stack[c].next_id
        BY <4>1, PoppedSound
      <4>3. /\ Held(stack[c]) # {}
            /\ Held(Popped(stack[c])) = Held(stack[c]) \ {Overrides!Best(Held(stack[c]))}
        BY <3>2, <4>1, TopIsBest
      <4> QED BY <4>1, <4>2, <4>3
    <3> QED BY <3>1, <3>2
  <2>3. \A c \in CAMERAS : stack'[c].next_id = stack[c].next_id
    BY <2>2
  <2>4. \A c \in CAMERAS : Held(stack'[c]) = IF c \in C /\ Held(stack[c]) # {}
                                             THEN Held(stack[c]) \ {Overrides!Best(Held(stack[c]))}
                                             ELSE Held(stack[c])
    BY <2>2
  <2>5. Overrides!RemoveBest(C)
    BY <2>3, <2>4, MapRemoveBest
  <2> QED BY <2>5, NextByOther DEF Mapped
<1>4. CASE op.kind = "clear"
  <2>1. \A c \in C : stack'[c] = Cleared(stack[c])
    BY <1>4 DEF OnStack
  <2>2. \A c \in C : Held(stack'[c]) = {} /\ stack'[c].next_id = stack[c].next_id
    BY <1>0, <2>1, HeldCleared, ClearedSound
  <2>3. Overrides!RemoveAll(C)
    BY <2>2, MapRemoveAll
  <2> QED BY <2>3, NextByOther DEF Mapped
<1>5. CASE op.kind \notin {"push", "remove", "pop", "clear"}
  <2>1. \A c \in CAMERAS : stack'[c] = stack[c]
    BY <1>5 DEF OnStack
  <2> QED BY <2>1, MapStutter DEF Mapped
<1> QED BY <1>1, <1>2, <1>3, <1>4, <1>5

\* The steps that leave the stacks and what is shown alone.
LEMMA OthersMapped ==
  ASSUME stack' = stack, shown' = shown
  PROVE  Mapped
BY MapStutter DEF Mapped

\* The systems at the end of Update pass a frame: tick, then apply the top.
LEMMA FinishUpdateMapped ==
  ASSUME ViewInv, FinishUpdate
  PROVE  Mapped
<1>1. /\ stack' = [c \in CAMERAS |-> Ticked(stack[c])]
      /\ shown' = [c \in CAMERAS |-> IF stack'[c].entries = <<>> THEN Nobody ELSE Last(stack'[c].entries).id]
  BY DEF FinishUpdate
<1>2. ASSUME NEW c \in CAMERAS
      PROVE  /\ SoundStack(stack'[c]) /\ stack'[c].next_id = stack[c].next_id
             /\ Held(stack'[c]) = {o \in Held(stack[c]) : o.left = Forever}
                  \cup {[o EXCEPT !.left = @ - 1] : o \in {q \in Held(stack[c]) : q.left > 1}}
  <2>1. SoundStack(stack[c]) /\ stack'[c] = Ticked(stack[c])
    BY <1>1 DEF ViewInv
  <2>2. SoundStack(stack'[c]) /\ stack'[c].next_id = stack[c].next_id
    BY <2>1, TickedSound
  <2>3. Held(Ticked(stack[c])) = {o \in Held(stack[c]) : o.left = Forever}
          \cup {[o EXCEPT !.left = @ - 1] : o \in {q \in Held(stack[c]) : q.left > 1}}
    BY <2>1, HeldTicked
  <2> QED BY <2>1, <2>2, <2>3
<1>3. ASSUME NEW c \in CAMERAS
      PROVE  (IF stack'[c].entries = <<>> THEN Nobody ELSE Last(stack'[c].entries).id)
               = IF Held(stack'[c]) = {} THEN Nobody ELSE Overrides!Best(Held(stack'[c])).id
  <2>1. CASE stack'[c].entries = <<>>
    BY <2>1 DEF Held, Range
  <2>2. CASE stack'[c].entries # <<>>
    <3>1. SoundStack(stack'[c])
      BY <1>2
    <3>2. Held(stack'[c]) # {} /\ Overrides!Best(Held(stack'[c])) = Seen(Last(stack'[c].entries))
      BY <2>2, <3>1, TopIsBest
    <3>3. Seen(Last(stack'[c].entries)).id = Last(stack'[c].entries).id
      BY DEF Seen
    <3> QED BY <2>2, <3>2, <3>3
  <2> QED BY <2>1, <2>2
<1>4. shown' = [c \in CAMERAS |-> IF Held(stack'[c]) = {} THEN Nobody ELSE Overrides!Best(Held(stack'[c])).id]
  BY <1>1, <1>3
<1>5. Overrides!PassFrame
  BY <1>2, <1>4, MapPassFrame
<1> QED BY <1>5 DEF Mapped, Overrides!PNext

\* Every step of the cameras is a step of PriorityOverrides or a stutter.
LEMMA StepMapped == ViewInv /\ [CameraNext]_cameraVars => Mapped
<1> SUFFICES ASSUME ViewInv, [CameraNext]_cameraVars PROVE Mapped
  OBVIOUS
<1>1. CASE StartPreUpdate \/ RegisterDone \/ UnregisterDone
  BY <1>1, OthersMapped DEF StartPreUpdate, RegisterDone, UnregisterDone, PreUpdateRest, viewVars
<1>2. CASE FlushCameraOps \/ StartUpdate
  BY <1>2, OthersMapped DEF FlushCameraOps, StartUpdate, viewVars
<1>3. CASE HandleRequest
  <2> DEFINE ev == Head(camera_requests)
             C == {c \in CAMERAS : entity[c] = "alive" /\ ev.camera \in {c, EveryCamera}}
             RequestType == [camera : CAMERAS \cup {EveryCamera}, op : Ops]
  <2>1. \A c \in CAMERAS : stack'[c] = IF c \in C THEN OnStack(stack[c], ev.op) ELSE stack[c]
    BY <1>3 DEF HandleRequest
  <2>2. shown' = shown /\ camera_requests # <<>>
    BY <1>3 DEF HandleRequest
  <2>3. ev.op \in Ops
    <3>1. camera_requests \in Seq(RequestType) /\ \A r \in RequestType : r.op \in Ops
      BY DEF ViewInv
    <3> HIDE DEF RequestType
    <3> QED BY <2>2, <3>1
  <2>4. C \in SUBSET CAMERAS
    OBVIOUS
  <2> HIDE DEF ev, C
  <2> QED BY <2>1, <2>2, <2>3, <2>4, OperationMapped
<1>4. CASE FinishUpdate
  BY <1>4, FinishUpdateMapped
<1>5. ASSUME NEW h, NEW op, ScriptCall(h, op) PROVE Mapped
  BY <1>5, OthersMapped DEF ScriptCall, viewVars
<1>6. ASSUME NEW c \in CAMERAS, RegisterCamera(c) \/ UnregisterCamera(c) PROVE Mapped
  BY <1>6, OthersMapped DEF RegisterCamera, UnregisterCamera, PreUpdateRest, viewVars
<1>7. ASSUME NEW c \in CAMERAS, NEW id, RequestRemoval(c, id) PROVE Mapped
  BY <1>7, OthersMapped DEF RequestRemoval, GameCall, viewVars
<1>8. ASSUME NEW c \in CAMERAS, NEW n, SpawnCamera(c, n) \/ InsertMarker(c, n) PROVE Mapped
  BY <1>8, OthersMapped DEF SpawnCamera, InsertMarker, GameCall, viewVars
<1>9. ASSUME NEW c \in CAMERAS, RemoveMarker(c) PROVE Mapped
  BY <1>9, OthersMapped DEF RemoveMarker, GameCall, viewVars
<1>10. ASSUME NEW c \in CAMERAS, DespawnCamera(c) PROVE Mapped
  <2>1. \A d \in CAMERAS : stack'[d] = IF d \in {c} THEN OnStack(stack[d], [kind |-> "clear"]) ELSE stack[d]
    <3>1. stack' = [stack EXCEPT ![c] = Cleared(stack[c])]
      BY <1>10 DEF DespawnCamera, Cleared, ViewInv
    <3>2. OnStack(stack[c], [kind |-> "clear"]) = Cleared(stack[c])
      BY DEF OnStack
    <3> QED BY <3>1, <3>2 DEF ViewInv
  <2>2. shown' = shown
    BY <1>10 DEF DespawnCamera, GameCall
  <2>3. [kind |-> "clear"] \in Ops /\ {c} \in SUBSET CAMERAS
    BY DEF Ops, ScriptOps
  <2> QED BY <2>1, <2>2, <2>3, OperationMapped
<1>11. ASSUME NEW c \in CAMERAS, AddCinematic(c) PROVE Mapped
  <2> DEFINE t == WithOverride(stack[c], CINEMATIC_PRIORITY, Forever, "cinematic")
  <2>1. stack' = [stack EXCEPT ![c] = t] /\ shown' = shown
    BY <1>11 DEF AddCinematic, GameCall
  <2>2. /\ SoundStack(stack[c]) /\ CINEMATIC_PRIORITY \in PRIORITIES /\ CINEMATIC_PRIORITY \in Int
        /\ Forever \in Int /\ "cinematic" \in {"request", "cinematic"}
    BY CameraConstants DEF ViewInv, Forever
  <2>3. t.next_id = stack[c].next_id + 1
    BY <2>2, WithOverrideSound
  <2>4. Held(t) = Held(stack[c]) \cup {[id |-> stack[c].next_id, priority |-> CINEMATIC_PRIORITY, left |-> Forever]}
    BY <2>2, HeldWithOverride
  <2> HIDE DEF t
  <2>5. \A d \in CAMERAS : stack'[d] = IF d \in {c} THEN t ELSE stack[d]
    BY <2>1 DEF ViewInv
  <2>6. Overrides!Add({c}, CINEMATIC_PRIORITY, Forever)
    <3>1. \A d \in CAMERAS :
            Held(stack'[d]) = IF d \in {c}
                              THEN Held(stack[d]) \cup {[id |-> stack[d].next_id, priority |-> CINEMATIC_PRIORITY, left |-> Forever]}
                              ELSE Held(stack[d])
      BY <2>4, <2>5
    <3>2. \A d \in CAMERAS : stack'[d].next_id = IF d \in {c} THEN stack[d].next_id + 1 ELSE stack[d].next_id
      BY <2>3, <2>5
    <3>3. {c} \in SUBSET CAMERAS
      OBVIOUS
    <3> QED BY <2>1, <3>1, <3>2, <3>3, MapAdd
  <2>7. {c} \in SUBSET CAMERAS /\ Forever \in DURATIONS \cup {Forever}
    OBVIOUS
  <2> QED BY <2>2, <2>6, <2>7, NextByAdd DEF Mapped
<1>12. ASSUME NEW c \in CAMERAS, RemoveCinematic(c) PROVE Mapped
  <2> DEFINE op == [kind |-> "remove", id |-> cinematic[c]]
  <2>1. stack' = [stack EXCEPT ![c] = RemovedById(stack[c], cinematic[c])] /\ shown' = shown
    BY <1>12 DEF RemoveCinematic, GameCall
  <2>2. CASE cinematic[c] \in Nat
    <3>1. op \in Ops /\ {c} \in SUBSET CAMERAS
      BY <2>2 DEF Ops, RemoveOps
    <3>2. OnStack(stack[c], op) = RemovedById(stack[c], cinematic[c])
      BY DEF OnStack
    <3> HIDE DEF op
    <3>3. \A d \in CAMERAS : stack'[d] = IF d \in {c} THEN OnStack(stack[d], op) ELSE stack[d]
      BY <2>1, <3>2 DEF ViewInv
    <3> QED BY <2>1, <3>1, <3>3, OperationMapped
  <2>3. CASE cinematic[c] \notin Nat
    <3>1. SoundStack(stack[c]) /\ \A o \in Range(stack[c].entries) : o.id # cinematic[c]
      BY <2>3, StackFacts DEF ViewInv, Range
    <3>2. RemovedById(stack[c], cinematic[c]) = stack[c]
      BY <3>1, RemovedByIdSound
    <3>3. \A d \in CAMERAS : stack'[d] = stack[d]
      BY <2>1, <3>2 DEF ViewInv
    <3> QED BY <2>1, <3>3, MapStutter DEF Mapped
  <2> QED BY <2>2, <2>3
<1>13. CASE UNCHANGED cameraVars
  BY <1>13, OthersMapped DEF cameraVars, viewVars
<1> QED BY <1>1, <1>2, <1>3, <1>4, <1>5, <1>6, <1>7, <1>8, <1>9, <1>10, <1>11, <1>12, <1>13 DEF CameraNext

\* CameraOverrideStack implements PriorityOverrides: for any number of cameras and
\* overrides, the sorted Vec that push inserts into, and the removals by position,
\* by id and by expiry, do what a set of overrides does of which the one of
\* highest priority, the newest among equals, is followed.
THEOREM StacksImplementPriorities == CameraSpec => StacksFollowPriority
<1>1. ViewInv /\ [CameraNext]_cameraVars => [Overrides!PNext]_(Overrides!overrideVars)
  BY StepMapped DEF Mapped
<1> QED BY <1>1, MapInit, CameraInitOK, CameraNextOK, ViewInitOK, ViewNextOK, PTL
        DEF CameraSpec, StacksFollowPriority, Overrides!PSpec
=============================================================================
