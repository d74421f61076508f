-------------------------- MODULE PriorityOverrides --------------------------
(***************************************************************************)
(* What the override stacks of the cameras promise, without their order in *)
(* memory: a camera holds a set of overrides, the newer ones with higher   *)
(* ids, and each frame follows the one of the highest priority, the newest *)
(* among equals.  Camera implements this.                                  *)
(***************************************************************************)
EXTENDS Integers

CONSTANTS CAMERAS, PRIORITIES, DURATIONS

VARIABLES
  held,   \* the overrides of each camera
  newest, \* the id each camera's next override is given
  shown   \* the id each camera followed in the last frame

overrideVars == <<held, newest, shown>>

Nobody == -1   \* the id of no override
Forever == -1  \* the duration of an override that does not expire

Better(o, p) == o.priority > p.priority \/ (o.priority = p.priority /\ o.id > p.id)
Best(S) == CHOOSE o \in S : \A p \in S \ {o} : Better(o, p)

PInit == /\ held = [c \in CAMERAS |-> {}]
         /\ newest = [c \in CAMERAS |-> 0]
         /\ shown = [c \in CAMERAS |-> Nobody]

\* A request is for one camera or for several.
Add(C, p, d) ==
  /\ held' = [c \in CAMERAS |-> IF c \in C
                THEN held[c] \cup {[id |-> newest[c], priority |-> p, left |-> d]} ELSE held[c]]
  /\ newest' = [c \in CAMERAS |-> IF c \in C THEN newest[c] + 1 ELSE newest[c]]
  /\ UNCHANGED shown

RemoveId(C, id) ==
  /\ held' = [c \in CAMERAS |-> {o \in held[c] : c \in C => o.id # id}]
  /\ UNCHANGED <<newest, shown>>

RemoveBest(C) ==
  /\ held' = [c \in CAMERAS |-> IF c \in C /\ held[c] # {} THEN held[c] \ {Best(held[c])} ELSE held[c]]
  /\ UNCHANGED <<newest, shown>>

RemoveAll(C) ==
  /\ held' = [c \in CAMERAS |-> IF c \in C THEN {} ELSE held[c]]
  /\ UNCHANGED <<newest, shown>>

\* A frame passes: what has run out leaves, and each camera follows its best.
PassFrame ==
  /\ held' = [c \in CAMERAS |-> {o \in held[c] : o.left = Forever}
                \cup {[o EXCEPT !.left = @ - 1] : o \in {q \in held[c] : q.left > 1}}]
  /\ shown' = [c \in CAMERAS |-> IF held'[c] = {} THEN Nobody ELSE Best(held'[c]).id]
  /\ UNCHANGED newest

PNext ==
  \/ \E C \in SUBSET CAMERAS :
       \/ \E p \in PRIORITIES, d \in DURATIONS \cup {Forever} : Add(C, p, d)
       \/ \E c \in C : \E o \in held[c] : RemoveId(C, o.id)
       \/ RemoveBest(C) \/ RemoveAll(C)
  \/ PassFrame

PSpec == PInit /\ [][PNext]_overrideVars
=============================================================================
