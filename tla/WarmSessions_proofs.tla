------------------------- MODULE WarmSessions_proofs -------------------------
(***************************************************************************)
(* What holds of the warm sessions of a workspace for every cap, every set *)
(* of names and files and every length of a batch.                         *)
(*                                                                         *)
(* The argument: whatever a batch of edits opens and evicts, each session  *)
(* that had unsaved edits when it began is still warm and unsaved, and its *)
(* first mark, if it has one, is what it was; each other session was clean *)
(* at its first mark.  So what the roll-back puts back is what was found.  *)
(***************************************************************************)
EXTENDS WarmSessions, TLAPS, SequenceTheorems, FiniteSetTheorems,
        WellFoundedInduction

-----------------------------------------------------------------------------
(* Making room and finding a session. *)

(* Only what may be dropped is dropped. *)
LEMMA VictimsAreIdle ==
  ASSUME NEW o, NEW idle, NEW cap
  PROVE  Victims(o, idle, cap) \subseteq idle
BY DEF Victims

(* What belonging to Sessions says of a map.                               *)
LEMMA SessionsAre ==
  ASSUME NEW m \in Sessions
  PROVE  /\ DOMAIN m \subseteq Id
         /\ m \in [DOMAIN m -> Workspace]
         /\ \A i \in DOMAIN m : m[i] \in Workspace
BY DEF Sessions

(* evict_for_room takes clean sessions only, and changes no other. *)
LEMMA EvictKeeps ==
  ASSUME NEW w, w.map \in Sessions
  PROVE  LET e == EvictForRoom(w).map IN
         /\ e \in Sessions
         /\ DOMAIN e \subseteq DOMAIN w.map
         /\ \A i \in DOMAIN e : e[i] = w.map[i]
         /\ \A i \in DOMAIN w.map : ~w.map[i].clean => i \in DOMAIN e
<1> DEFINE gone == Victims(w.order, {i \in DOMAIN w.map : w.map[i].clean}, Cap)
           e == [i \in DOMAIN w.map \ gone |-> w.map[i]]
<1>1. EvictForRoom(w).map = e
  BY DEF EvictForRoom, Drop
<1>2. gone \subseteq {i \in DOMAIN w.map : w.map[i].clean}
  BY VictimsAreIdle
<1> HIDE DEF gone
<1>3. e \in Sessions
  <2>1. e \in [DOMAIN w.map \ gone -> Workspace] /\ DOMAIN w.map \ gone \subseteq Id
    BY SessionsAre
  <2> QED
    BY <2>1 DEF Sessions
<1> QED
  BY <1>1, <1>2, <1>3

(* Put adds one session or replaces it. *)
LEMMA PutHolds ==
  ASSUME NEW w, NEW id, NEW ws
  PROVE  LET p == Put(w, id, ws).map IN
         /\ DOMAIN p = DOMAIN w.map \cup {id}
         /\ p[id] = ws
         /\ \A i \in DOMAIN w.map : i # id => p[i] = w.map[i]
         /\ w.map \in Sessions /\ id \in Id /\ ws \in Workspace => p \in Sessions
<1> DEFINE p == [i \in DOMAIN w.map \cup {id} |-> IF i = id THEN ws ELSE w.map[i]]
<1>1. Put(w, id, ws).map = p
  BY DEF Put
<1>2. ASSUME w.map \in Sessions, id \in Id, ws \in Workspace
      PROVE  p \in Sessions
  <2>1. DOMAIN w.map \cup {id} \subseteq Id /\ \A i \in DOMAIN w.map : w.map[i] \in Workspace
    BY <1>2, SessionsAre
  <2>2. p \in [DOMAIN w.map \cup {id} -> Workspace]
    BY <1>2, <2>1
  <2> QED
    BY <2>1, <2>2 DEF Sessions
<1> QED
  BY <1>1, <1>2

(* Set changes one session. *)
LEMMA SetHolds ==
  ASSUME NEW w, NEW id, NEW ws, w \in [map : Sessions, order : {w.order}],
         id \in DOMAIN w.map, ws \in Workspace
  PROVE  LET s == Set(w, id, ws).map IN
         /\ s \in Sessions
         /\ DOMAIN s = DOMAIN w.map
         /\ s[id] = ws
         /\ \A i \in DOMAIN w.map : i # id => s[i] = w.map[i]
<1>1. Set(w, id, ws).map = [w.map EXCEPT ![id] = ws]
  BY DEF Set
<1>2. DOMAIN w.map \subseteq Id /\ w.map \in [DOMAIN w.map -> Workspace]
  BY SessionsAre
<1>3. [w.map EXCEPT ![id] = ws] \in [DOMAIN w.map -> Workspace]
  BY <1>2
<1> QED
  BY <1>1, <1>2, <1>3 DEF Sessions

-----------------------------------------------------------------------------
(* Types: the disk's and the sessions'. *)
Typed ==
  /\ disk \in [File -> [text : Text \cup {Absent}, stamp : Nat]]
  /\ clock \in Nat
  /\ sessions \in Sessions

LEMMA OpenedType ==
  ASSUME Typed, NEW f \in File, NEW ro \in BOOLEAN
  PROVE  /\ Opened(f, ro).clean
         /\ disk[f].text # Absent => Opened(f, ro) \in Workspace
         /\ [Opened(f, ro) EXCEPT !.text = "other"] \in Workspace
BY DEF Typed, Opened, Workspace, Text, Absent

(* auto_revert_if_clean leaves a session with unsaved edits alone, and a   *)
(* clean one clean.                                                        *)
LEMMA RereadHolds ==
  ASSUME Typed, NEW ws \in Workspace
  PROVE  /\ Reread(ws) \in Workspace
         /\ Reread(ws).clean = ws.clean
         /\ ~ws.clean => Reread(ws) = ws
<1>1. CASE Stale(ws) /\ ws.clean /\ ~ws.ro /\ disk[ws.file].text # Absent
  <2>1. ws.file \in File
    BY <1>1 DEF Stale, Workspace
  <2>2. Reread(ws) = Opened(ws.file, FALSE)
    BY <1>1 DEF Reread
  <2>3. ws.clean = TRUE
    BY <1>1 DEF Workspace
  <2> QED
    BY <1>1, <2>1, <2>2, <2>3, OpenedType DEF Opened
<1>2. CASE ~(Stale(ws) /\ ws.clean /\ ~ws.ro /\ disk[ws.file].text # Absent)
  BY <1>2 DEF Reread
<1> QED
  BY <1>1, <1>2

(* resolve_session answers with a warm session or with none, and what it   *)
(* does to the map spares every session with unsaved edits: it opens at    *)
(* most one, clean, and drops clean ones for it.                           *)
LEMMA ResolveHolds ==
  ASSUME Typed, NEW a \in Address
  PROVE  LET r == Resolve(Warm, a) IN
         /\ r.warm.map \in Sessions
         /\ r.warm = [map |-> r.warm.map, order |-> r.warm.order]
         /\ r.id = None \/ r.id \in DOMAIN r.warm.map
         /\ r.id = None => r.warm = Warm
         /\ \A i \in DOMAIN sessions : ~sessions[i].clean => i \in DOMAIN r.warm.map
         /\ \A i \in DOMAIN r.warm.map :
              \/ i \in DOMAIN sessions /\ r.warm.map[i] = sessions[i]
              \/ i \notin DOMAIN sessions /\ r.warm.map[i].clean
<1> DEFINE r == Resolve(Warm, a)
<1>1. Warm.map = sessions /\ Warm = [map |-> Warm.map, order |-> Warm.order]
  BY DEF Warm
<1>2. sessions \in Sessions
  BY DEF Typed
<1>3. CASE a.of \in DOMAIN Warm.map
  <2>1. r = [warm |-> Warm, id |-> a.of]
    BY <1>3 DEF Resolve
  <2> QED
    BY <1>1, <1>2, <1>3, <2>1
<1>4. CASE a.of \notin DOMAIN Warm.map /\ a.by = "session"
  <2>1. r = [warm |-> Warm, id |-> None]
    BY <1>4 DEF Resolve
  <2> QED
    BY <1>1, <1>2, <2>1
<1>5. CASE a.of \notin DOMAIN Warm.map /\ a.by # "session" /\ Visiting(Warm, a.of) # {}
  <2>1. r.warm = Warm /\ (r.id = None \/ r.id = CHOOSE i \in Visiting(Warm, a.of) : TRUE)
    BY <1>5 DEF Resolve
  <2>2. (CHOOSE i \in Visiting(Warm, a.of) : TRUE) \in DOMAIN Warm.map
    BY <1>5 DEF Visiting
  <2> QED
    BY <1>1, <1>2, <2>1, <2>2
<1>6. CASE /\ a.of \notin DOMAIN Warm.map /\ a.by # "session" /\ Visiting(Warm, a.of) = {}
           /\ disk[a.of].text = Absent
  <2>1. r = [warm |-> Warm, id |-> None]
    BY <1>6 DEF Resolve
  <2> QED
    BY <1>1, <1>2, <2>1
<1>7. CASE /\ a.of \notin DOMAIN Warm.map /\ a.by # "session" /\ Visiting(Warm, a.of) = {}
           /\ disk[a.of].text # Absent
  <2> DEFINE e == EvictForRoom(Warm)
             o == Opened(a.of, FALSE)
  <2>1. r = [warm |-> Put(e, a.of, o), id |-> a.of]
    BY <1>7 DEF Resolve
  <2>2. a.of \in File /\ a.of \in Id
    BY <1>7 DEF Address, Id
  <2>3. o \in Workspace /\ o.clean
    BY <1>7, <2>2, OpenedType
  <2>4. /\ e.map \in Sessions
        /\ DOMAIN e.map \subseteq DOMAIN sessions
        /\ \A i \in DOMAIN e.map : e.map[i] = sessions[i]
        /\ \A i \in DOMAIN sessions : ~sessions[i].clean => i \in DOMAIN e.map
    BY <1>1, <1>2, EvictKeeps
  <2>5. Put(e, a.of, o) = [map |-> Put(e, a.of, o).map, order |-> Put(e, a.of, o).order]
    BY DEF Put
  <2> HIDE DEF e, o
  <2>6. /\ DOMAIN r.warm.map = DOMAIN e.map \cup {a.of}
        /\ r.warm.map[a.of] = o
        /\ \A i \in DOMAIN e.map : i # a.of => r.warm.map[i] = e.map[i]
        /\ r.warm.map \in Sessions
    BY <2>1, <2>2, <2>3, <2>4, PutHolds
  <2>7. a.of \notin DOMAIN sessions
    BY <1>1, <1>7
  <2> HIDE DEF r
  <2>8. r.id = a.of /\ r.warm = Put(e, a.of, o)
    BY <2>1
  <2>9. r.id # None
    BY <2>2, <2>8, WarmSessionsAssumption DEF Id
  <2>10. \A i \in DOMAIN r.warm.map :
              \/ i \in DOMAIN sessions /\ r.warm.map[i] = sessions[i]
              \/ i \notin DOMAIN sessions /\ r.warm.map[i].clean
    BY <2>3, <2>4, <2>6, <2>7
  <2>11. r.warm = [map |-> r.warm.map, order |-> r.warm.order]
    BY <2>5, <2>8
  <2>12. r.id \in DOMAIN r.warm.map /\ \A i \in DOMAIN sessions : ~sessions[i].clean => i \in DOMAIN r.warm.map
    BY <2>4, <2>6, <2>8
  <2> QED
    BY <2>6, <2>9, <2>10, <2>11, <2>12 DEF r
<1> QED
  BY <1>3, <1>4, <1>5, <1>6, <1>7

-----------------------------------------------------------------------------
(* Undoing a batch. *)

(* A nonempty set of positions has a first one: of the intervals up to     *)
(* them, one contains no other.                                            *)
LEMMA FirstIs ==
  ASSUME NEW n \in Nat, NEW S \in SUBSET (1..n), S # {}
  PROVE  Min(S) \in S /\ \A k \in S : Min(S) <= k
<1> DEFINE T == {1..k : k \in S}
           R == StrictSubsetOrdering(1..n)
<1>1. IsWellFoundedOn(R, SUBSET (1..n))
  <2>1. IsFiniteSet(1..n)
    BY FS_Interval
  <2>2. FiniteSubsetsOf(1..n) = SUBSET (1..n)
    BY <2>1, FS_FiniteSubsetsOfFinite
  <2> QED
    BY <2>2, FS_StrictSubsetOrderingWellFounded
<1>2. \A k \in S : 1..k \subseteq 1..n
  OBVIOUS
<1>3. T \subseteq SUBSET (1..n) /\ T # {}
  BY <1>2
<1>4. PICK X \in T : \A Y \in T : <<Y, X>> \notin R
  <2> HIDE DEF T, R
  <2> QED
    BY <1>1, <1>3, WFMin
<1>5. PICK x \in S : X = 1..x
  OBVIOUS
<1>6. ASSUME NEW y \in S, ~(x <= y)
      PROVE  FALSE
  <2>1. x \in 1..x /\ x \notin 1..y /\ 1..y \subseteq 1..x
    BY <1>6
  <2>2. 1..y \in T /\ 1..y \in SUBSET (1..n) /\ 1..x \in SUBSET (1..n)
    BY <1>2
  <2> QED
    BY <1>4, <1>5, <2>1, <2>2 DEF StrictSubsetOrdering
<1> QED
  BY <1>6 DEF Min

(* What a session was when the batch first came to it. *)
FirstMark(marks, i) == marks[Min(MarksOf(marks, i))]

LEMMA FirstMarkIs ==
  ASSUME NEW marks \in Seq(Mark), NEW i, MarksOf(marks, i) # {}
  PROVE  /\ Min(MarksOf(marks, i)) \in MarksOf(marks, i)
         /\ \A k \in MarksOf(marks, i) : Min(MarksOf(marks, i)) <= k
         /\ FirstMark(marks, i) \in Mark
         /\ FirstMark(marks, i).ws \in Workspace
<1>1. MarksOf(marks, i) \subseteq 1..Len(marks) /\ Len(marks) \in Nat
  BY DEF MarksOf
<1>2. /\ Min(MarksOf(marks, i)) \in MarksOf(marks, i)
      /\ \A k \in MarksOf(marks, i) : Min(MarksOf(marks, i)) <= k
  BY <1>1, FirstIs
<1>3. FirstMark(marks, i) \in Mark
  BY <1>1, <1>2 DEF FirstMark
<1> QED
  BY <1>2, <1>3 DEF Mark

(* A further mark is the first of its session only when there was none.    *)
LEMMA FurtherMark ==
  ASSUME NEW marks \in Seq(Mark), NEW m \in Mark, NEW i
  PROVE  LET more == Append(marks, m) IN
         /\ more \in Seq(Mark)
         /\ MarksOf(marks, i) # {} =>
              MarksOf(more, i) # {} /\ FirstMark(more, i) = FirstMark(marks, i)
         /\ MarksOf(marks, i) = {} /\ i = m.id =>
              MarksOf(more, i) # {} /\ FirstMark(more, i) = m
         /\ MarksOf(marks, i) = {} /\ i # m.id => MarksOf(more, i) = {}
<1> DEFINE more == Append(marks, m)
           n == Len(marks)
<1>1. /\ more \in Seq(Mark) /\ n \in Nat
      /\ DOMAIN marks = 1..n /\ DOMAIN more = 1..(n + 1)
      /\ \A k \in 1..n : more[k] = marks[k]
      /\ more[n + 1] = m
  BY AppendProperties
<1> HIDE DEF more, n
<1>2. MarksOf(more, i) = MarksOf(marks, i) \cup (IF i = m.id THEN {n + 1} ELSE {})
  BY <1>1 DEF MarksOf
<1>3. MarksOf(marks, i) \subseteq 1..n
  BY <1>1 DEF MarksOf
<1>4. CASE MarksOf(marks, i) # {}
  <2>1. /\ Min(MarksOf(marks, i)) \in 1..n
        /\ Min(MarksOf(marks, i)) \in MarksOf(marks, i)
        /\ \A k \in MarksOf(marks, i) : Min(MarksOf(marks, i)) <= k
    BY <1>3, <1>4, FirstMarkIs
  <2>2. /\ Min(MarksOf(more, i)) \in MarksOf(more, i)
        /\ \A k \in MarksOf(more, i) : Min(MarksOf(more, i)) <= k
    BY <1>1, <1>2, <1>4, FirstMarkIs
  <2> DEFINE a == Min(MarksOf(marks, i))
             b == Min(MarksOf(more, i))
  <2> HIDE DEF a, b
  <2>3. a \in 1..n /\ b <= a /\ b \in MarksOf(marks, i) \cup {n + 1}
    BY <1>2, <2>1, <2>2 DEF a, b
  <2>4. b # n + 1
    BY <1>1, <2>3
  <2>5. b \in 1..n /\ a <= b
    BY <1>3, <2>1, <2>3, <2>4 DEF a
  <2>6. a = b
    BY <1>1, <2>3, <2>5
  <2> QED
    BY <1>1, <1>2, <1>4, <2>1, <2>6 DEF FirstMark, more, a, b
<1>5. CASE MarksOf(marks, i) = {} /\ i = m.id
  <2>1. MarksOf(more, i) = {n + 1}
    BY <1>2, <1>5
  <2>2. Min(MarksOf(more, i)) \in MarksOf(more, i)
    BY <1>1, <2>1, FirstMarkIs
  <2> QED
    BY <1>1, <1>5, <2>1, <2>2 DEF FirstMark, more
<1>6. CASE MarksOf(marks, i) = {} /\ i # m.id
  BY <1>1, <1>2, <1>6 DEF more
<1> QED
  BY <1>1, <1>4, <1>5, <1>6 DEF more

(* roll_back_files takes every session still warm to its first mark.       *)
LEMMA UndoneHolds ==
  ASSUME NEW w, w.map \in Sessions, w = [map |-> w.map, order |-> w.order],
         NEW marks \in Seq(Mark)
  PROVE  LET u == Undone(w, marks).map IN
         /\ u \in Sessions
         /\ DOMAIN u = DOMAIN w.map
         /\ \A i \in DOMAIN u : u[i] = IF MarksOf(marks, i) = {} THEN w.map[i]
                                       ELSE FirstMark(marks, i).ws
<1> DEFINE u == [i \in DOMAIN w.map |-> IF MarksOf(marks, i) = {} THEN w.map[i]
                                        ELSE FirstMark(marks, i).ws]
<1>1. Undone(w, marks).map = u
  BY DEF Undone, FirstMark
<1>2. u \in Sessions
  <2>1. \A i \in DOMAIN w.map : u[i] \in Workspace
    BY FirstMarkIs, SessionsAre
  <2>2. u \in [DOMAIN w.map -> Workspace] /\ DOMAIN w.map \subseteq Id
    BY <2>1, SessionsAre
  <2> QED
    BY <2>2 DEF Sessions
<1> QED
  BY <1>1, <1>2

-----------------------------------------------------------------------------
(* What each call does to the map. *)

(* A warm map, as the record it is. *)
WarmMap(w) == w = [map |-> w.map, order |-> w.order] /\ w.map \in Sessions

(* Every session with unsaved edits is still there. *)
Spares(m) == \A i \in DOMAIN sessions : ~sessions[i].clean => i \in DOMAIN m

LEMMA NowWarm ==
  ASSUME Typed
  PROVE  WarmMap(Warm) /\ Warm.map = sessions
BY DEF Typed, WarmMap, Warm

LEMMA PutWarm ==
  ASSUME NEW w, WarmMap(w), NEW id \in Id, NEW ws \in Workspace
  PROVE  WarmMap(Put(w, id, ws))
<1>1. Put(w, id, ws) = [map |-> Put(w, id, ws).map, order |-> Put(w, id, ws).order]
  BY DEF Put
<1> QED
  BY <1>1, PutHolds DEF WarmMap

(* save_to writes at most the visited file, and is about one session.      *)
LEMMA SaveToHolds ==
  ASSUME Typed, NEW w, WarmMap(w), NEW id \in DOMAIN w.map, SaveTo(w, id)
  PROVE  /\ Typed'
         /\ DOMAIN sessions' = DOMAIN w.map
         /\ \A i \in DOMAIN w.map : i # id => sessions'[i] = w.map[i]
<1> DEFINE ws == w.map[id]
<1>1. ws \in Workspace
  BY SessionsAre DEF WarmMap
<1>2. CASE CanSave(ws)
  <2>1. ws.file \in File /\ ws.text \in Text
    BY <1>1, <1>2 DEF CanSave, Workspace
  <2>2. /\ clock' = clock + 1
        /\ disk' = [disk EXCEPT ![ws.file] = [text |-> ws.text, stamp |-> clock']]
        /\ sessions' = Set(w, id, [ws EXCEPT !.clean = TRUE, !.stamp = clock']).map
    BY <1>2 DEF SaveTo, Write, Become
  <2>3. clock' \in Nat /\ disk' \in [File -> [text : Text \cup {Absent}, stamp : Nat]]
    BY <2>1, <2>2 DEF Typed
  <2>4. [ws EXCEPT !.clean = TRUE, !.stamp = clock'] \in Workspace
    BY <1>1, <2>3 DEF Workspace
  <2>5. w \in [map : Sessions, order : {w.order}]
    BY DEF WarmMap
  <2> QED
    BY <2>2, <2>3, <2>4, <2>5, SetHolds DEF Typed
<1>3. CASE ~CanSave(ws)
  <2>1. Become(w) /\ UNCHANGED <<disk, clock>>
    BY <1>3 DEF SaveTo
  <2> QED
    BY <2>1 DEF Become, Typed, WarmMap
<1> QED
  BY <1>2, <1>3

LEMMA SaveVisitedHolds ==
  ASSUME Typed, NEW w, WarmMap(w), NEW id \in DOMAIN w.map, SaveVisited(w, id)
  PROVE  /\ Typed'
         /\ DOMAIN sessions' = DOMAIN w.map
         /\ \A i \in DOMAIN w.map : i # id => sessions'[i] = w.map[i]
<1> DEFINE v == IF CanSave(w.map[id]) THEN Put(w, id, w.map[id]) ELSE w
<1>1. w.map[id] \in Workspace /\ id \in Id
  BY SessionsAre DEF WarmMap
<1>2. WarmMap(v) /\ DOMAIN v.map = DOMAIN w.map /\ \A i \in DOMAIN w.map : i # id => v.map[i] = w.map[i]
  <2> DEFINE p == Put(w, id, w.map[id])
  <2>1. WarmMap(p)
    BY <1>1, PutWarm
  <2>2. DOMAIN p.map = DOMAIN w.map /\ \A i \in DOMAIN w.map : i # id => p.map[i] = w.map[i]
    <3>1. /\ DOMAIN p.map = DOMAIN w.map \cup {id}
          /\ \A i \in DOMAIN w.map : i # id => p.map[i] = w.map[i]
      BY <1>1, PutHolds
    <3> HIDE DEF p
    <3> QED
      BY <3>1
  <2> HIDE DEF p
  <2>3. v = p \/ v = w
    BY DEF p
  <2> HIDE DEF v
  <2> QED
    BY <2>1, <2>2, <2>3
<1>3. SaveTo(v, id)
  BY DEF SaveVisited
<1> HIDE DEF v
<1> QED
  BY <1>2, <1>3, SaveToHolds

(* The map and the disk after a call, in so far as no session with unsaved *)
(* edits may leave.                                                        *)
Kept == Typed' /\ Spares(sessions')

LEMMA BecomeKeeps ==
  ASSUME Typed, NEW w, WarmMap(w), Spares(w.map), Become(w), UNCHANGED <<disk, clock>>
  PROVE  Kept
BY DEF Become, Typed, WarmMap, Spares, Kept

LEMMA OpenKeeps ==
  ASSUME Typed, NEW id \in Id, NEW ws \in Workspace,
         Become(Put(EvictForRoom(Warm), id, ws)), UNCHANGED <<disk, clock>>
  PROVE  Kept
<1> DEFINE e == EvictForRoom(Warm)
<1>1. e.map \in Sessions /\ Spares(e.map) /\ e = [map |-> e.map, order |-> e.order]
  <2>1. e = [map |-> e.map, order |-> e.order]
    BY DEF EvictForRoom, Drop
  <2> QED
    BY <2>1, NowWarm, EvictKeeps DEF WarmMap, Spares
<1> HIDE DEF e
<1>2. WarmMap(Put(e, id, ws)) /\ Spares(Put(e, id, ws).map)
  BY <1>1, PutWarm, PutHolds DEF WarmMap, Spares
<1> QED
  BY <1>2, BecomeKeeps DEF e

(* The map a call resolved in. *)
LEMMA ResolvedKeeps ==
  ASSUME Typed, NEW a \in Address
  PROVE  LET r == Resolve(Warm, a) IN
         /\ WarmMap(r.warm) /\ Spares(r.warm.map)
         /\ r.id = None \/ r.id \in DOMAIN r.warm.map
         /\ r.id \in DOMAIN r.warm.map => r.id \in Id /\ r.warm.map[r.id] \in Workspace
<1> DEFINE r == Resolve(Warm, a)
<1>1. /\ r.warm.map \in Sessions
      /\ r.warm = [map |-> r.warm.map, order |-> r.warm.order]
      /\ r.id = None \/ r.id \in DOMAIN r.warm.map
      /\ Spares(r.warm.map)
  BY ResolveHolds DEF Spares
<1> HIDE DEF r
<1>2. r.id \in DOMAIN r.warm.map => r.id \in Id /\ r.warm.map[r.id] \in Workspace
  BY <1>1, SessionsAre
<1> QED
  BY <1>1, <1>2 DEF WarmMap, r

LEMMA EditKeeps ==
  ASSUME Typed, NEW a \in Address, NEW t \in Text, NEW save, Edit(a, t, save)
  PROVE  Kept
<1> DEFINE r == Resolve(Warm, a)
           served == Reread(r.warm.map[r.id])
           changed == t # served.text
           edited == [served EXCEPT !.text = t, !.clean = served.clean /\ ~changed]
           w == Put(r.warm, r.id, edited)
<1>1. /\ WarmMap(r.warm) /\ Spares(r.warm.map)
      /\ r.id = None \/ r.id \in DOMAIN r.warm.map
      /\ r.id \in DOMAIN r.warm.map => r.id \in Id /\ r.warm.map[r.id] \in Workspace
  BY ResolvedKeeps
<1>2. CASE r.id = None
  <2>1. Become(r.warm) /\ UNCHANGED <<disk, clock>>
    BY <1>2 DEF Edit
  <2> HIDE DEF r
  <2> QED
    BY <1>1, <2>1, BecomeKeeps
<1>3. CASE r.id # None
  <2>1. \/ Become(Put(r.warm, r.id, served)) /\ UNCHANGED <<disk, clock>>
        \/ SaveVisited(w, r.id)
        \/ Become(w) /\ UNCHANGED <<disk, clock>>
    BY <1>3 DEF Edit
  <2> HIDE DEF r
  <2>2. served \in Workspace
    BY <1>1, <1>3, RereadHolds
  <2> HIDE DEF served
  <2>3. edited \in Workspace
    BY <2>2 DEF Workspace
  <2> HIDE DEF edited
  <2>4. \A ws \in Workspace : WarmMap(Put(r.warm, r.id, ws)) /\ Spares(Put(r.warm, r.id, ws).map)
                              /\ r.id \in DOMAIN Put(r.warm, r.id, ws).map
    BY <1>1, <1>3, PutWarm, PutHolds DEF Spares
  <2>5. CASE SaveVisited(w, r.id)
    <3>1. Typed' /\ DOMAIN sessions' = DOMAIN w.map
      BY <2>3, <2>4, <2>5, SaveVisitedHolds
    <3> QED
      BY <2>3, <2>4, <3>1 DEF Kept, Spares
  <2> QED
    BY <2>1, <2>2, <2>3, <2>4, <2>5, BecomeKeeps
<1> QED
  BY <1>2, <1>3

LEMMA SaveBufferKeeps ==
  ASSUME Typed, NEW a \in Address, NEW to \in File \cup {None}, SaveBuffer(a, to)
  PROVE  Kept
<1> DEFINE r == Resolve(Warm, a)
           ws == r.warm.map[r.id]
<1>1. /\ WarmMap(r.warm) /\ Spares(r.warm.map)
      /\ r.id = None \/ r.id \in DOMAIN r.warm.map
      /\ r.id \in DOMAIN r.warm.map => r.id \in Id /\ ws \in Workspace
  BY ResolvedKeeps
<1>2. \/ Become(r.warm) /\ UNCHANGED <<disk, clock>>
      \/ /\ r.id # None
         /\ \/ Become(Set(r.warm, r.id, Reread(ws))) /\ UNCHANGED <<disk, clock>>
            \/ SaveVisited(r.warm, r.id)
            \/ SaveTo(r.warm, r.id)
            \/ to \in File /\ CopyTo(r.warm, r.id, to)
  BY DEF SaveBuffer
<1> HIDE DEF r
<1>3. CASE Become(r.warm) /\ UNCHANGED <<disk, clock>>
  BY <1>1, <1>3, BecomeKeeps
<1>5. ASSUME r.id # None, NEW some \in Workspace, Become(Set(r.warm, r.id, some)),
             clock' \in Nat, disk' \in [File -> [text : Text \cup {Absent}, stamp : Nat]]
      PROVE  Kept
  <2>1. r.warm \in [map : Sessions, order : {r.warm.order}] /\ r.id \in DOMAIN r.warm.map
    BY <1>1, <1>5 DEF WarmMap
  <2>2. DOMAIN sessions' = DOMAIN r.warm.map /\ sessions' \in Sessions
    BY <1>5, <2>1, SetHolds DEF Become
  <2> QED
    BY <1>1, <1>5, <2>2 DEF Kept, Spares, Typed
<1>6. CASE r.id # None /\ Become(Set(r.warm, r.id, Reread(ws))) /\ UNCHANGED <<disk, clock>>
  BY <1>1, <1>5, <1>6, RereadHolds DEF Typed
<1>7. CASE r.id # None /\ (SaveVisited(r.warm, r.id) \/ SaveTo(r.warm, r.id))
  <2>1. Typed' /\ DOMAIN sessions' = DOMAIN r.warm.map
    BY <1>1, <1>7, SaveVisitedHolds, SaveToHolds
  <2> QED
    BY <1>1, <2>1 DEF Kept, Spares
<1>8. CASE r.id # None /\ to \in File /\ CopyTo(r.warm, r.id, to)
  <2>1. ws.text \in Text /\ [ws EXCEPT !.clean = TRUE] \in Workspace
    BY <1>1, <1>8 DEF Workspace
  <2>2. ASSUME Write(to, ws.text)
        PROVE  clock' \in Nat /\ disk' \in [File -> [text : Text \cup {Absent}, stamp : Nat]]
    BY <1>8, <2>1, <2>2 DEF Write, Typed
  <2>3. CASE Write(to, ws.text) /\ Become(Set(r.warm, r.id, [ws EXCEPT !.clean = TRUE]))
    BY <1>5, <1>8, <2>1, <2>2, <2>3
  <2>4. CASE Write(to, ws.text) /\ Become(r.warm)
    BY <1>1, <2>2, <2>4 DEF Become, WarmMap, Kept, Typed, Spares
  <2>5. CASE Become(r.warm) /\ UNCHANGED <<disk, clock>>
    BY <1>1, <2>5, BecomeKeeps
  <2> QED
    BY <1>8, <2>3, <2>4, <2>5 DEF CopyTo
<1> QED
  BY <1>2, <1>3, <1>6, <1>7, <1>8

(* close_session takes its targets.                                        *)
LEMMA CloseHolds ==
  ASSUME Typed, NEW targets \in SUBSET Id, NEW force, Close(targets, force)
  PROVE  Typed' /\ \A i \in DOMAIN sessions : i \notin targets => i \in DOMAIN sessions'
<1> DEFINE m == [i \in DOMAIN sessions \ targets |-> sessions[i]]
<1>1. sessions' = m /\ UNCHANGED <<disk, clock>>
  BY DEF Close, Become, Drop, Warm
<1>2. m \in [DOMAIN sessions \ targets -> Workspace] /\ DOMAIN sessions \ targets \subseteq Id
  BY SessionsAre DEF Typed
<1>3. m \in Sessions
  BY <1>2 DEF Sessions
<1> QED
  BY <1>1, <1>3 DEF Typed

(* The calls between batches, but for close_session.                       *)
Serving ==
  \/ Outside
  \/ \E id \in Name, f \in File, ro \in BOOLEAN : OpenFile(id, f, ro)
  \/ \E id \in Name, t \in Text, ro \in BOOLEAN : OpenText(id, t, ro)
  \/ \E a \in Address, t \in Text, save \in {"always", "changed", "never"} : Edit(a, t, save)
  \/ \E a \in Address, to \in File \cup {None} : SaveBuffer(a, to)

LEMMA ServingKeeps ==
  ASSUME Typed, Serving
  PROVE  Kept
<1>1. CASE Outside
  <2>1. PICK f \in File, what \in [text : Text \cup {Absent}, stamp : Nat] :
          disk' = [disk EXCEPT ![f] = what]
    <3>1. clock' \in Nat /\ AbsentStamp \in Nat
      BY <1>1 DEF Outside, Typed, AbsentStamp
    <3> QED
      BY <1>1, <3>1 DEF Outside
  <2>2. disk' \in [File -> [text : Text \cup {Absent}, stamp : Nat]] /\ clock' \in Nat
    BY <1>1, <2>1 DEF Outside, Typed
  <2> QED
    BY <1>1, <2>2 DEF Outside, Typed, Kept, Spares
<1>2. ASSUME NEW id \in Name, NEW f \in File, NEW ro \in BOOLEAN, OpenFile(id, f, ro)
      PROVE  Kept
  <2> DEFINE ws == IF disk[f].text = Absent THEN [Opened(f, ro) EXCEPT !.text = "other"] ELSE Opened(f, ro)
  <2>1. Become(Put(EvictForRoom(Warm), id, ws)) /\ UNCHANGED <<disk, clock>>
    BY <1>2 DEF OpenFile
  <2>2. ws \in Workspace /\ id \in Id
    BY OpenedType DEF Id
  <2> HIDE DEF ws
  <2> QED
    BY <2>1, <2>2, OpenKeeps
<1>3. ASSUME NEW id \in Name, NEW t \in Text, NEW ro \in BOOLEAN, OpenText(id, t, ro)
      PROVE  Kept
  <2> DEFINE ws == [file |-> None, text |-> t, clean |-> TRUE, stamp |-> 0, ro |-> ro]
  <2>1. Become(Put(EvictForRoom(Warm), id, ws)) /\ UNCHANGED <<disk, clock>>
    BY <1>3 DEF OpenText
  <2>2. ws \in Workspace /\ id \in Id
    BY DEF Workspace, Id
  <2> HIDE DEF ws
  <2> QED
    BY <2>1, <2>2, OpenKeeps
<1> QED
  BY <1>1, <1>2, <1>3, EditKeeps, SaveBufferKeeps DEF Serving

-----------------------------------------------------------------------------
(* A batch under way. *)

(* A session that had unsaved edits when the batch began.                  *)
HadEdits(found, i) == i \in DOMAIN found /\ ~found[i].clean

(* Rolled back, map m is what was found: a session that had unsaved edits  *)
(* is there and has them, and goes back to them; any other one goes back   *)
(* to a clean text.                                                        *)
Undoable(m, found, marks) ==
  \A i \in Id :
    IF HadEdits(found, i)
    THEN /\ i \in DOMAIN m /\ ~m[i].clean
         /\ found[i] = IF MarksOf(marks, i) = {} THEN m[i] ELSE FirstMark(marks, i).ws
    ELSE /\ MarksOf(marks, i) # {} => FirstMark(marks, i).ws.clean
         /\ MarksOf(marks, i) = {} /\ i \in DOMAIN m => m[i].clean

(* The sessions the batch changed are there, unsaved, each changed once.   *)
EditsHeld(m, done) ==
  /\ \A k \in DOMAIN done : done[k].changed => done[k].id \in DOMAIN m /\ ~m[done[k].id].clean
  /\ \A j, k \in DOMAIN done : j # k /\ done[j].changed /\ done[k].changed => done[j].id # done[k].id

(* What a batch changed once it does not change again.                     *)
EditsMade(m, done) ==
  \A k \in DOMAIN done : done[k].changed => m[done[k].id].text = "new"

BatchInv ==
  batch # None =>
    /\ batch \in BatchType
    /\ EditsHeld(sessions, batch.done)
    /\ batch.phase = "edit" => /\ EditsMade(sessions, batch.done)
                               /\ Undoable(sessions, batch.found, batch.marks)

Inv == Typed /\ BatchInv

(* Finding the next file's session keeps the batch undoable.               *)
LEMMA ResolveUndoable ==
  ASSUME Typed, NEW a \in Address, NEW found \in Sessions, NEW marks \in Seq(Mark),
         Undoable(sessions, found, marks)
  PROVE  Undoable(Resolve(Warm, a).warm.map, found, marks)
<1> DEFINE m == Resolve(Warm, a).warm.map
<1>1. /\ \A i \in DOMAIN sessions : ~sessions[i].clean => i \in DOMAIN m
      /\ \A i \in DOMAIN m :
           \/ i \in DOMAIN sessions /\ m[i] = sessions[i]
           \/ i \notin DOMAIN sessions /\ m[i].clean
  BY ResolveHolds
<1> HIDE DEF m
<1>2. Undoable(m, found, marks)
  BY <1>1 DEF Undoable
<1> QED
  BY <1>2 DEF m

(* So does marking a session and editing it.                               *)
LEMMA MarkUndoable ==
  ASSUME Typed, NEW m \in Sessions, NEW found \in Sessions, NEW marks \in Seq(Mark),
         Undoable(m, found, marks), NEW id \in DOMAIN m,
         NEW next \in Sessions, DOMAIN next = DOMAIN m,
         \A i \in DOMAIN m : i # id => next[i] = m[i],
         ~m[id].clean => ~next[id].clean
  PROVE  Undoable(next, found, Append(marks, [id |-> id, ws |-> Reread(m[id])]))
<1> DEFINE mark == [id |-> id, ws |-> Reread(m[id])]
           more == Append(marks, mark)
<1>1. m[id] \in Workspace /\ id \in Id
  BY SessionsAre
<1>2. mark \in Mark /\ mark.id = id /\ mark.ws = Reread(m[id])
  BY <1>1, RereadHolds DEF Mark
<1>3. mark.ws.clean = m[id].clean /\ (~m[id].clean => mark.ws = m[id])
  BY <1>1, <1>2, RereadHolds
<1> HIDE DEF mark
<1>4. \A i \in Id :
         /\ MarksOf(marks, i) # {} =>
              MarksOf(more, i) # {} /\ FirstMark(more, i) = FirstMark(marks, i)
         /\ MarksOf(marks, i) = {} /\ i = mark.id =>
              MarksOf(more, i) # {} /\ FirstMark(more, i) = mark
         /\ MarksOf(marks, i) = {} /\ i # mark.id => MarksOf(more, i) = {}
  BY <1>2, FurtherMark
<1> HIDE DEF more
<1>5. ASSUME NEW i \in Id, HadEdits(found, i)
      PROVE  /\ i \in DOMAIN next /\ ~next[i].clean
             /\ found[i] = IF MarksOf(more, i) = {} THEN next[i] ELSE FirstMark(more, i).ws
  <2>1. /\ i \in DOMAIN m /\ ~m[i].clean
        /\ found[i] = IF MarksOf(marks, i) = {} THEN m[i] ELSE FirstMark(marks, i).ws
    BY <1>5 DEF Undoable
  <2>2. i \in DOMAIN next /\ ~next[i].clean
    BY <2>1
  <2>3. CASE MarksOf(marks, i) # {}
    BY <1>4, <2>1, <2>2, <2>3
  <2>4. CASE MarksOf(marks, i) = {} /\ i = id
    BY <1>2, <1>3, <1>4, <2>1, <2>2, <2>4
  <2>5. CASE MarksOf(marks, i) = {} /\ i # id
    BY <1>2, <1>4, <2>1, <2>2, <2>5
  <2> QED
    BY <2>3, <2>4, <2>5
<1>6. ASSUME NEW i \in Id, ~HadEdits(found, i)
      PROVE  /\ MarksOf(more, i) # {} => FirstMark(more, i).ws.clean
             /\ MarksOf(more, i) = {} /\ i \in DOMAIN next => next[i].clean
  <2>1. /\ MarksOf(marks, i) # {} => FirstMark(marks, i).ws.clean
        /\ MarksOf(marks, i) = {} /\ i \in DOMAIN m => m[i].clean
    BY <1>6 DEF Undoable
  <2>2. CASE MarksOf(marks, i) # {}
    BY <1>4, <2>1, <2>2
  <2>3. CASE MarksOf(marks, i) = {} /\ i = id
    BY <1>2, <1>3, <1>4, <2>1, <2>3
  <2>4. CASE MarksOf(marks, i) = {} /\ i # id
    BY <1>2, <1>4, <2>1, <2>4
  <2> QED
    BY <2>2, <2>3, <2>4
<1>7. Undoable(next, found, more)
  BY <1>5, <1>6 DEF Undoable
<1> QED
  BY <1>7 DEF more, mark

(* roll_back_files gives every session back what it had.                   *)
PutBack(found) ==
  \A i \in DOMAIN found \cup DOMAIN sessions' :
    IF i \in DOMAIN found /\ ~found[i].clean
    THEN i \in DOMAIN sessions' /\ sessions'[i] = found[i]
    ELSE i \in DOMAIN sessions' => sessions'[i].clean

LEMMA GiveUpHolds ==
  ASSUME Typed, NEW w, WarmMap(w), NEW marks \in Seq(Mark), NEW found \in Sessions,
         GiveUp(w, marks), UNCHANGED <<disk, clock>>
  PROVE  /\ Typed' /\ batch' = None
         /\ DOMAIN sessions' = DOMAIN w.map
         /\ Undoable(w.map, found, marks) => PutBack(found)
<1> DEFINE u == Undone(w, marks).map
<1>1. /\ u \in Sessions
      /\ DOMAIN u = DOMAIN w.map
      /\ \A i \in DOMAIN u : u[i] = IF MarksOf(marks, i) = {} THEN w.map[i]
                                    ELSE FirstMark(marks, i).ws
  BY UndoneHolds DEF WarmMap
<1>2. sessions' = u /\ batch' = None
  BY DEF GiveUp, Become
<1> HIDE DEF u
<1>3. DOMAIN u \subseteq Id /\ DOMAIN found \subseteq Id
  BY <1>1, SessionsAre
<1>4. Undoable(w.map, found, marks) => PutBack(found)
  BY <1>1, <1>2, <1>3 DEF Undoable, HadEdits, PutBack
<1> QED
  BY <1>1, <1>2, <1>4 DEF Typed

-----------------------------------------------------------------------------
(* The steps of a batch. *)

(* What EditNext found and made.                                           *)
Named == Resolve(Warm, [by |-> "path", of |-> Head(batch.todo)])
Read == Reread(Named.warm.map[Named.id])
WillChange == Replaced(Read.text) # Read.text
Edited == [Read EXCEPT !.text = Replaced(Read.text), !.clean = Read.clean /\ ~WillChange]
Marked == Append(batch.marks, [id |-> Named.id, ws |-> Read])

LEMMA NamedHolds ==
  ASSUME Inv, batch # None, batch.phase = "edit", batch.todo # <<>>
  PROVE  /\ WarmMap(Named.warm)
         /\ Undoable(Named.warm.map, batch.found, batch.marks)
         /\ \A i \in DOMAIN sessions : ~sessions[i].clean =>
              i \in DOMAIN Named.warm.map /\ Named.warm.map[i] = sessions[i]
         /\ Named.id # None =>
              /\ Named.id \in DOMAIN Named.warm.map /\ Named.id \in Id
              /\ Named.warm.map[Named.id] \in Workspace
              /\ Read \in Workspace /\ Edited \in Workspace
              /\ Marked \in Seq(Mark)
<1> DEFINE a == [by |-> "path", of |-> Head(batch.todo)]
<1>1. a \in Address
  BY DEF Inv, BatchInv, BatchType, Address
<1>2. Named = Resolve(Warm, a)
  BY DEF Named
<1> HIDE DEF a
<1>3. /\ batch.found \in Sessions /\ batch.marks \in Seq(Mark)
      /\ Undoable(sessions, batch.found, batch.marks) /\ Typed
  BY DEF Inv, BatchInv, BatchType
<1>4. WarmMap(Named.warm) /\ Undoable(Named.warm.map, batch.found, batch.marks)
  BY <1>1, <1>2, <1>3, ResolveUndoable, ResolvedKeeps
<1>5. \A i \in DOMAIN sessions : ~sessions[i].clean =>
        i \in DOMAIN Named.warm.map /\ Named.warm.map[i] = sessions[i]
  BY <1>1, <1>2, <1>3, ResolveHolds
<1>6. ASSUME Named.id # None
      PROVE  /\ Named.id \in DOMAIN Named.warm.map /\ Named.id \in Id
             /\ Named.warm.map[Named.id] \in Workspace
  BY <1>1, <1>2, <1>3, <1>6, ResolvedKeeps
<1>7. ASSUME Named.id # None
      PROVE  Read \in Workspace
  BY <1>3, <1>6, <1>7, RereadHolds DEF Read
<1>8. ASSUME Named.id # None
      PROVE  Edited \in Workspace /\ Marked \in Seq(Mark)
  <2>1. Edited \in Workspace
    BY <1>7, <1>8 DEF Edited, Workspace, Replaced, Text
  <2>2. [id |-> Named.id, ws |-> Read] \in Mark
    BY <1>6, <1>7, <1>8 DEF Mark
  <2> QED
    BY <1>3, <2>1, <2>2, AppendProperties DEF Marked
<1> QED
  BY <1>4, <1>5, <1>6, <1>7, <1>8

(* What EditNext does, by cases.                                           *)
LEMMA EditNextDoes ==
  ASSUME Inv, EditNext
  PROVE  /\ batch # None /\ batch.phase = "edit" /\ batch.todo # <<>>
         /\ UNCHANGED <<disk, clock>>
         /\ \/ Named.id = None /\ GiveUp(Named.warm, batch.marks)
            \/ Named.id # None /\ GiveUp(Put(Named.warm, Named.id, Read), Marked)
            \/ /\ Named.id # None /\ Read.text # "other"
               /\ Become(Put(Named.warm, Named.id, Edited))
               /\ batch' = [batch EXCEPT
                    !.todo = Tail(batch.todo),
                    !.marks = Marked,
                    !.done = Append(batch.done, [id |-> Named.id, changed |-> WillChange])]
BY DEF EditNext, Named, Read, Marked, Edited, WillChange

(* Putting the marked session back in the map, with or without an edit.    *)
LEMMA PutUndoable ==
  ASSUME Inv, batch # None, batch.phase = "edit", batch.todo # <<>>, Named.id # None,
         NEW ws \in Workspace, ~Read.clean => ~ws.clean
  PROVE  LET next == Put(Named.warm, Named.id, ws) IN
         /\ WarmMap(next)
         /\ DOMAIN next.map = DOMAIN Named.warm.map
         /\ next.map[Named.id] = ws
         /\ \A i \in DOMAIN Named.warm.map : i # Named.id => next.map[i] = Named.warm.map[i]
         /\ Undoable(next.map, batch.found, Marked)
<1> DEFINE m == Named.warm.map
           next == Put(Named.warm, Named.id, ws)
<1>1. /\ WarmMap(Named.warm)
      /\ Undoable(m, batch.found, batch.marks)
      /\ Named.id \in DOMAIN m /\ Named.id \in Id
      /\ m[Named.id] \in Workspace
  BY NamedHolds
<1>2. /\ batch.found \in Sessions /\ batch.marks \in Seq(Mark) /\ Typed
  BY DEF Inv, BatchInv, BatchType
<1>3. WarmMap(next)
  BY <1>1, PutWarm
<1>4. /\ DOMAIN next.map = DOMAIN m
      /\ next.map[Named.id] = ws
      /\ \A i \in DOMAIN m : i # Named.id => next.map[i] = m[i]
  <2>1. DOMAIN next.map = DOMAIN m \cup {Named.id}
    BY PutHolds
  <2>2. /\ next.map[Named.id] = ws
        /\ \A i \in DOMAIN m : i # Named.id => next.map[i] = m[i]
    BY PutHolds
  <2> HIDE DEF next, m
  <2> QED
    BY <1>1, <2>1, <2>2
<1>5. ~m[Named.id].clean => ~next.map[Named.id].clean
  BY <1>1, <1>2, <1>4, RereadHolds DEF Read
<1>6. m \in Sessions /\ next.map \in Sessions
  BY <1>1, <1>3 DEF WarmMap
<1>7. Marked = Append(batch.marks, [id |-> Named.id, ws |-> Reread(m[Named.id])])
  BY DEF Marked, Read
<1>8. Undoable(next.map, batch.found, Marked)
  <2> HIDE DEF next, m
  <2> QED
    BY <1>1, <1>2, <1>4, <1>5, <1>6, <1>7, MarkUndoable
<1> QED
  BY <1>3, <1>4, <1>8

(* The roll-back of a batch that meets a file it cannot edit. *)
LEMMA EditGivesUp ==
  ASSUME Inv, EditNext, ~Become(Put(Named.warm, Named.id, Edited)) \/ batch' = None
  PROVE  Typed' /\ Spares(sessions') /\ PutBack(batch.found) /\ batch' = None
<1>1. /\ batch # None /\ batch.phase = "edit" /\ batch.todo # <<>>
      /\ UNCHANGED <<disk, clock>>
  BY EditNextDoes
<1>2. /\ batch.found \in Sessions /\ batch.marks \in Seq(Mark) /\ Typed
      /\ batch \in BatchType
  BY <1>1 DEF Inv, BatchInv, BatchType
<1>3. /\ WarmMap(Named.warm)
      /\ Undoable(Named.warm.map, batch.found, batch.marks)
      /\ \A i \in DOMAIN sessions : ~sessions[i].clean => i \in DOMAIN Named.warm.map
  BY <1>1, NamedHolds
<1>4. CASE Named.id = None /\ GiveUp(Named.warm, batch.marks)
  BY <1>1, <1>2, <1>3, <1>4, GiveUpHolds DEF Spares
<1>5. CASE Named.id # None /\ GiveUp(Put(Named.warm, Named.id, Read), Marked)
  <2> DEFINE next == Put(Named.warm, Named.id, Read)
  <2>1. Read \in Workspace /\ Marked \in Seq(Mark)
    BY <1>1, <1>5, NamedHolds
  <2>2. /\ WarmMap(next)
        /\ DOMAIN next.map = DOMAIN Named.warm.map
        /\ Undoable(next.map, batch.found, Marked)
    BY <1>1, <1>5, <2>1, PutUndoable
  <2> HIDE DEF next
  <2>3. GiveUp(next, Marked)
    BY <1>5 DEF next
  <2> QED
    BY <1>1, <1>2, <1>3, <2>1, <2>2, <2>3, GiveUpHolds DEF Spares
<1>6. ASSUME Named.id # None, batch' = [batch EXCEPT
             !.todo = Tail(batch.todo),
             !.marks = Marked,
             !.done = Append(batch.done, [id |-> Named.id, changed |-> WillChange])]
      PROVE  batch' # None
  <2>1. Marked \in Seq(Mark) /\ Tail(batch.todo) \in Seq(File)
    BY <1>1, <1>2, <1>6, NamedHolds DEF BatchType
  <2>2. [id |-> Named.id, changed |-> WillChange] \in Done
    BY <1>1, <1>6, NamedHolds DEF Done, WillChange
  <2>3. Append(batch.done, [id |-> Named.id, changed |-> WillChange]) \in Seq(Done)
    BY <1>2, <2>2, AppendProperties DEF BatchType
  <2>4. batch' \in BatchType
    BY <1>2, <1>6, <2>1, <2>3 DEF BatchType
  <2> QED
    BY <2>4, NoBatchAssumption
<1> QED
  BY <1>4, <1>5, <1>6, EditNextDoes

(* A step of the edits that goes on: the batch stays undoable, and what it *)
(* changed before is not changed again, for its text is "new" by now.      *)
LEMMA EditGoesOn ==
  ASSUME Inv, EditNext, Become(Put(Named.warm, Named.id, Edited)), batch' # None
  PROVE  Typed' /\ BatchInv' /\ Spares(sessions')
<1>1. /\ batch # None /\ batch.phase = "edit" /\ batch.todo # <<>>
      /\ UNCHANGED <<disk, clock>>
      /\ Named.id # None /\ Read.text # "other"
      /\ batch' = [batch EXCEPT
                     !.todo = Tail(batch.todo),
                     !.marks = Marked,
                     !.done = Append(batch.done, [id |-> Named.id, changed |-> WillChange])]
  <2>1. ASSUME NEW w, NEW marks, GiveUp(w, marks)
        PROVE  batch' = None
    BY <2>1 DEF GiveUp
  <2> QED
    BY <2>1, EditNextDoes
<1>2. /\ batch \in BatchType /\ Typed
      /\ EditsHeld(sessions, batch.done) /\ EditsMade(sessions, batch.done)
  BY <1>1 DEF Inv, BatchInv
<1>3. /\ \A i \in DOMAIN sessions : ~sessions[i].clean =>
           i \in DOMAIN Named.warm.map /\ Named.warm.map[i] = sessions[i]
      /\ Named.id \in DOMAIN Named.warm.map /\ Named.id \in Id
      /\ Named.warm.map[Named.id] \in Workspace
      /\ Read \in Workspace /\ Edited \in Workspace
      /\ Marked \in Seq(Mark)
  BY <1>1, NamedHolds
<1> DEFINE next == Put(Named.warm, Named.id, Edited)
           d == [id |-> Named.id, changed |-> WillChange]
           more == Append(batch.done, d)
           n == Len(batch.done)
<1>4. /\ Edited.clean = (Read.clean /\ ~WillChange)
      /\ Edited.text = Replaced(Read.text)
  BY <1>3 DEF Edited, Workspace
<1>5. /\ WarmMap(next)
      /\ DOMAIN next.map = DOMAIN Named.warm.map
      /\ next.map[Named.id] = Edited
      /\ \A i \in DOMAIN Named.warm.map : i # Named.id => next.map[i] = Named.warm.map[i]
      /\ Undoable(next.map, batch.found, Marked)
  <2>1. ~Read.clean => ~Edited.clean
    BY <1>4
  <2> QED
    BY <1>1, <1>3, <2>1, PutUndoable
<1>6. sessions' = next.map
  BY DEF Become
<1> HIDE DEF next
<1>7. Typed' /\ Spares(sessions')
  BY <1>1, <1>2, <1>3, <1>5, <1>6 DEF Typed, WarmMap, Spares
<1>8. /\ d \in Done /\ more \in Seq(Done) /\ n \in Nat
      /\ DOMAIN batch.done = 1..n /\ DOMAIN more = 1..(n + 1)
      /\ \A k \in 1..n : more[k] = batch.done[k]
      /\ more[n + 1] = d
  <2>1. d \in Done
    BY <1>3 DEF Done, WillChange
  <2> HIDE DEF d
  <2> QED
    BY <1>2, <2>1, AppendProperties DEF BatchType
<1>9. /\ batch' \in BatchType
      /\ batch'.done = more /\ batch'.marks = Marked /\ batch'.found = batch.found
      /\ batch'.phase = "edit"
  <2> HIDE DEF more
  <2>1. batch' = [batch EXCEPT !.todo = Tail(batch.todo), !.marks = Marked, !.done = more]
    BY <1>1 DEF more
  <2>2. Tail(batch.todo) \in Seq(File)
    BY <1>1, <1>2 DEF BatchType
  <2> QED
    BY <1>1, <1>2, <1>3, <1>8, <2>1, <2>2 DEF BatchType
<1>10. /\ d.id = Named.id /\ d.changed = WillChange
  OBVIOUS
<1>11. Read = Reread(Named.warm.map[Named.id])
  BY DEF Read
<1> HIDE DEF d, more, n
<1>12. ASSUME NEW k \in 1..n, batch.done[k].changed
       PROVE  /\ batch.done[k].id \in DOMAIN sessions'
              /\ ~sessions'[batch.done[k].id].clean
              /\ sessions'[batch.done[k].id].text = "new"
              /\ WillChange => batch.done[k].id # Named.id
  <2> DEFINE i == batch.done[k].id
  <2>1. i \in DOMAIN sessions /\ ~sessions[i].clean /\ sessions[i].text = "new"
    BY <1>2, <1>8, <1>12 DEF EditsHeld, EditsMade
  <2> HIDE DEF i
  <2>2. i \in DOMAIN next.map /\ Named.warm.map[i] = sessions[i] /\ i \in DOMAIN Named.warm.map
    BY <1>3, <1>5, <2>1
  <2>3. CASE i # Named.id
    BY <1>5, <1>6, <2>1, <2>2, <2>3 DEF i
  <2>4. CASE i = Named.id
    <3>1. Read = sessions[i]
      BY <1>2, <1>3, <1>11, <2>1, <2>2, <2>4, RereadHolds
    <3>2. ~Edited.clean /\ Edited.text = "new" /\ ~WillChange
      BY <1>4, <2>1, <3>1 DEF Replaced, WillChange
    <3> QED
      BY <1>5, <1>6, <2>2, <2>4, <3>2 DEF i
  <2> QED
    BY <2>3, <2>4
<1>13. ASSUME WillChange
       PROVE  /\ Named.id \in DOMAIN sessions'
              /\ ~sessions'[Named.id].clean
              /\ sessions'[Named.id].text = "new"
  <2>1. Replaced(Read.text) = "new"
    BY <1>13 DEF WillChange, Replaced
  <2> QED
    BY <1>3, <1>4, <1>5, <1>6, <1>13, <2>1
<1>14. EditsHeld(sessions', more) /\ EditsMade(sessions', more)
  <2>1. \A k \in DOMAIN more : k \in 1..n \/ k = n + 1
    BY <1>8
  <2>2. \A k \in DOMAIN more : more[k].changed =>
          /\ more[k].id \in DOMAIN sessions' /\ ~sessions'[more[k].id].clean
          /\ sessions'[more[k].id].text = "new"
    BY <1>8, <1>10, <1>12, <1>13, <2>1
  <2>3. ASSUME NEW j \in DOMAIN more, NEW k \in DOMAIN more, j # k, more[j].changed, more[k].changed
        PROVE  more[j].id # more[k].id
    <3>1. CASE j \in 1..n /\ k \in 1..n
      BY <1>2, <1>8, <2>3, <3>1 DEF EditsHeld
    <3>2. CASE j \in 1..n /\ k = n + 1
      BY <1>8, <1>10, <1>12, <2>3, <3>2
    <3>3. CASE k \in 1..n /\ j = n + 1
      BY <1>8, <1>10, <1>12, <2>3, <3>3
    <3> QED
      BY <2>1, <2>3, <3>1, <3>2, <3>3
  <2> QED
    BY <2>2, <2>3 DEF EditsHeld, EditsMade
<1>15. BatchInv'
  BY <1>5, <1>6, <1>9, <1>14 DEF BatchInv
<1> QED
  BY <1>7, <1>15

(* The end of the edits: they are undone, saved or left held.              *)
LEMMA EndEditsHolds ==
  ASSUME Inv, EndEdits
  PROVE  /\ Typed' /\ BatchInv' /\ Spares(sessions')
         /\ GivesUp => PutBack(batch.found)
<1>1. /\ batch # None /\ batch.phase = "edit" /\ batch.todo = <<>>
      /\ UNCHANGED <<disk, clock>>
      /\ \/ GiveUp(Warm, batch.marks)
         \/ /\ batch.mode # "rehearse"
            /\ batch' = IF batch.mode = "save" THEN [batch EXCEPT !.phase = "save"] ELSE None
            /\ UNCHANGED <<sessions, recency>>
  BY DEF EndEdits
<1>2. /\ batch \in BatchType /\ Typed /\ EditsHeld(sessions, batch.done)
      /\ Undoable(sessions, batch.found, batch.marks)
  BY <1>1 DEF Inv, BatchInv
<1>3. /\ batch.found \in Sessions /\ batch.marks \in Seq(Mark) /\ batch.mode \in Mode
  BY <1>2 DEF BatchType
<1>4. CASE GiveUp(Warm, batch.marks)
  <2>1. /\ Typed' /\ batch' = None /\ DOMAIN sessions' = DOMAIN sessions
        /\ PutBack(batch.found)
    BY <1>1, <1>2, <1>3, <1>4, NowWarm, GiveUpHolds
  <2> QED
    BY <2>1 DEF Spares, BatchInv
<1>5. CASE /\ batch.mode = "save" /\ batch' = [batch EXCEPT !.phase = "save"]
           /\ UNCHANGED sessions
  <2>1. batch' \in BatchType /\ batch'.done = batch.done /\ batch'.phase = "save"
    BY <1>2, <1>5 DEF BatchType
  <2>2. batch' # None
    BY <2>1, NoBatchAssumption
  <2> QED
    BY <1>1, <1>2, <1>5, <2>1, <2>2 DEF Typed, BatchInv, Spares, GivesUp
<1>6. CASE /\ batch.mode = "hold" /\ batch' = None /\ UNCHANGED sessions
  BY <1>1, <1>2, <1>6 DEF Typed, BatchInv, Spares, GivesUp
<1> QED
  BY <1>1, <1>3, <1>4, <1>5, <1>6 DEF Mode

(* A save of the batch writes one changed session; the others to come stay *)
(* unsaved.                                                                *)
LEMMA SaveNextHolds ==
  ASSUME Inv, SaveNext
  PROVE  Typed' /\ BatchInv' /\ Spares(sessions')
<1> DEFINE d == Head(batch.done)
           n == Len(batch.done)
<1>1. /\ batch # None /\ batch.phase = "save" /\ batch.done # <<>>
      /\ \/ /\ d.id \notin DOMAIN sessions \/ ~d.changed
            /\ batch' = [batch EXCEPT !.done = Tail(batch.done)]
            /\ UNCHANGED <<disk, clock, sessions, recency>>
         \/ /\ d.id \in DOMAIN sessions /\ d.changed
            /\ SaveVisited(Warm, d.id)
            /\ \/ batch' = None
               \/ batch' = [batch EXCEPT !.done = Tail(batch.done)]
  BY DEF SaveNext
<1>2. /\ batch \in BatchType /\ Typed /\ EditsHeld(sessions, batch.done)
  BY <1>1 DEF Inv, BatchInv
<1>3. /\ n \in Nat /\ DOMAIN batch.done = 1..n /\ 1 \in 1..n /\ d = batch.done[1]
      /\ Tail(batch.done) \in Seq(Done)
      /\ DOMAIN Tail(batch.done) = 1..(n - 1)
      /\ \A k \in 1..(n - 1) : k + 1 \in 1..n /\ k + 1 # 1 /\ Tail(batch.done)[k] = batch.done[k + 1]
  BY <1>1, <1>2, HeadTailProperties DEF BatchType
<1>4. ASSUME batch' = [batch EXCEPT !.done = Tail(batch.done)],
             \A k \in 1..n : k # 1 /\ batch.done[k].changed =>
               batch.done[k].id \in DOMAIN sessions' /\ ~sessions'[batch.done[k].id].clean
      PROVE  BatchInv'
  <2>1. batch' \in BatchType /\ batch'.done = Tail(batch.done) /\ batch'.phase = "save"
    BY <1>1, <1>2, <1>3, <1>4 DEF BatchType
  <2>2. EditsHeld(sessions', Tail(batch.done))
    <3> DEFINE t == Tail(batch.done)
    <3>1. \A k \in DOMAIN t : t[k].changed => t[k].id \in DOMAIN sessions' /\ ~sessions'[t[k].id].clean
      BY <1>3, <1>4
    <3>2. \A j, k \in DOMAIN t : j # k /\ t[j].changed /\ t[k].changed => t[j].id # t[k].id
      <4> SUFFICES ASSUME NEW j \in 1..(n - 1), NEW k \in 1..(n - 1), j # k,
                          t[j].changed, t[k].changed
                   PROVE  t[j].id # t[k].id
        BY <1>3
      <4>1. j + 1 \in 1..n /\ k + 1 \in 1..n /\ j + 1 # k + 1
        BY <1>3
      <4>2. t[j] = batch.done[j + 1] /\ t[k] = batch.done[k + 1]
        BY <1>3
      <4> QED
        BY <1>2, <1>3, <4>1, <4>2 DEF EditsHeld
    <3> QED
      BY <3>1, <3>2 DEF EditsHeld
  <2> QED
    BY <2>1, <2>2 DEF BatchInv
<1> HIDE DEF d, n
<1>5. CASE /\ batch' = [batch EXCEPT !.done = Tail(batch.done)]
           /\ UNCHANGED <<disk, clock, sessions, recency>>
  <2>1. BatchInv'
    BY <1>2, <1>3, <1>4, <1>5 DEF EditsHeld
  <2> QED
    BY <1>2, <1>5, <2>1 DEF Typed, Spares
<1>6. CASE /\ d.id \in DOMAIN sessions /\ d.changed /\ SaveVisited(Warm, d.id)
           /\ batch' = None \/ batch' = [batch EXCEPT !.done = Tail(batch.done)]
  <2>1. /\ Typed' /\ DOMAIN sessions' = DOMAIN sessions
        /\ \A i \in DOMAIN sessions : i # d.id => sessions'[i] = sessions[i]
    BY <1>2, <1>6, NowWarm, SaveVisitedHolds
  <2>2. \A k \in 1..n : k # 1 /\ batch.done[k].changed =>
           batch.done[k].id \in DOMAIN sessions' /\ ~sessions'[batch.done[k].id].clean
    BY <1>2, <1>3, <1>6, <2>1 DEF EditsHeld
  <2>3. BatchInv'
    <3>1. CASE batch' = None
      BY <3>1 DEF BatchInv
    <3>2. CASE batch' = [batch EXCEPT !.done = Tail(batch.done)]
      BY <1>4, <2>2, <3>2
    <3> QED
      BY <1>6, <3>1, <3>2
  <2> QED
    BY <2>1, <2>3 DEF Spares
<1> QED
  BY <1>1, <1>5, <1>6

(* A batch begins undoable, having changed nothing.                        *)
LEMMA BeginBatchHolds ==
  ASSUME Inv, NEW files \in Batches, NEW mode \in Mode, BeginBatch(files, mode)
  PROVE  Typed' /\ BatchInv' /\ Spares(sessions')
<1>1. /\ batch' = [todo |-> files, mode |-> mode, phase |-> "edit",
                   done |-> <<>>, marks |-> <<>>, found |-> sessions]
      /\ UNCHANGED <<disk, clock, sessions, recency>> /\ Typed
  BY DEF BeginBatch, Inv
<1>2. files \in Seq(File)
  BY DEF Batches
<1>3. batch' \in BatchType
  BY <1>1, <1>2 DEF BatchType, Typed
<1>4. /\ batch'.done = <<>> /\ batch'.marks = <<>> /\ batch'.found = sessions
      /\ batch'.phase = "edit"
  BY <1>1
<1>5. EditsHeld(sessions, <<>>) /\ EditsMade(sessions, <<>>)
  BY DEF EditsHeld, EditsMade
<1>6. \A i : MarksOf(<<>>, i) = {}
  BY DEF MarksOf
<1>7. Undoable(sessions, sessions, <<>>)
  BY <1>6, SessionsAre DEF Undoable, HadEdits, Typed
<1> QED
  BY <1>1, <1>3, <1>4, <1>5, <1>7 DEF Typed, BatchInv, Spares

-----------------------------------------------------------------------------
(* The steps that close no session keep the invariant, and every session   *)
(* with unsaved edits.                                                     *)
LEMMA StepHolds ==
  ASSUME Inv,
         \/ Serving \/ Batch \/ UNCHANGED vars
         \/ \E files \in Batches, mode \in Mode : BeginBatch(files, mode)
  PROVE  Inv' /\ Spares(sessions') /\ (GivesUp => PutBack(batch.found))
<1>1. CASE Serving
  <2>1. batch' = batch /\ (sessions' = sessions \/ batch = None)
    BY <1>1 DEF Serving, Outside, OpenFile, OpenText, Edit, SaveBuffer
  <2>2. Kept
    BY <1>1, ServingKeeps DEF Inv
  <2> QED
    BY <2>1, <2>2 DEF Inv, BatchInv, Kept, GivesUp
<1>2. CASE EditNext
  <2>1. CASE Become(Put(Named.warm, Named.id, Edited)) /\ batch' # None
    BY <1>2, <2>1, EditGoesOn DEF Inv, GivesUp
  <2>2. CASE ~Become(Put(Named.warm, Named.id, Edited)) \/ batch' = None
    BY <1>2, <2>2, EditGivesUp DEF Inv, BatchInv
  <2> QED
    BY <2>1, <2>2
<1>3. CASE EndEdits
  BY <1>3, EndEditsHolds DEF Inv
<1>4. CASE SaveNext
  <2>1. ~GivesUp
    BY <1>4 DEF SaveNext, GivesUp
  <2> QED
    BY <1>4, <2>1, SaveNextHolds DEF Inv
<1>5. CASE EndBatch
  BY <1>5 DEF EndBatch, Inv, Typed, BatchInv, Spares, GivesUp
<1>6. CASE \E files \in Batches, mode \in Mode : BeginBatch(files, mode)
  <2>1. ~GivesUp
    BY <1>6 DEF BeginBatch, GivesUp
  <2> QED
    BY <1>6, <2>1, BeginBatchHolds DEF Inv
<1>7. CASE UNCHANGED vars
  BY <1>7 DEF vars, Inv, Typed, BatchInv, Spares, GivesUp
<1> QED
  BY <1>1, <1>2, <1>3, <1>4, <1>5, <1>6, <1>7 DEF Batch

LEMMA CloseKeeps ==
  ASSUME Inv, NEW targets \in SUBSET Id, NEW force \in BOOLEAN, Close(targets, force)
  PROVE  Inv' /\ ~GivesUp
BY CloseHolds DEF Close, Inv, BatchInv, GivesUp

LEMMA NextHolds ==
  ASSUME Inv, [Next]_vars
  PROVE  /\ Inv'
         /\ GivesUp => PutBack(batch.found)
         /\ \/ Spares(sessions')
            \/ \E targets \in SUBSET Id, force \in BOOLEAN : Close(targets, force)
BY StepHolds, CloseKeeps DEF Next, Serving

LEMMA InitHolds ==
  ASSUME Init
  PROVE  Inv
<1>1. disk \in [File -> [text : Text \cup {Absent}, stamp : Nat]]
  <2>1. [text : Text, stamp : {1}] \cup [text : {Absent}, stamp : {AbsentStamp}]
          \subseteq [text : Text \cup {Absent}, stamp : Nat]
    BY DEF AbsentStamp
  <2> QED
    BY <2>1 DEF Init
<1>2. sessions \in Sessions
  <2>1. sessions \in [{} -> Workspace]
    BY DEF Init
  <2> QED
    BY <2>1 DEF Sessions
<1> QED
  BY <1>1, <1>2 DEF Init, Inv, Typed, BatchInv

(* What the warm sessions are, and what a batch under way can still take   *)
(* back, in every reachable state: the inductive invariant.                *)
THEOREM WarmSessionsInvariant == Spec => []Inv
<1>1. Init => Inv
  BY InitHolds
<1>2. Inv /\ [Next]_vars => Inv'
  BY NextHolds
<1> QED
  BY <1>1, <1>2, PTL DEF Spec

(* For every cap: opening files never costs edits.  A session with unsaved *)
(* edits leaves the map only when the client closes it by name             *)
(* (evict_for_room takes clean ones; no open, edit, save or batch drops    *)
(* another).                                                               *)
THEOREM OpeningCostsNoEdits == Spec => EvictionSparesEdits
<1>1. Inv /\ [Next]_vars =>
        [\A i \in Id : Unsaved(i) /\ Gone(i) =>
           \E targets \in SUBSET Id, force \in BOOLEAN :
             i \in targets /\ Close(targets, force)]_vars
  <2> SUFFICES ASSUME Inv, [Next]_vars, NEW i \in Id, Unsaved(i), Gone(i)
               PROVE  \E targets \in SUBSET Id, force \in BOOLEAN :
                        i \in targets /\ Close(targets, force)
    OBVIOUS
  <2>1. ~Spares(sessions')
    BY DEF Unsaved, Gone, Spares
  <2>2. PICK targets \in SUBSET Id, force \in BOOLEAN : Close(targets, force)
    BY <2>1, NextHolds
  <2>3. i \in targets
    BY <2>2, CloseHolds DEF Inv, Unsaved, Gone
  <2> QED
    BY <2>2, <2>3
<1> QED
  BY <1>1, WarmSessionsInvariant, PTL DEF Spec, EvictionSparesEdits

(* For every cap and every length of a batch: one that gives up puts every *)
(* session with unsaved edits back as it was, though its own opens evicted *)
(* others meanwhile, and one that saves still holds every edit it made     *)
(* (tool_replace_files, roll_back_files).                                  *)
THEOREM BatchesAllOrNothing == Spec => BatchesAreWhole
<1>1. Inv => BatchLosesNoFile
  <2> SUFFICES ASSUME Inv, batch # None, batch.phase = "save",
                      NEW k \in DOMAIN batch.done, batch.done[k].changed
               PROVE  Unsaved(batch.done[k].id)
    BY DEF BatchLosesNoFile
  <2> QED
    BY DEF Inv, BatchInv, EditsHeld, Unsaved
<1>2. Inv /\ [Next]_vars =>
        [GivesUp =>
           /\ disk' = disk
           /\ \A i \in DOMAIN batch.found \cup DOMAIN sessions' :
                IF i \in DOMAIN batch.found /\ ~batch.found[i].clean
                THEN i \in DOMAIN sessions' /\ sessions'[i] = batch.found[i]
                ELSE i \in DOMAIN sessions' => sessions'[i].clean]_vars
  <2> SUFFICES ASSUME Inv, [Next]_vars, GivesUp
               PROVE  disk' = disk /\ PutBack(batch.found)
    BY DEF PutBack
  <2>1. disk' = disk
    BY DEF GivesUp, Next, Batch, Outside, OpenFile, OpenText, Edit, SaveBuffer, Close,
           BeginBatch, EditNext, EndEdits, SaveNext, EndBatch, vars
  <2> QED
    BY <2>1, NextHolds
<1> QED
  BY <1>1, <1>2, WarmSessionsInvariant, PTL DEF Spec, BatchesAreWhole, BatchUndoesEverything
=============================================================================
