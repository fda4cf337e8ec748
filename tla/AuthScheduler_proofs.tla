------------------------ MODULE AuthScheduler_proofs ------------------------
(***************************************************************************)
(* Proofs about AuthScheduler: its type invariant, that its indexes agree  *)
(* with its entries, that an entry is only ready while its credential is   *)
(* unblocked, and from these that every answer a request gets is right;    *)
(* and, about AuthSchedulerRotation, that no ready credential is passed    *)
(* over for longer than one full rotation, of its own view or of the pool  *)
(* of a mixed request.                                                     *)
(***************************************************************************)
EXTENDS AuthSchedulerRotation, FiniteSetTheorems, WellFoundedInduction, TLAPS

-----------------------------------------------------------------------------
(* Views. *)

LEMMA AuthFinite == \A S \in SUBSET Auth : IsFiniteSet(S)
  BY OrderedIDs, FS_Subset

LEMMA RankType ==
  ASSUME NEW S, IsFiniteSet(S), NEW x
  PROVE  Rank(S, x) \in Nat
<1>1. {y \in S : y < x} \subseteq S
  OBVIOUS
<1>2. IsFiniteSet({y \in S : y < x})
  BY <1>1, FS_Subset
<1> QED
  BY <1>2, FS_CardinalityType DEF Rank

LEMMA ModNat ==
  ASSUME NEW c \in Nat, NEW n \in Nat \ {0}
  PROVE  c % n \in Nat
  OBVIOUS

LEMMA NormalizeType ==
  ASSUME NEW c \in Nat, NEW S, IsFiniteSet(S)
  PROVE  Normalize(c, Cardinality(S)) \in Nat
<1>1. Cardinality(S) \in Nat
  BY FS_CardinalityType
<1> QED
  BY <1>1, ModNat DEF Normalize

LEMMA ParentsFinite ==
  ASSUME NEW view \in View
  PROVE  IsFiniteSet(Parents(view))
<1>1. IsFiniteSet(view.flat)
  BY AuthFinite DEF View
<1> DEFINE f == [a \in view.flat |-> view.parent[a]]
<1>2. f \in Surjection(view.flat, Parents(view))
  BY DEF Parents, Surjection
<1> QED
  BY <1>1, <1>2, FS_Surjection

LEMMA MembersFinite ==
  ASSUME NEW view \in View, NEW g
  PROVE  IsFiniteSet(Members(view, g))
  BY AuthFinite DEF View, Members

LEMMA EmptyViewType == EmptyView \in View
  BY DEF EmptyView, View

(* A rebuilt view is a view of just the members it was built of. *)
LEMMA BuildReadyViewOK ==
  ASSUME NEW S \in SUBSET Auth, NEW parent, \A a \in S : parent[a] \in Parent \cup {NoParent},
         NEW old \in View
  PROVE  /\ BuildReadyView(S, parent, old) \in View
         /\ BuildReadyView(S, parent, old).flat = S
         /\ BuildReadyView(S, parent, old).parent =
               [a \in Auth |-> IF a \in S THEN parent[a] ELSE NoParent]
<1> DEFINE groups == [a \in Auth |-> IF a \in S THEN parent[a] ELSE NoParent]
           fresh == [EmptyView EXCEPT !.flat = S, !.parent = groups]
           cursor == Normalize(old.cursor, Cardinality(S))
           parentCursor == IF Grouped(fresh)
                           THEN Normalize(old.parentCursor, Cardinality(Parents(fresh)))
                           ELSE 0
           childCursor == [g \in Parent |->
                             IF Grouped(fresh) /\ Grouped(old)
                             THEN Normalize(old.childCursor[g], Cardinality(Members(fresh, g)))
                             ELSE 0]
<1>1. groups \in [Auth -> Parent \cup {NoParent}]
  OBVIOUS
<1>2. fresh \in View /\ fresh.flat = S /\ fresh.parent = groups
  BY <1>1, EmptyViewType DEF View, EmptyView
<1>3. cursor \in Nat
  BY NormalizeType, AuthFinite DEF View
<1>4. parentCursor \in Nat
  BY <1>2, NormalizeType, ParentsFinite DEF View
<1>5. childCursor \in [Parent -> Nat]
  <2>1. ASSUME NEW g \in Parent
        PROVE  Normalize(old.childCursor[g], Cardinality(Members(fresh, g))) \in Nat
    <3>1. old.childCursor[g] \in Nat
      BY DEF View
    <3>2. IsFiniteSet(Members(fresh, g))
      BY <1>2, MembersFinite
    <3> QED
      BY <3>1, <3>2, NormalizeType
  <2> QED
    BY <2>1
<1>6. BuildReadyView(S, parent, old) =
        [fresh EXCEPT !.cursor = cursor, !.parentCursor = parentCursor,
                      !.childCursor = childCursor]
  BY DEF BuildReadyView
<1> HIDE DEF fresh, groups, cursor, parentCursor, childCursor
<1>7. [fresh EXCEPT !.cursor = cursor, !.parentCursor = parentCursor,
                    !.childCursor = childCursor] \in View
  BY <1>2, <1>3, <1>4, <1>5 DEF View
<1>8. [fresh EXCEPT !.cursor = cursor, !.parentCursor = parentCursor,
                    !.childCursor = childCursor].flat = fresh.flat
  BY <1>2 DEF View
<1>9. [fresh EXCEPT !.cursor = cursor, !.parentCursor = parentCursor,
                    !.childCursor = childCursor].parent = fresh.parent
  BY <1>2 DEF View
<1> QED
  BY <1>2, <1>6, <1>7, <1>8, <1>9 DEF groups

(* Picking moves only the cursors of a view. *)
LEMMA AfterPickOK ==
  ASSUME NEW view \in View, NEW a
  PROVE  /\ AfterPick(view, a) \in View
         /\ AfterPick(view, a).flat = view.flat
         /\ AfterPick(view, a).parent = view.parent
<1> DEFINE g == view.parent[a]
<1>1. Rank(Parents(view), g) + 1 \in Nat
  BY ParentsFinite, RankType
<1>2. Rank(Members(view, g), a) + 1 \in Nat
  BY MembersFinite, RankType
<1>3. Rank(view.flat, a) + 1 \in Nat
  BY AuthFinite, RankType DEF View
<1> QED
  BY <1>1, <1>2, <1>3 DEF AfterPick, View

-----------------------------------------------------------------------------
(* Entries and shards. *)

Held == [Auth -> Snapshots \cup {NoSnapshot}]
Views == [Priority -> [all: View, ws: View]]

LEMMA SnapshotType ==
  ASSUME NEW s \in Snapshots
  PROVE  /\ s \in Snapshot
         /\ s.parent \in Parent \cup {NoParent}
         /\ \A m \in Model : s.states[m] \in ModelState
  BY SnapshotsTyped DEF Snapshot

LEMMA HeldType ==
  ASSUME NEW held \in Held, NEW a \in Auth, held[a] # NoSnapshot
  PROVE  held[a] \in Snapshots
  BY DEF Held

(* Evaluating a snapshot gives an entry that is there, and one that is     *)
(* ready only if the snapshot is unblocked.                                *)
LEMMA EvaluateOK ==
  ASSUME NEW s \in Snapshots, NEW m \in Model, NEW t \in Time
  PROVE  /\ Evaluate(s, m, t) \in Entry
         /\ Evaluate(s, m, t).state = BlockState(s, m, t)
         /\ Evaluate(s, m, t).state \in Indexed
         /\ Evaluate(s, m, t) # Absent
         /\ Evaluate(s, m, t).state \in {"cooldown", "blocked"} =>
               /\ Evaluate(s, m, t).nextRetryAt \in
                     {s.states[m].nextRetryAfter, s.states[m].nextRecoverAt} \ {0}
               /\ Evaluate(s, m, t).nextRetryAt > t
               /\ s.states[m].unavailable
<1>1. s.states[m] \in ModelState
  BY SnapshotType
<1>2. s.states[m].nextRetryAfter \in Time /\ s.states[m].nextRecoverAt \in Time
  BY <1>1 DEF ModelState
<1>3. Time \subseteq Nat /\ 0 \in Time
  BY MaxTimeIsNat DEF Time
<1>4. BlockState(s, m, t) \in Indexed
  BY DEF BlockState, Indexed
<1>5. BlockNext(s, m, t) \in Time
  BY <1>2, <1>3 DEF BlockNext
<1>6. BlockState(s, m, t) \in {"cooldown", "blocked"} =>
        /\ BlockNext(s, m, t) \in {s.states[m].nextRetryAfter, s.states[m].nextRecoverAt} \ {0}
        /\ BlockNext(s, m, t) > t
        /\ s.states[m].unavailable
  BY <1>2, <1>3 DEF BlockNext, BlockState
<1> QED
  BY <1>4, <1>5, <1>6 DEF Evaluate, Entry, Absent, Indexed

(* Time only ever unblocks a snapshot. *)
LEMMA BlockStateMonotone ==
  ASSUME NEW s \in Snapshots, NEW m \in Model, NEW t \in Time, t + 1 \in Time
  PROVE  /\ BlockState(s, m, t) = "ready" => BlockState(s, m, t + 1) = "ready"
         /\ BlockState(s, m, t) = "disabled" => BlockState(s, m, t + 1) = "disabled"
<1>1. s.states[m] \in ModelState
  BY SnapshotType
<1> QED
  BY <1>1, MaxTimeIsNat DEF ModelState, Time, BlockState

(* An entry only waits while its snapshot says it is unavailable, be the   *)
(* time it is to come back past or not.                                    *)
ShardWaits(held, m, shard) ==
    \A a \in Auth : shard.entries[a].state \in {"cooldown", "blocked"} =>
        held[a].states[m].unavailable

(* What a shard must be for the snapshots its provider holds. *)
ShardOK(held, m, shard, t) ==
    /\ shard \in Shard
    /\ \A a \in Auth : shard.entries[a].state = "absent" => shard.entries[a] = Absent
    /\ ShardIndexed(held, m, shard)
    /\ ShardUnblocked(held, m, shard, t)
    /\ ShardTimed(held, m, shard, t)
    /\ ShardWaits(held, m, shard)

(* The same of its entries alone. *)
EntriesOK(held, m, entries, t) ==
    /\ entries \in [Auth -> Entry]
    /\ \A a \in Auth :
          /\ entries[a] # Absent <=> held[a] # NoSnapshot /\ Supports(held[a], m)
          /\ entries[a].state = "absent" => entries[a] = Absent
          /\ entries[a].state = "ready" => BlockState(held[a], m, t) = "ready"
          /\ entries[a].state \in {"cooldown", "blocked"} =>
                /\ entries[a].nextRetryAt \in {held[a].states[m].nextRetryAfter,
                                               held[a].states[m].nextRecoverAt} \ {0}
                /\ held[a].states[m].unavailable
          /\ entries[a].state = "disabled" => BlockState(held[a], m, t) = "disabled"

(* A rebuild turns good entries into a good shard. *)
LEMMA RebuildOK ==
  ASSUME NEW held \in Held, NEW m \in Model, NEW entries, NEW old \in Views,
         EntriesOK(held, m, entries, now)
  PROVE  ShardOK(held, m, Rebuild(held, entries, old), now)
<1> DEFINE shard == Rebuild(held, entries, old)
           ready(pr) == ReadyAt(held, entries, pr)
           ws(pr) == {a \in ready(pr) : held[a].websocket}
           parent(pr) == [a \in ready(pr) |-> held[a].parent]
<1>1. shard.entries = entries
  BY DEF Rebuild
<1>2. shard.blocked = {a \in Auth : entries[a].state \in {"cooldown", "blocked"}}
  BY DEF Rebuild
<1>3. ASSUME NEW pr \in Priority
      PROVE  /\ shard.views[pr].all \in View /\ shard.views[pr].ws \in View
             /\ shard.views[pr] = [all |-> shard.views[pr].all, ws |-> shard.views[pr].ws]
             /\ Indexes(held, shard.views[pr].all, ready(pr))
             /\ Indexes(held, shard.views[pr].ws, ws(pr))
  <2>1. shard.views[pr] = [all |-> BuildReadyView(ready(pr), parent(pr), old[pr].all),
                           ws  |-> BuildReadyView(ws(pr), parent(pr), old[pr].ws)]
    BY DEF Rebuild
  <2>2. \A a \in ready(pr) : parent(pr)[a] \in Parent \cup {NoParent}
    <3>1. ASSUME NEW a \in ready(pr) PROVE held[a] \in Snapshots
      <4>1. a \in Auth /\ entries[a].state = "ready"
        BY DEF ReadyAt
      <4>2. entries[a] # Absent
        BY <4>1 DEF Absent
      <4> QED
        BY <4>1, <4>2, HeldType DEF EntriesOK
    <3> QED
      BY <3>1, SnapshotType
  <2>3. ready(pr) \in SUBSET Auth /\ ws(pr) \in SUBSET Auth /\ ws(pr) \subseteq ready(pr)
    BY DEF ReadyAt
  <2>4. old[pr].all \in View /\ old[pr].ws \in View
    BY DEF Views
  <2>5. /\ shard.views[pr].all \in View
        /\ shard.views[pr].all.flat = ready(pr)
        /\ shard.views[pr].all.parent =
             [a \in Auth |-> IF a \in ready(pr) THEN parent(pr)[a] ELSE NoParent]
    <3> HIDE DEF shard, ready, ws, parent
    <3> QED
      BY <2>1, <2>2, <2>3, <2>4, BuildReadyViewOK
  <2>6. /\ shard.views[pr].ws \in View
        /\ shard.views[pr].ws.flat = ws(pr)
        /\ shard.views[pr].ws.parent =
             [a \in Auth |-> IF a \in ws(pr) THEN parent(pr)[a] ELSE NoParent]
    <3> HIDE DEF shard, ready, ws, parent
    <3> QED
      BY <2>1, <2>2, <2>3, <2>4, BuildReadyViewOK
  <2> QED
    BY <2>1, <2>5, <2>6, <2>3 DEF Indexes
<1>4. shard \in Shard
  <2>1. shard = [entries |-> shard.entries, blocked |-> shard.blocked, views |-> shard.views]
    BY DEF Rebuild
  <2>2. shard.views \in [Priority -> [all: View, ws: View]]
    <3>1. shard.views = [pr \in Priority |-> shard.views[pr]]
      BY DEF Rebuild
    <3> HIDE DEF shard, ready, ws
    <3>2. \A pr \in Priority : shard.views[pr] \in [all: View, ws: View]
      <4> SUFFICES ASSUME NEW pr \in Priority
                   PROVE  shard.views[pr] \in [all: View, ws: View]
        OBVIOUS
      <4>1. /\ shard.views[pr].all \in View /\ shard.views[pr].ws \in View
            /\ shard.views[pr] = [all |-> shard.views[pr].all, ws |-> shard.views[pr].ws]
        BY <1>3
      <4> QED
        BY <4>1
    <3> QED
      BY <3>1, <3>2
  <2> HIDE DEF shard
  <2>3. shard.entries \in [Auth -> Entry] /\ shard.blocked \in SUBSET Auth
    BY <1>1, <1>2 DEF EntriesOK
  <2> QED
    BY <2>1, <2>2, <2>3 DEF Shard
<1> HIDE DEF shard
<1>5. ShardIndexed(held, m, shard)
  BY <1>1, <1>2, <1>3 DEF ShardIndexed, EntriesOK
<1>6. /\ ShardUnblocked(held, m, shard, now) /\ ShardTimed(held, m, shard, now)
      /\ ShardWaits(held, m, shard)
  BY <1>1 DEF ShardUnblocked, ShardTimed, ShardWaits, EntriesOK
<1>7. \A a \in Auth : shard.entries[a].state = "absent" => shard.entries[a] = Absent
  BY <1>1 DEF EntriesOK
<1> QED
  BY <1>4, <1>5, <1>6, <1>7 DEF ShardOK, shard

LEMMA ShardEntriesOK ==
  ASSUME NEW held, NEW m, NEW shard, ShardOK(held, m, shard, now)
  PROVE  /\ EntriesOK(held, m, shard.entries, now)
         /\ shard.views \in Views
  BY DEF ShardOK, Shard, ShardIndexed, ShardUnblocked, ShardTimed, ShardWaits, EntriesOK, Views

(* The first shard of a model. *)
LEMMA BuildShardOK ==
  ASSUME NEW held \in Held, NEW m \in Model, now \in Time
  PROVE  ShardOK(held, m, BuildShard(held, m), now)
<1> DEFINE entries == [a \in Auth |-> IF held[a] # NoSnapshot /\ Supports(held[a], m)
                                      THEN Evaluate(held[a], m, now)
                                      ELSE Absent]
<1>1. Absent \in Entry
  BY MaxTimeIsNat DEF Absent, Entry, Time
<1>2. EntriesOK(held, m, entries, now)
  <2>1. ASSUME NEW a \in Auth, held[a] # NoSnapshot, Supports(held[a], m)
        PROVE  /\ entries[a] = Evaluate(held[a], m, now)
               /\ held[a] \in Snapshots
    BY <2>1, HeldType
  <2>2. ASSUME NEW a \in Auth, ~(held[a] # NoSnapshot /\ Supports(held[a], m))
        PROVE  entries[a] = Absent
    BY <2>2
  <2>3. entries \in [Auth -> Entry]
    BY <1>1, <2>1, EvaluateOK
  <2> HIDE DEF entries
  <2> QED
    BY <2>1, <2>2, <2>3, EvaluateOK DEF EntriesOK, Absent, Indexed
<1>3. NoViews \in Views
  BY EmptyViewType DEF NoViews, Views
<1> HIDE DEF entries
<1>4. BuildShard(held, m) = Rebuild(held, entries, NoViews)
  BY DEF BuildShard, entries
<1> QED
  BY <1>2, <1>3, <1>4, RebuildOK

(* A removal, when the provider gives a up or gets a snapshot of a that    *)
(* does not serve the model of the shard.                                  *)
LEMMA RemoveEntryOK ==
  ASSUME NEW held \in Held, NEW m \in Model, NEW shard, NEW a \in Auth,
         ShardOK(held, m, shard, now), now \in Time,
         NEW without \in Held, \A b \in Auth : b # a => without[b] = held[b],
         without[a] = NoSnapshot \/ ~Supports(without[a], m)
  PROVE  ShardOK(without, m, RemoveEntry(without, shard, a), now)
<1> DEFINE entries == [shard.entries EXCEPT ![a] = Absent]
<1>2. EntriesOK(held, m, shard.entries, now) /\ shard.views \in Views
  BY ShardEntriesOK
<1>3. CASE shard.entries[a] = Absent
  <2>1. RemoveEntry(without, shard, a) = shard
    BY <1>3 DEF RemoveEntry
  <2>2. EntriesOK(without, m, shard.entries, now)
    BY <1>2, <1>3 DEF EntriesOK, Held, Absent
  <2>3. \A pr \in Priority : ReadyAt(without, shard.entries, pr) =
                               ReadyAt(held, shard.entries, pr)
    BY <1>3 DEF ReadyAt, Absent, Held
  <2>4. \A pr \in Priority : a \notin ReadyAt(held, shard.entries, pr)
    BY <1>3 DEF ReadyAt, Absent
  <2>5. ShardIndexed(without, m, shard)
    <3>2. ASSUME NEW pr \in Priority
          PROVE  LET ready == ReadyAt(without, shard.entries, pr)
                 IN  /\ Indexes(without, shard.views[pr].all, ready)
                     /\ Indexes(without, shard.views[pr].ws,
                                 {b \in ready : without[b].websocket})
      <4> DEFINE ready == ReadyAt(held, shard.entries, pr)
      <4>1. /\ Indexes(held, shard.views[pr].all, ready)
            /\ Indexes(held, shard.views[pr].ws, {b \in ready : held[b].websocket})
        BY DEF ShardOK, ShardIndexed
      <4>2. a \notin ready /\ ready \subseteq Auth
        BY <2>4 DEF ReadyAt
      <4>3. {b \in ready : held[b].websocket} = {b \in ready : without[b].websocket}
        BY <4>2
      <4> HIDE DEF ready
      <4>4. Indexes(without, shard.views[pr].all, ready)
        BY <4>1, <4>2 DEF Indexes
      <4>5. Indexes(without, shard.views[pr].ws, {b \in ready : without[b].websocket})
        BY <4>1, <4>2, <4>3 DEF Indexes
      <4> QED
        BY <2>3, <4>4, <4>5 DEF ready
    <3> QED
      BY <2>2, <3>2 DEF ShardOK, ShardIndexed, EntriesOK
  <2> QED
    BY <2>1, <2>2, <2>5 DEF ShardOK, EntriesOK, ShardUnblocked, ShardTimed, ShardWaits
<1>4. CASE shard.entries[a] # Absent
  <2>1. RemoveEntry(without, shard, a) = Rebuild(without, entries, shard.views)
    BY <1>4 DEF RemoveEntry
  <2>2. Absent \in Entry
    BY MaxTimeIsNat DEF Absent, Entry, Time
  <2>3. EntriesOK(without, m, entries, now)
    BY <1>2, <2>2 DEF EntriesOK, Held, Absent
  <2> QED
    BY <1>2, <2>1, <2>3, RebuildOK
<1> QED
  BY <1>3, <1>4

(* An upsert into a shard, whether or not it skips the rebuild. *)
LEMMA UpsertEntryOK ==
  ASSUME NEW held \in Held, NEW m \in Model, NEW shard, NEW a \in Auth, NEW s \in Snapshots,
         ShardOK(held, m, shard, now), Supports(s, m), now \in Time
  PROVE  ShardOK([held EXCEPT ![a] = s], m,
                 UpsertEntry([held EXCEPT ![a] = s], shard, a, held[a], s, m), now)
<1> DEFINE with == [held EXCEPT ![a] = s]
           entries == [shard.entries EXCEPT ![a] = Evaluate(s, m, now)]
           result == UpsertEntry(with, shard, a, held[a], s, m)
           prev == held[a]
           same == /\ shard.entries[a] = entries[a]
                   /\ <<prev.priority, prev.parent, prev.websocket>> =
                      <<s.priority, s.parent, s.websocket>>
<1>1. with \in Held /\ with[a] = s /\ \A b \in Auth : b # a => with[b] = held[b]
  BY DEF Held
<1>2. EntriesOK(held, m, shard.entries, now) /\ shard.views \in Views
  BY ShardEntriesOK
<1>3. s # NoSnapshot
  BY SnapshotType, NullsFresh
<1>4. entries \in [Auth -> Entry] /\ entries[a] = Evaluate(s, m, now)
  BY <1>2, EvaluateOK DEF EntriesOK
<1>5. EntriesOK(with, m, entries, now)
  <2>1. \A b \in Auth : b # a => entries[b] = shard.entries[b]
    BY <1>2 DEF EntriesOK
  <2> HIDE DEF entries, with
  <2> QED
    BY <1>1, <1>2, <1>3, <1>4, <2>1, EvaluateOK DEF EntriesOK, Indexed
<1>6. CASE same
  <2>1. entries = shard.entries
    BY <1>2, <1>6 DEF EntriesOK
  <2>2. result = [shard EXCEPT !.entries = entries]
    BY <1>6 DEF UpsertEntry
  <2>3. result = shard
    BY <2>1, <2>2 DEF ShardOK, Shard
  <2>4. \A pr \in Priority : ReadyAt(with, shard.entries, pr) = ReadyAt(held, shard.entries, pr)
    BY <1>1, <1>6 DEF ReadyAt
  <2>5. \A b \in Auth : with[b].parent = held[b].parent /\ with[b].websocket = held[b].websocket
    BY <1>1, <1>6
  <2>6. ASSUME NEW pr \in Priority
        PROVE  LET ready == ReadyAt(with, shard.entries, pr)
               IN  /\ Indexes(with, shard.views[pr].all, ready)
                   /\ Indexes(with, shard.views[pr].ws, {b \in ready : with[b].websocket})
    <3> DEFINE ready == ReadyAt(held, shard.entries, pr)
    <3>1. /\ Indexes(held, shard.views[pr].all, ready)
          /\ Indexes(held, shard.views[pr].ws, {b \in ready : held[b].websocket})
      BY DEF ShardOK, ShardIndexed
    <3>2. ready \subseteq Auth
      BY DEF ReadyAt
    <3>3. {b \in ready : held[b].websocket} = {b \in ready : with[b].websocket}
      BY <2>5, <3>2
    <3> HIDE DEF ready, with
    <3>4. Indexes(with, shard.views[pr].all, ready)
      BY <2>5, <3>1, <3>2 DEF Indexes
    <3>5. Indexes(with, shard.views[pr].ws, {b \in ready : with[b].websocket})
      BY <2>5, <3>1, <3>2, <3>3 DEF Indexes
    <3> QED
      BY <2>4, <3>4, <3>5 DEF ready
  <2> HIDE DEF with, entries, result
  <2>7. ShardIndexed(with, m, shard)
    BY <1>5, <2>1, <2>6 DEF ShardOK, ShardIndexed, EntriesOK
  <2> QED
    BY <1>5, <2>1, <2>3, <2>7
       DEF with, result, ShardOK, EntriesOK, ShardUnblocked, ShardTimed, ShardWaits
<1>7. CASE ~same
  <2>1. result = Rebuild(with, entries, shard.views)
    BY <1>7 DEF UpsertEntry
  <2> HIDE DEF entries, same
  <2> QED
    BY <1>1, <1>2, <1>5, <2>1, RebuildOK
<1> QED
  BY <1>6, <1>7

(* The promotion at the start of a request. *)
LEMMA PromoteExpiredOK ==
  ASSUME NEW held \in Held, NEW m \in Model, NEW shard,
         ShardOK(held, m, shard, now), now \in Time
  PROVE  ShardOK(held, m, PromoteExpired(held, shard, m), now)
<1> DEFINE entries == [a \in Auth |-> IF a \in Due(shard) THEN Evaluate(held[a], m, now)
                                      ELSE shard.entries[a]]
<1>1. EntriesOK(held, m, shard.entries, now) /\ shard.views \in Views
  BY ShardEntriesOK
<1>2. ASSUME NEW a \in Due(shard)
      PROVE  /\ a \in Auth
             /\ held[a] # NoSnapshot /\ Supports(held[a], m)
             /\ held[a] \in Snapshots
  <2>1. a \in Auth /\ shard.entries[a] # Absent
    BY DEF Due, ShardOK, ShardIndexed, Absent
  <2> QED
    BY <1>1, <2>1, HeldType DEF EntriesOK
<1>3. EntriesOK(held, m, entries, now)
  <2>1. \A a \in Auth : /\ a \in Due(shard) => entries[a] = Evaluate(held[a], m, now)
                        /\ a \notin Due(shard) => entries[a] = shard.entries[a]
    OBVIOUS
  <2>2. entries \in [Auth -> Entry]
    BY <1>1, <1>2, EvaluateOK DEF EntriesOK
  <2> HIDE DEF entries
  <2> QED
    BY <1>1, <1>2, <2>1, <2>2, EvaluateOK DEF EntriesOK, Indexed
<1>4. CASE Due(shard) = {}
  BY <1>4 DEF PromoteExpired
<1>5. CASE Due(shard) # {}
  <2>1. PromoteExpired(held, shard, m) = Rebuild(held, entries, shard.views)
    BY <1>5 DEF PromoteExpired
  <2> HIDE DEF entries
  <2> QED
    BY <1>1, <1>3, <2>1, RebuildOK
<1> QED
  BY <1>4, <1>5

(* Picking moves cursors and nothing else. *)
LEMMA ShardAfterPickOK ==
  ASSUME NEW held, NEW m, NEW shard, ShardOK(held, m, shard, now),
         NEW ws \in BOOLEAN, NEW pr \in Priority, NEW how, NEW candidates, NEW a
  PROVE  ShardOK(held, m, ShardAfterPick(shard, ws, pr, how, candidates, a), now)
<1> DEFINE kind == ViewKind(shard, ws, pr, candidates)
           view == AfterPick(shard.views[pr][kind], a)
           after == [shard EXCEPT !.views[pr][kind] = view]
<1>1. kind \in {"all", "ws"}
  BY DEF ViewKind
<1>2. shard \in Shard /\ shard.views[pr] \in [all: View, ws: View]
  BY DEF ShardOK, Shard
<1>3. shard.views[pr][kind] \in View
  BY <1>1, <1>2
<1>4. /\ view \in View
      /\ view.flat = shard.views[pr][kind].flat
      /\ view.parent = shard.views[pr][kind].parent
  BY <1>3, AfterPickOK
<1> HIDE DEF view, kind
<1>5. /\ after.entries = shard.entries
      /\ after.blocked = shard.blocked
      /\ after.views = [shard.views EXCEPT ![pr][kind] = view]
      /\ after \in Shard
  BY <1>1, <1>2, <1>4 DEF Shard
<1>6. \A q \in Priority :
        /\ after.views[q].all.flat = shard.views[q].all.flat
        /\ after.views[q].all.parent = shard.views[q].all.parent
        /\ after.views[q].ws.flat = shard.views[q].ws.flat
        /\ after.views[q].ws.parent = shard.views[q].ws.parent
  BY <1>1, <1>2, <1>4, <1>5 DEF Shard
<1> HIDE DEF after
<1>7. ShardOK(held, m, after, now)
  BY <1>5, <1>6 DEF ShardOK, ShardIndexed, Indexes, ShardUnblocked, ShardTimed, ShardWaits
<1> QED
  BY <1>7 DEF ShardAfterPick, after, view, kind

LEMMA EnsureModelOK ==
  ASSUME NEW p \in Provider, NEW m \in Model, auths[p] \in Held, now \in Time,
         shards[p][m] # NoShard => ShardOK(auths[p], m, shards[p][m], now)
  PROVE  ShardOK(auths[p], m, EnsureModel(p, m), now)
  BY BuildShardOK, PromoteExpiredOK DEF EnsureModel

(* Time passing. *)
LEMMA TickOK ==
  ASSUME NEW held \in Held, NEW m \in Model, NEW shard, NEW t \in Time, t + 1 \in Time,
         ShardOK(held, m, shard, t)
  PROVE  ShardOK(held, m, shard, t + 1)
<1>1. ASSUME NEW a \in Auth, shard.entries[a].state \in {"ready", "disabled"}
      PROVE  held[a] \in Snapshots
  BY <1>1, HeldType DEF ShardOK, ShardIndexed, Absent
<1> QED
  BY <1>1, BlockStateMonotone DEF ShardOK, ShardUnblocked, ShardTimed, ShardWaits

(* The slots of each provider of the list are all there are. *)
LEMMA SlotsByProvider ==
  ASSUME NEW flats, NEW i
  PROVE  UNION {{j} \X (flats[j] \cap Auth) : j \in 1 .. i - 1}
           = {x \in (1 .. i - 1) \X Auth : x[2] \in flats[x[1]]}
<1> DEFINE slots == {x \in (1 .. i - 1) \X Auth : x[2] \in flats[x[1]]}
           some(j) == {j} \X (flats[j] \cap Auth)
<1>1. ASSUME NEW x \in slots
      PROVE  x \in some(x[1])
  OBVIOUS
<1>2. ASSUME NEW j \in 1 .. i - 1, NEW x \in some(j)
      PROVE  x \in slots
  OBVIOUS
<1> QED
  BY <1>1, <1>2

LEMMA SlotStartType ==
  ASSUME NEW n \in Nat, NEW flats, NEW i \in 1 .. n + 1
  PROVE  /\ SlotStart(flats, i) \in Nat
         /\ \A j \in 1 .. i - 1 : flats[j] \cap Auth # {} => SlotStart(flats, i) # 0
<1> DEFINE slots == {x \in (1 .. i - 1) \X Auth : x[2] \in flats[x[1]]}
<1>1. IsFiniteSet((1 .. i - 1) \X Auth)
  <2>1. IsFiniteSet(1 .. i - 1)
    BY FS_Interval
  <2> QED
    BY <2>1, AuthFinite, FS_Product
<1>2. IsFiniteSet(slots)
  BY <1>1, FS_Subset
<1>3. Cardinality(slots) \in Nat
  BY <1>2, FS_CardinalityType
<1>4. ASSUME NEW j \in 1 .. i - 1, flats[j] \cap Auth # {}
      PROVE  Cardinality(slots) # 0
  <2>1. PICK a \in Auth : a \in flats[j]
    BY <1>4
  <2>2. <<j, a>> \in slots
    BY <2>1
  <2> QED
    BY <1>2, <2>2, FS_EmptySet
<1> QED
  BY <1>3, <1>4, SlotsByProvider DEF SlotStart

-----------------------------------------------------------------------------
(* The inductive invariant: the state is typed, every credential is held   *)
(* by its own provider, and every shard is good for the snapshots its      *)
(* provider holds at the present time.                                     *)
Typed ==
    /\ now \in Time
    /\ auths \in [Provider -> Held]
    /\ providers \subseteq Provider
    /\ authProviders \in [Auth -> Provider \cup {NoProvider}]
    /\ strategy \in Strategies
    /\ mixedCursors \in [MixedRequests \X Model -> Nat]

ShardsOK ==
    /\ shards \in [Provider -> [Model -> Shard \cup {NoShard}]]
    /\ \A p \in Provider, m \in Model :
          shards[p][m] # NoShard => ShardOK(auths[p], m, shards[p][m], now)

IInv == Typed /\ HeldByItsProvider /\ ShardsOK

LEMMA ShardOKType ==
  ASSUME NEW held, NEW m, NEW shard, NEW t, ShardOK(held, m, shard, t)
  PROVE  shard \in Shard
  BY DEF ShardOK

THEOREM InitIInv == Init => IInv
<1> SUFFICES ASSUME Init PROVE IInv
  OBVIOUS
<1>1. Typed
  <2>1. now \in Time
    BY MaxTimeIsNat DEF Init, Time
  <2>2. auths \in [Provider -> Held]
    BY DEF Init, NoAuths, Held
  <2> QED
    BY <2>1, <2>2 DEF Init, Typed, NoCursors
<1>2. HeldByItsProvider
  BY NullsFresh DEF Init, HeldByItsProvider, NoAuths
<1>3. ShardsOK
  BY DEF Init, ShardsOK, NoShards
<1> QED
  BY <1>1, <1>2, <1>3 DEF IInv

LEMMA TickStep == IInv /\ Tick => IInv'
<1> SUFFICES ASSUME IInv, Tick PROVE IInv'
  OBVIOUS
<1>1. now' = now + 1 /\ now' \in Time /\ now \in Time
  BY MaxTimeIsNat DEF IInv, Typed, Tick, Time
<1>2. Typed' /\ HeldByItsProvider'
  BY <1>1 DEF IInv, Typed, HeldByItsProvider, Tick
<1>3. ASSUME NEW p \in Provider, NEW m \in Model, shards[p][m] # NoShard
      PROVE  ShardOK(auths[p], m, shards[p][m], now + 1)
  <2>1. ShardOK(auths[p], m, shards[p][m], now) /\ auths[p] \in Held
    BY <1>3 DEF IInv, ShardsOK, Typed
  <2> QED
    BY <1>1, <2>1, TickOK
<1>4. ShardsOK'
  BY <1>1, <1>3 DEF IInv, ShardsOK, Tick
<1> QED
  BY <1>2, <1>4 DEF IInv

(* What removeAuthLocked leaves. *)
LEMMA WithoutOK ==
  ASSUME IInv, NEW a \in Auth
  PROVE  /\ AuthsWithout(a) \in [Provider -> Held]
         /\ \A p \in Provider : AuthsWithout(a)[p] = [auths[p] EXCEPT ![a] = NoSnapshot]
         /\ ShardsWithout(a) \in [Provider -> [Model -> Shard \cup {NoShard}]]
         /\ \A p \in Provider, m \in Model :
               ShardsWithout(a)[p][m] # NoShard =>
                  ShardOK(AuthsWithout(a)[p], m, ShardsWithout(a)[p][m], now)
<1>1. ASSUME NEW p \in Provider
      PROVE  /\ auths[p] \in Held
             /\ p # authProviders[a] => auths[p][a] = NoSnapshot
  BY DEF IInv, Typed, HeldByItsProvider
<1>2. ASSUME NEW p \in Provider
      PROVE  AuthsWithout(a)[p] = [auths[p] EXCEPT ![a] = NoSnapshot]
  BY <1>1 DEF AuthsWithout, Held
<1>3. ASSUME NEW p \in Provider
      PROVE  AuthsWithout(a)[p] \in Held
  BY <1>1, <1>2 DEF Held
<1>4. AuthsWithout(a) \in [Provider -> Held]
  BY <1>3 DEF AuthsWithout
<1>5. ASSUME NEW p \in Provider, NEW m \in Model
      PROVE  /\ ShardsWithout(a)[p][m] \in Shard \cup {NoShard}
             /\ ShardsWithout(a)[p][m] # NoShard =>
                   ShardOK(AuthsWithout(a)[p], m, ShardsWithout(a)[p][m], now)
  <2>1. CASE shards[p][m] = NoShard
    BY <2>1 DEF ShardsWithout
  <2>2. CASE shards[p][m] # NoShard
    <3>1. ShardOK(auths[p], m, shards[p][m], now) /\ now \in Time
      BY <2>2 DEF IInv, ShardsOK, Typed
    <3>2. ShardOK(AuthsWithout(a)[p], m,
                  RemoveEntry(AuthsWithout(a)[p], shards[p][m], a), now)
      <4> DEFINE held == auths[p]
                 shard == shards[p][m]
                 without == [held EXCEPT ![a] = NoSnapshot]
      <4>1. held \in Held /\ AuthsWithout(a)[p] = without
        BY <1>1, <1>2
      <4> HIDE DEF held, shard
      <4>2. without \in Held /\ without[a] = NoSnapshot /\ \A b \in Auth : b # a => without[b] = held[b]
        BY <4>1 DEF Held
      <4> HIDE DEF without
      <4>3. ShardOK(without, m, RemoveEntry(without, shard, a), now)
        BY <3>1, <4>1, <4>2, RemoveEntryOK DEF held, shard
      <4> QED
        BY <4>1, <4>3 DEF shard
    <3>3. CASE p = authProviders[a]
      <4>1. ShardsWithout(a)[p][m] = RemoveEntry(AuthsWithout(a)[p], shards[p][m], a)
        BY <2>2, <3>3 DEF ShardsWithout
      <4> QED
        BY <3>2, <4>1, ShardOKType
    <3>4. CASE p # authProviders[a]
      <4>1. ShardsWithout(a)[p][m] = shards[p][m]
        BY <3>4 DEF ShardsWithout
      <4>2. AuthsWithout(a)[p] = auths[p]
        BY <3>4 DEF AuthsWithout
      <4> QED
        BY <3>1, <4>1, <4>2, ShardOKType
    <3> QED
      BY <3>3, <3>4
  <2> QED
    BY <2>1, <2>2
<1>6. ShardsWithout(a) \in [Provider -> [Model -> Shard \cup {NoShard}]]
  <2>1. ShardsWithout(a) = [p \in Provider |-> [m \in Model |-> ShardsWithout(a)[p][m]]]
    BY DEF ShardsWithout
  <2> QED
    BY <1>5, <2>1
<1> QED
  BY <1>2, <1>4, <1>5, <1>6

LEMMA RemoveAuthStep ==
  ASSUME IInv, NEW a \in Auth, RemoveAuth(a)
  PROVE  IInv'
<1>1. Typed'
  BY WithoutOK DEF IInv, Typed, RemoveAuth
<1>2. HeldByItsProvider'
  <2>1. ASSUME NEW p \in Provider, NEW b \in Auth, b # a
        PROVE  auths'[p][b] = auths[p][b] /\ authProviders'[b] = authProviders[b]
    <3>1. AuthsWithout(a)[p] = [auths[p] EXCEPT ![a] = NoSnapshot] /\ auths[p] \in Held
      BY WithoutOK DEF IInv, Typed
    <3> QED
      BY <2>1, <3>1 DEF RemoveAuth, IInv, Typed, Held
  <2>2. ASSUME NEW p \in Provider
        PROVE  auths'[p][a] = NoSnapshot /\ authProviders'[a] = NoProvider
    <3>1. AuthsWithout(a)[p] = [auths[p] EXCEPT ![a] = NoSnapshot] /\ auths[p] \in Held
      BY WithoutOK DEF IInv, Typed
    <3> QED
      BY <3>1 DEF RemoveAuth, IInv, Typed, Held
  <2> QED
    BY <2>1, <2>2, NullsFresh DEF IInv, HeldByItsProvider
<1>3. ShardsOK'
  BY WithoutOK DEF ShardsOK, RemoveAuth
<1> QED
  BY <1>1, <1>2, <1>3 DEF IInv

LEMMA AdmitStep ==
  ASSUME IInv, NEW a \in Auth, NEW s \in Snapshots, ~s.disabled, Admit(a, s)
  PROVE  IInv'
<1> DEFINE q == s.provider
           moved == authProviders[a] \notin {NoProvider, q}
           left == IF moved THEN AuthsWithout(a) ELSE auths
           kept == IF moved THEN ShardsWithout(a) ELSE shards
           held == [left[q] EXCEPT ![a] = s]
           shard(m) == IF kept[q][m] = NoShard THEN NoShard
                       ELSE IF ~Supports(s, m) THEN RemoveEntry(held, kept[q][m], a)
                       ELSE UpsertEntry(held, kept[q][m], a, left[q][a], s, m)
<1>1. /\ auths' = [left EXCEPT ![q] = held]
      /\ shards' = [kept EXCEPT ![q] = [m \in Model |-> shard(m)]]
      /\ providers' = providers \cup {q}
      /\ authProviders' = [authProviders EXCEPT ![a] = q]
      /\ UNCHANGED <<now, strategy, mixedCursors>>
  BY DEF Admit
<1>2. q \in Provider /\ now \in Time
  BY SnapshotType DEF Snapshot, IInv, Typed
<1>3. /\ left \in [Provider -> Held]
      /\ kept \in [Provider -> [Model -> Shard \cup {NoShard}]]
      /\ \A p \in Provider, m \in Model :
            kept[p][m] # NoShard => ShardOK(left[p], m, kept[p][m], now)
  <2>1. CASE moved
    BY <2>1, WithoutOK
  <2>2. CASE ~moved
    BY <2>2 DEF IInv, Typed, ShardsOK
  <2> QED
    BY <2>1, <2>2
<1>4. /\ \A p \in Provider, b \in Auth : b # a => left[p][b] = auths[p][b]
      /\ \A p \in Provider : p # q => left[p][a] = NoSnapshot
  <2>1. CASE moved
    <3>1. \A p \in Provider : left[p] = [auths[p] EXCEPT ![a] = NoSnapshot] /\ auths[p] \in Held
      BY <2>1, WithoutOK DEF IInv, Typed
    <3> HIDE DEF left
    <3> QED
      BY <3>1 DEF Held
  <2>2. CASE ~moved
    BY <2>2, NullsFresh DEF IInv, HeldByItsProvider
  <2> QED
    BY <2>1, <2>2
<1>5. held \in Held
  BY <1>2, <1>3 DEF Held
<1>6. ASSUME NEW m \in Model
      PROVE  /\ shard(m) \in Shard \cup {NoShard}
             /\ shard(m) # NoShard => ShardOK(held, m, shard(m), now)
  <2> DEFINE old == kept[q][m]
             before == left[q]
  <2>1. CASE old = NoShard
    BY <2>1
  <2>2. CASE old # NoShard /\ ~Supports(s, m)
    <3>1. shard(m) = RemoveEntry(held, old, a)
      BY <2>2
    <3>2. before \in Held /\ ShardOK(before, m, old, now)
      BY <1>2, <1>3, <2>2
    <3>3. /\ held \in Held /\ ~Supports(held[a], m)
          /\ \A b \in Auth : b # a => held[b] = before[b]
      BY <1>5, <2>2, <3>2 DEF Held
    <3>4. ShardOK(held, m, RemoveEntry(held, old, a), now)
      <4> HIDE DEF before, old, held
      <4> QED
        BY <1>2, <3>2, <3>3, RemoveEntryOK
    <3> QED
      BY <3>1, <3>4, ShardOKType
  <2>3. CASE old # NoShard /\ Supports(s, m)
    <3>1. shard(m) = UpsertEntry(held, old, a, before[a], s, m)
      BY <2>3
    <3>2. before \in Held /\ ShardOK(before, m, old, now)
      BY <1>2, <1>3, <2>3
    <3>3. ShardOK([before EXCEPT ![a] = s], m,
                  UpsertEntry([before EXCEPT ![a] = s], old, a, before[a], s, m), now)
      <4> HIDE DEF before, old
      <4> QED
        BY <1>2, <2>3, <3>2, UpsertEntryOK
    <3> QED
      BY <3>1, <3>3, ShardOKType
  <2> HIDE DEF shard, held, old
  <2> QED
    BY <2>1, <2>2, <2>3
<1> HIDE DEF shard, held, left, kept, moved, q
<1>7. Typed'
  BY <1>1, <1>2, <1>3, <1>5 DEF IInv, Typed
<1>8. HeldByItsProvider'
  <2>1. ASSUME NEW p \in Provider, NEW b \in Auth, b # a
        PROVE  auths'[p][b] = auths[p][b] /\ authProviders'[b] = authProviders[b]
    <3>1. held[b] = left[q][b]
      BY <1>2, <1>3, <2>1 DEF held, Held
    <3> QED
      BY <1>1, <1>2, <1>3, <1>4, <2>1, <3>1 DEF IInv, Typed
  <2>2. authProviders'[a] = q /\ auths'[q][a] = s
    BY <1>1, <1>2, <1>3 DEF IInv, Typed, Held, held
  <2>3. ASSUME NEW p \in Provider, p # q
        PROVE  auths'[p][a] = NoSnapshot
    BY <1>1, <1>2, <1>3, <1>4, <2>3
  <2>4. s # NoSnapshot /\ s.provider = q /\ ~s.disabled
    BY SnapshotType, NullsFresh DEF q
  <2> QED
    BY <2>1, <2>2, <2>3, <2>4 DEF IInv, HeldByItsProvider
<1>9. ShardsOK'
  <2>1. shards' \in [Provider -> [Model -> Shard \cup {NoShard}]]
    BY <1>1, <1>2, <1>3, <1>6
  <2>2. ASSUME NEW p \in Provider, NEW m \in Model, shards'[p][m] # NoShard
        PROVE  ShardOK(auths'[p], m, shards'[p][m], now)
    <3>1. CASE p = q
      BY <1>1, <1>2, <1>3, <1>6, <2>2, <3>1
    <3>2. CASE p # q
      BY <1>1, <1>2, <1>3, <2>2, <3>2
    <3> QED
      BY <3>1, <3>2
  <2> QED
    BY <1>1, <2>1, <2>2 DEF ShardsOK
<1> QED
  BY <1>7, <1>8, <1>9 DEF IInv

LEMMA RebuildAllStep ==
  ASSUME IInv, NEW f \in Held, RebuildAll(f)
  PROVE  IInv'
<1> DEFINE enabled == {a \in Auth : f[a] # NoSnapshot /\ ~f[a].disabled}
           under(p) == {a \in enabled : f[a].provider = p}
<1>1. /\ auths' = [p \in Provider |->
                     [a \in Auth |-> IF a \in under(p) THEN f[a] ELSE NoSnapshot]]
      /\ providers' = {p \in Provider : under(p) # {}}
      /\ authProviders' = [a \in Auth |-> IF a \in enabled THEN f[a].provider ELSE NoProvider]
      /\ shards' = NoShards
      /\ mixedCursors' = NoCursors
      /\ UNCHANGED <<now, strategy>>
  BY DEF RebuildAll
<1>2. \A a \in enabled : a \in Auth /\ f[a] \in Snapshots /\ f[a].provider \in Provider
  BY HeldType, SnapshotType DEF Snapshot
<1>3. Typed'
  BY <1>1, <1>2 DEF IInv, Typed, NoCursors, Held
<1>4. HeldByItsProvider'
  <2>1. ASSUME NEW p \in Provider, NEW a \in Auth
        PROVE  /\ auths'[p][a] = IF a \in under(p) THEN f[a] ELSE NoSnapshot
               /\ authProviders'[a] = IF a \in enabled THEN f[a].provider ELSE NoProvider
    BY <1>1
  <2> QED
    BY <1>2, <2>1, NullsFresh DEF HeldByItsProvider
<1>5. ShardsOK'
  BY <1>1 DEF ShardsOK, NoShards
<1> QED
  BY <1>3, <1>4, <1>5 DEF IInv

(* A step that only stores good shards, and moves rotations. *)
LEMMA StoreStep ==
  ASSUME IInv, UNCHANGED <<now, auths, providers, authProviders, strategy>>,
         mixedCursors' \in [MixedRequests \X Model -> Nat],
         shards' \in [Provider -> [Model -> Shard \cup {NoShard}]],
         \A p \in Provider, m \in Model :
            shards'[p][m] # NoShard => ShardOK(auths[p], m, shards'[p][m], now)
  PROVE  IInv'
  BY DEF IInv, Typed, HeldByItsProvider, ShardsOK

LEMMA AnswerFromStep ==
  ASSUME IInv, NEW p \in Provider, NEW m \in Model, NEW ws \in BOOLEAN, NEW candidates,
         AnswerFrom(p, m, ws, candidates)
  PROVE  IInv'
<1>1. auths[p] \in Held /\ now \in Time
  BY DEF IInv, Typed
<1>2. ShardOK(auths[p], m, EnsureModel(p, m), now)
  BY <1>1, EnsureModelOK DEF IInv, ShardsOK
<1>3. \/ shards' = shards
      \/ \E shard : /\ ShardOK(auths[p], m, shard, now)
                    /\ shards' = [shards EXCEPT ![p][m] = shard]
  <2> DEFINE ensured == EnsureModel(p, m)
  <2>1. CASE \E pr \in Priority, a \in candidates :
               shards' = [shards EXCEPT ![p][m] =
                            ShardAfterPick(ensured, ws, pr, strategy, candidates, a)]
    <3> HIDE DEF ensured
    <3> QED
      BY <1>2, <2>1, ShardAfterPickOK DEF ensured
  <2>2. CASE shards' = (IF p \in providers THEN [shards EXCEPT ![p][m] = ensured] ELSE shards)
    BY <1>2, <2>2
  <2> QED
    BY <2>1, <2>2 DEF AnswerFrom, PrioritiesWith
<1>4. /\ UNCHANGED <<now, auths, providers, authProviders, strategy, mixedCursors>>
      /\ mixedCursors \in [MixedRequests \X Model -> Nat]
  BY DEF AnswerFrom, IInv, Typed
<1>5. /\ shards' \in [Provider -> [Model -> Shard \cup {NoShard}]]
      /\ \A r \in Provider, k \in Model :
            shards'[r][k] # NoShard => ShardOK(auths[r], k, shards'[r][k], now)
  <2>1. CASE shards' = shards
    BY <2>1 DEF IInv, ShardsOK
  <2>2. CASE \E shard : /\ ShardOK(auths[p], m, shard, now)
                        /\ shards' = [shards EXCEPT ![p][m] = shard]
    <3>1. PICK shard : /\ ShardOK(auths[p], m, shard, now)
                       /\ shards' = [shards EXCEPT ![p][m] = shard]
      BY <2>2
    <3>2. shard \in Shard
      BY <3>1, ShardOKType
    <3>3. /\ shards \in [Provider -> [Model -> Shard \cup {NoShard}]]
          /\ \A r \in Provider, k \in Model :
                shards[r][k] # NoShard => ShardOK(auths[r], k, shards[r][k], now)
      BY DEF IInv, ShardsOK
    <3>4. ASSUME NEW r \in Provider, NEW k \in Model
          PROVE  shards'[r][k] = IF r = p /\ k = m THEN shard ELSE shards[r][k]
      BY <3>1, <3>3
    <3> QED
      BY <3>1, <3>2, <3>3, <3>4
  <2> QED
    BY <1>3, <2>1, <2>2
<1> QED
  BY <1>4, <1>5, StoreStep

(* The shards a mixed request has promoted, stored. *)
LEMMA PutShardsOK ==
  ASSUME IInv, NEW list \in MixedRequests, NEW m \in Model, NEW ensured,
         \A i \in DOMAIN list : ShardOK(auths[list[i]], m, ensured[i], now),
         PutShards(list, m, ensured)
  PROVE  /\ shards' \in [Provider -> [Model -> Shard \cup {NoShard}]]
         /\ \A p \in Provider, k \in Model :
               shards'[p][k] # NoShard => ShardOK(auths[p], k, shards'[p][k], now)
<1> DEFINE put(p) == IF p \in Listed(list) \cap providers
                     THEN ensured[CHOOSE i \in DOMAIN list : list[i] = p]
                     ELSE shards[p][m]
<1>1. /\ shards \in [Provider -> [Model -> Shard \cup {NoShard}]]
      /\ \A p \in Provider, k \in Model :
            shards[p][k] # NoShard => ShardOK(auths[p], k, shards[p][k], now)
  BY DEF IInv, ShardsOK
<1>2. ASSUME NEW p \in Provider
      PROVE  /\ put(p) \in Shard \cup {NoShard}
             /\ put(p) # NoShard => ShardOK(auths[p], m, put(p), now)
  <2>1. CASE p \in Listed(list) \cap providers
    <3> DEFINE i == CHOOSE j \in DOMAIN list : list[j] = p
    <3>1. i \in DOMAIN list /\ list[i] = p
      BY <2>1 DEF Listed
    <3>2. put(p) = ensured[i]
      BY <2>1
    <3> HIDE DEF i, put
    <3> QED
      BY <3>1, <3>2, ShardOKType
  <2>2. CASE p \notin Listed(list) \cap providers
    BY <1>1, <2>2
  <2> QED
    BY <2>1, <2>2
<1>3. shards' = [p \in Provider |-> [shards[p] EXCEPT ![m] = put(p)]]
  BY DEF PutShards
<1> HIDE DEF put
<1>4. ASSUME NEW p \in Provider, NEW k \in Model
      PROVE  shards'[p][k] = IF k = m THEN put(p) ELSE shards[p][k]
  BY <1>1, <1>3
<1>5. \A p \in Provider : [shards[p] EXCEPT ![m] = put(p)] \in [Model -> Shard \cup {NoShard}]
  BY <1>1, <1>2
<1> QED
  BY <1>1, <1>2, <1>3, <1>4, <1>5

(* The cursor of a mixed request is a slot's successor. *)
LEMMA MixedTurnOK ==
  ASSUME NEW list \in MixedRequests, NEW m \in Model, NEW flats, NEW able,
         NEW i \in DOMAIN list, flats[i] \cap Auth # {},
         mixedCursors \in [MixedRequests \X Model -> Nat],
         MixedTurn(list, m, flats, able, i)
  PROVE  mixedCursors' \in [MixedRequests \X Model -> Nat]
<1> DEFINE n == Len(list)
           slot == mixedCursors[<<list, m>>] % SlotStart(flats, n + 1)
<1>1. n \in Nat /\ DOMAIN list = 1 .. n
  BY MixedRequestsTyped
<1>2. SlotStart(flats, n + 1) \in Nat \ {0}
  <2>1. i \in 1 .. (n + 1) - 1 /\ n + 1 \in 1 .. n + 1
    BY <1>1
  <2> HIDE DEF n
  <2> QED
    BY <1>1, <2>1, SlotStartType
<1>3. SlotStart(flats, i) \in Nat
  <2> HIDE DEF n
  <2> QED
    BY <1>1, SlotStartType
<1>4. slot \in Nat
  <2>1. mixedCursors[<<list, m>>] \in Nat
    OBVIOUS
  <2> QED
    BY <1>2, <2>1, ModNat
<1>5. ASSUME NEW c \in Nat
      PROVE  [mixedCursors EXCEPT ![<<list, m>>] = 1 + c] \in [MixedRequests \X Model -> Nat]
  <2>1. 1 + c \in Nat
    OBVIOUS
  <2> QED
    BY <2>1
<1>6. \/ mixedCursors' = mixedCursors
      \/ mixedCursors' = [mixedCursors EXCEPT ![<<list, m>>] = 1 + slot]
      \/ mixedCursors' = [mixedCursors EXCEPT ![<<list, m>>] = 1 + SlotStart(flats, i)]
  BY DEF MixedTurn
<1> HIDE DEF slot
<1> QED
  BY <1>3, <1>4, <1>5, <1>6

LEMMA PickMixedStep ==
  ASSUME IInv, NEW list \in MixedRequests, NEW m \in Model, NEW tried, PickMixed(list, m, tried)
  PROVE  IInv'
<1> DEFINE candidates == Candidates(NoAuth, tried)
           ensured == EnsuredShards(list, m)
<1>1. /\ list \in Seq(Provider)
      /\ mixedCursors \in [MixedRequests \X Model -> Nat]
      /\ DOMAIN ensured = DOMAIN list
  BY MixedRequestsTyped DEF IInv, Typed, EnsuredShards
<1>2. \A i \in DOMAIN list : ShardOK(auths[list[i]], m, ensured[i], now)
  <2>1. ASSUME NEW i \in DOMAIN list
        PROVE  ShardOK(auths[list[i]], m, EnsureModel(list[i], m), now)
    <3>1. list[i] \in Provider
      BY <1>1
    <3>2. auths[list[i]] \in Held /\ now \in Time
      BY <3>1 DEF IInv, Typed
    <3> QED
      BY <3>1, <3>2, EnsureModelOK DEF IInv, ShardsOK
  <2> QED
    BY <2>1 DEF EnsuredShards
<1>3. UNCHANGED <<now, auths, providers, authProviders, strategy>>
  BY DEF PickMixed
<1> HIDE DEF ensured
<1>4. CASE MixedRefusal(list, m, candidates, ensured)
  <2>1. PutShards(list, m, ensured) /\ UNCHANGED mixedCursors
    BY <1>4 DEF MixedRefusal
  <2> QED
    BY <1>1, <1>2, <1>3, <2>1, PutShardsOK, StoreStep
<1>5. CASE MixedAnswer(list, m, candidates, ensured)
  <2> HIDE DEF candidates
  <2>1. PICK best \in Priority, i \in DOMAIN list, a \in candidates :
          /\ i \in Able(list, ensured, candidates, best)
          /\ MixedTurn(list, m, Flats(list, ensured, best),
                       Able(list, ensured, candidates, best), i)
          /\ PutShards(list, m, [ensured EXCEPT ![i] =
                ShardAfterPick(@, FALSE, best, strategy, candidates, a)])
    BY <1>5 DEF MixedAnswer
  <2> DEFINE after == [ensured EXCEPT ![i] =
                         ShardAfterPick(@, FALSE, best, strategy, candidates, a)]
  <2>2. Flats(list, ensured, best)[i] \cap Auth # {}
    BY <2>1 DEF Able, Flats, PrioritiesWith, Candidates, candidates
  <2>3. mixedCursors' \in [MixedRequests \X Model -> Nat]
    BY <1>1, <2>1, <2>2, MixedTurnOK
  <2>4. \A j \in DOMAIN list : ShardOK(auths[list[j]], m, after[j], now)
    <3>1. \A j \in DOMAIN list : after[j] =
             IF j = i THEN ShardAfterPick(ensured[i], FALSE, best, strategy, candidates, a)
             ELSE ensured[j]
      BY <1>1
    <3> HIDE DEF after
    <3> QED
      BY <1>2, <3>1, ShardAfterPickOK
  <2>5. PutShards(list, m, after)
    BY <2>1
  <2> HIDE DEF after
  <2> QED
    BY <1>3, <2>3, <2>4, <2>5, PutShardsOK, StoreStep
<1> QED
  BY <1>4, <1>5 DEF PickMixed, candidates, ensured

LEMMA NextIInv == IInv /\ [Next]_vars => IInv'
<1> SUFFICES ASSUME IInv, [Next]_vars PROVE IInv'
  OBVIOUS
<1>1. CASE Tick
  BY <1>1, TickStep
<1>2. CASE \E how \in Strategies : SetSelector(how)
  BY <1>2 DEF SetSelector, IInv, Typed, NoCursors, HeldByItsProvider, ShardsOK
<1>3. CASE \E a \in Auth : RemoveAuth(a)
  BY <1>3, RemoveAuthStep
<1>4. CASE \E a \in Auth, s \in Snapshots : UpsertAuth(a, s)
  BY <1>4, RemoveAuthStep, AdmitStep DEF UpsertAuth
<1>5. CASE \E f \in [Auth -> Snapshots \cup {NoSnapshot}] : RebuildAll(f)
  BY <1>5, RebuildAllStep DEF Held
<1>6. ASSUME NEW p \in Provider, NEW m \in Model, NEW ws \in BOOLEAN,
             NEW pinned, NEW tried, PickSingle(p, m, ws, pinned, tried)
      PROVE  IInv'
  BY <1>6, AnswerFromStep DEF PickSingle
<1>7. ASSUME NEW list \in MixedRequests, NEW m \in Model, NEW pinned \in Auth, NEW tried,
             PickMixedPinned(list, m, pinned, tried)
      PROVE  IInv'
  <2>1. CASE authProviders[pinned] \in Listed(list)
    <3>1. authProviders[pinned] \in Provider
      BY <2>1, MixedRequestsTyped DEF Listed
    <3> QED
      BY <1>7, <2>1, <3>1, AnswerFromStep DEF PickMixedPinned
  <2>2. CASE authProviders[pinned] \notin Listed(list)
    BY <1>7, <2>2 DEF PickMixedPinned, IInv, Typed, HeldByItsProvider, ShardsOK
  <2> QED
    BY <2>1, <2>2
<1>8. CASE \E list \in MixedRequests, m \in Model, tried \in SUBSET Auth :
             PickMixed(list, m, tried)
  BY <1>8, PickMixedStep
<1>9. CASE UNCHANGED vars
  BY <1>9 DEF vars, IInv, Typed, HeldByItsProvider, ShardsOK
<1> QED
  BY <1>1, <1>2, <1>3, <1>4, <1>5, <1>6, <1>7, <1>8, <1>9 DEF Next, OtherNext

THEOREM Invariance == Spec => []IInv
  BY InitIInv, NextIInv, PTL DEF Spec

(* The state of the scheduler stays typed. *)
THEOREM TypeCorrect == Spec => []TypeOK
<1>1. IInv => TypeOK
  BY DEF IInv, Typed, ShardsOK, TypeOK, Held
<1> QED
  BY <1>1, Invariance, PTL

(* Nothing is left behind with a provider a credential has left: what a    *)
(* provider holds is scheduled under it, is its own and is enabled.        *)
THEOREM HeldByItsProviderInvariant == Spec => []HeldByItsProvider
<1>1. IInv => HeldByItsProvider
  BY DEF IInv
<1> QED
  BY <1>1, Invariance, PTL

(* The ready views and blocked lists always agree with the entries. *)
THEOREM IndexesAgreeInvariant == Spec => []IndexesAgree
<1>1. IInv => IndexesAgree
  BY DEF IInv, ShardsOK, ShardOK, IndexesAgree
<1> QED
  BY <1>1, Invariance, PTL

(* An entry is only ready while its credential's snapshot is unblocked. *)
THEOREM ReadyIsUnblockedInvariant == Spec => []ReadyIsUnblocked
<1>1. IInv => ReadyIsUnblocked
  BY DEF IInv, ShardsOK, ShardOK, ReadyIsUnblocked
<1> QED
  BY <1>1, Invariance, PTL

(* A waiting entry always has a retry time that its snapshot names. *)
THEOREM NoneSetAsideForGoodInvariant == Spec => []NoneSetAsideForGood
<1>1. IInv => NoneSetAsideForGood
  BY DEF IInv, ShardsOK, ShardOK, NoneSetAsideForGood
<1> QED
  BY <1>1, Invariance, PTL

-----------------------------------------------------------------------------
(* Answers.  A request first brings the shards it asks up to date; what it *)
(* is told is then true of the snapshots the providers hold.               *)

(* No entry waits for a time that has come. *)
Promoted(shard) ==
    \A a \in Auth : shard.entries[a].state \in {"cooldown", "blocked"} =>
        shard.entries[a].nextRetryAt > now

LEMMA BuildShardPromoted ==
  ASSUME NEW held \in Held, NEW m \in Model, now \in Time
  PROVE  Promoted(BuildShard(held, m))
<1> SUFFICES ASSUME NEW a \in Auth,
                    BuildShard(held, m).entries[a].state \in {"cooldown", "blocked"}
             PROVE  BuildShard(held, m).entries[a].nextRetryAt > now
  BY DEF Promoted
<1>1. BuildShard(held, m).entries[a] =
        IF held[a] # NoSnapshot /\ Supports(held[a], m) THEN Evaluate(held[a], m, now)
        ELSE Absent
  BY DEF BuildShard, Rebuild
<1>2. held[a] # NoSnapshot /\ BuildShard(held, m).entries[a] = Evaluate(held[a], m, now)
  BY <1>1 DEF Absent
<1>3. held[a] \in Snapshots
  BY <1>2, HeldType
<1> QED
  BY <1>2, <1>3, EvaluateOK

LEMMA PromoteExpiredPromoted ==
  ASSUME NEW held \in Held, NEW m \in Model, NEW shard,
         ShardOK(held, m, shard, now), now \in Time
  PROVE  Promoted(PromoteExpired(held, shard, m))
<1>1. ASSUME NEW a \in Auth, a \notin Due(shard),
             shard.entries[a].state \in {"cooldown", "blocked"}
      PROVE  shard.entries[a].nextRetryAt > now
  <2>1. a \in shard.blocked /\ shard.entries[a].nextRetryAt # 0
    BY <1>1 DEF ShardOK, ShardIndexed, ShardTimed
  <2>2. shard.entries[a].nextRetryAt \in Time
    BY DEF ShardOK, Shard, Entry
  <2> QED
    BY <1>1, <2>1, <2>2, MaxTimeIsNat DEF Due, Time
<1>2. ASSUME NEW a \in Due(shard),
             Evaluate(held[a], m, now).state \in {"cooldown", "blocked"}
      PROVE  Evaluate(held[a], m, now).nextRetryAt > now
  <2>1. a \in Auth /\ held[a] # NoSnapshot
    BY DEF Due, ShardOK, ShardIndexed, Absent
  <2>2. held[a] \in Snapshots
    BY <2>1, HeldType
  <2> QED
    BY <1>2, <2>2, EvaluateOK
<1>3. CASE Due(shard) = {}
  BY <1>1, <1>3 DEF PromoteExpired, Promoted
<1>4. CASE Due(shard) # {}
  <2>1. \A a \in Auth : PromoteExpired(held, shard, m).entries[a] =
           IF a \in Due(shard) THEN Evaluate(held[a], m, now) ELSE shard.entries[a]
    BY <1>4 DEF PromoteExpired, Rebuild
  <2> QED
    BY <1>1, <1>2, <2>1 DEF Promoted
<1> QED
  BY <1>3, <1>4

(* What a request finds in the shard of m at provider p. *)
Fresh(p, m, shard) == ShardOK(auths[p], m, shard, now) /\ Promoted(shard)

LEMMA EnsureModelFresh ==
  ASSUME IInv, NEW p \in Provider, NEW m \in Model
  PROVE  Fresh(p, m, EnsureModel(p, m))
<1>1. /\ auths[p] \in Held /\ now \in Time
      /\ shards[p][m] # NoShard => ShardOK(auths[p], m, shards[p][m], now)
  BY DEF IInv, Typed, ShardsOK
<1>2. ShardOK(auths[p], m, EnsureModel(p, m), now)
  BY <1>1, EnsureModelOK
<1>3. Promoted(EnsureModel(p, m))
  BY <1>1, BuildShardPromoted, PromoteExpiredPromoted DEF EnsureModel
<1> QED
  BY <1>2, <1>3 DEF Fresh

(* A credential that is free by time t is not waiting for a later one. *)
LEMMA FreeIsNotWaiting ==
  ASSUME IInv, NEW p \in Provider, NEW m \in Model, NEW shard, Fresh(p, m, shard),
         NEW a \in Auth, NEW t \in Int, FreeAt(p, m, a, t),
         shard.entries[a].state \in {"cooldown", "blocked"}
  PROVE  shard.entries[a].nextRetryAt <= t
<1> DEFINE s == auths[p][a]
           st == s.states[m]
<1>1. s \in Snapshots
  BY HeldType DEF FreeAt, IInv, Typed
<1>2. st \in ModelState
  BY <1>1, SnapshotType
<1>3. st.nextRetryAfter \in Int /\ st.nextRecoverAt \in Int
  BY <1>2, MaxTimeIsNat DEF ModelState, Time
<1>4. shard.entries[a].nextRetryAt \in {st.nextRetryAfter, st.nextRecoverAt} /\ st.unavailable
  BY DEF Fresh, ShardOK, ShardTimed, ShardWaits
<1>5. BlockState(s, m, t) = "ready" /\ st.nextRecoverAt <= t
  BY DEF FreeAt
<1>6. ~(st.nextRetryAfter > t)
  BY <1>4, <1>5 DEF BlockState
<1> QED
  BY <1>3, <1>4, <1>5, <1>6

(* A credential that is free now is ready in a fresh shard. *)
LEMMA FreeIsReady ==
  ASSUME IInv, NEW p \in Provider, NEW m \in Model, NEW shard, Fresh(p, m, shard),
         NEW a \in Auth, FreeAt(p, m, a, now)
  PROVE  shard.entries[a].state = "ready"
<1>1. now \in Int
  BY MaxTimeIsNat DEF IInv, Typed, Time
<1>2. shard.entries[a] \in Entry
  BY DEF Fresh, ShardOK, Shard
<1>3. shard.entries[a].state # "absent"
  BY DEF Fresh, ShardOK, ShardIndexed, FreeAt
<1>4. shard.entries[a].state # "disabled"
  BY DEF Fresh, ShardOK, ShardTimed, FreeAt
<1>5. shard.entries[a].state \notin {"cooldown", "blocked"}
  <2> SUFFICES ASSUME shard.entries[a].state \in {"cooldown", "blocked"} PROVE FALSE
    OBVIOUS
  <2>1. shard.entries[a].nextRetryAt <= now
    BY <1>1, FreeIsNotWaiting
  <2>2. shard.entries[a].nextRetryAt > now /\ shard.entries[a].nextRetryAt \in Int
    BY <1>2, MaxTimeIsNat DEF Fresh, Promoted, Entry, Time
  <2> QED
    BY <1>1, <2>1, <2>2
<1> QED
  BY <1>2, <1>3, <1>4, <1>5 DEF Entry, Indexed

LEMMA PicksCandidate ==
  ASSUME NEW shard, NEW ws \in BOOLEAN, NEW pr, NEW how, NEW candidates, NEW a,
         PicksAtPriority(shard, ws, pr, how, candidates, a)
  PROVE  a \in shard.views[pr][ViewKind(shard, ws, pr, candidates)].flat \cap candidates
  BY DEF PicksAtPriority, PickFirst, PickRoundRobin, PickGroupedRoundRobin, FirstFrom

(* The views of a good shard hold its ready credentials, by priority. *)
LEMMA ViewsAre ==
  ASSUME NEW held \in Held, NEW m, NEW shard, ShardOK(held, m, shard, now), NEW pr \in Priority
  PROVE  /\ shard.views[pr].all.flat =
               {a \in Auth : shard.entries[a].state = "ready" /\ held[a].priority = pr}
         /\ shard.views[pr].ws.flat =
               {a \in Auth : /\ shard.entries[a].state = "ready" /\ held[a].priority = pr
                             /\ held[a].websocket}
<1>1. /\ shard.views[pr].all.flat = ReadyAt(held, shard.entries, pr)
      /\ shard.views[pr].ws.flat = {a \in ReadyAt(held, shard.entries, pr) : held[a].websocket}
  BY DEF ShardOK, ShardIndexed, Indexes
<1> QED
  BY <1>1 DEF ReadyAt

LEMMA ReadyType ==
  ASSUME NEW held \in Held, NEW m, NEW shard, ShardOK(held, m, shard, now),
         NEW a \in Auth, shard.entries[a].state = "ready"
  PROVE  /\ held[a] # NoSnapshot /\ Supports(held[a], m)
         /\ BlockState(held[a], m, now) = "ready"
         /\ held[a].priority \in Priority
         /\ held[a].websocket \in BOOLEAN
<1>1. held[a] # NoSnapshot /\ Supports(held[a], m) /\ BlockState(held[a], m, now) = "ready"
  BY DEF ShardOK, ShardIndexed, ShardUnblocked, Absent
<1>2. held[a] \in Snapshot
  BY <1>1, HeldType, SnapshotType
<1> QED
  BY <1>1, <1>2 DEF Snapshot

(* The choice of a request within one shard: a ready candidate, and none   *)
(* that is ready comes before it.                                          *)
Beats(preferWebsocket, s, r) ==
    IF preferWebsocket /\ s.websocket # r.websocket THEN s.websocket
    ELSE r.priority <= s.priority

LEMMA PickedIsReady ==
  ASSUME NEW held \in Held, NEW m, NEW shard, ShardOK(held, m, shard, now),
         NEW ws \in BOOLEAN, NEW pr \in Priority, NEW how, NEW candidates \in SUBSET Auth,
         NEW a, PicksAtPriority(shard, ws, pr, how, candidates, a)
  PROVE  /\ a \in candidates /\ shard.entries[a].state = "ready" /\ held[a].priority = pr
         /\ ws /\ pr \in PrioritiesWith(shard, "ws", candidates) => held[a].websocket
<1>1. a \in shard.views[pr][ViewKind(shard, ws, pr, candidates)].flat \cap candidates
  BY PicksCandidate
<1>2. CASE ws /\ pr \in PrioritiesWith(shard, "ws", candidates)
  <2>1. a \in shard.views[pr].ws.flat \cap candidates
    BY <1>1, <1>2 DEF ViewKind
  <2> QED
    BY <2>1, ViewsAre
<1>3. CASE ~(ws /\ pr \in PrioritiesWith(shard, "ws", candidates))
  <2>1. a \in shard.views[pr].all.flat \cap candidates
    BY <1>1, <1>3 DEF ViewKind
  <2> QED
    BY <1>3, <2>1, ViewsAre
<1> QED
  BY <1>2, <1>3

LEMMA ReadyHasPriority ==
  ASSUME NEW held \in Held, NEW m, NEW shard, ShardOK(held, m, shard, now),
         NEW candidates \in SUBSET Auth, NEW b \in candidates,
         shard.entries[b].state = "ready"
  PROVE  /\ held[b].priority \in PrioritiesWith(shard, "all", candidates)
         /\ held[b].websocket => held[b].priority \in PrioritiesWith(shard, "ws", candidates)
<1>1. held[b].priority \in Priority /\ b \in Auth
  BY ReadyType
<1>2. b \in shard.views[held[b].priority].all.flat
  BY <1>1, ViewsAre
<1>3. held[b].websocket => b \in shard.views[held[b].priority].ws.flat
  BY <1>1, ViewsAre
<1> QED
  BY <1>1, <1>2, <1>3 DEF PrioritiesWith

LEMMA PickBeatsTheReady ==
  ASSUME NEW held \in Held, NEW m, NEW shard, ShardOK(held, m, shard, now),
         NEW ws \in BOOLEAN, NEW pr \in Priority, NEW how, NEW candidates \in SUBSET Auth,
         NEW a, PicksAtPriority(shard, ws, pr, how, candidates, a),
         HighestReadyPriority(shard, ws, candidates, pr),
         NEW b \in candidates, shard.entries[b].state = "ready"
  PROVE  Beats(ws, held[a], held[b])
<1> DEFINE wsAble == PrioritiesWith(shard, "ws", candidates)
           able == PrioritiesWith(shard, "all", candidates)
<1>1. /\ a \in candidates /\ shard.entries[a].state = "ready" /\ held[a].priority = pr
      /\ ws /\ pr \in wsAble => held[a].websocket
  BY PickedIsReady
<1>2. /\ held[b].priority \in able
      /\ held[b].websocket => held[b].priority \in wsAble
  BY ReadyHasPriority
<1>3. held[a].websocket \in BOOLEAN /\ held[b].websocket \in BOOLEAN
  BY <1>1, ReadyType
<1>4. held[a].websocket => pr \in wsAble
  BY <1>1, ReadyHasPriority
<1>5. CASE ws /\ wsAble # {}
  <2>1. pr \in wsAble /\ \A other \in wsAble : other <= pr
    BY <1>5 DEF HighestReadyPriority
  <2> QED
    BY <1>1, <1>2, <1>3, <1>5, <2>1 DEF Beats
<1>6. CASE ~(ws /\ wsAble # {})
  <2>1. pr \in able /\ \A other \in able : other <= pr
    BY <1>6 DEF HighestReadyPriority
  <2>2. held[b].priority <= held[a].priority
    BY <1>1, <1>2, <2>1
  <2>3. ws => held[a].websocket = held[b].websocket
    BY <1>2, <1>3, <1>4, <1>6
  <2> QED
    BY <2>2, <2>3 DEF Beats
<1> QED
  BY <1>5, <1>6

(* An answer that gives a credential, and one that gives none. *)
AnswerOK == PickIsBest /\ RefusalIsJustified

LEMMA PickedOK ==
  ASSUME IInv, UNCHANGED <<now, auths>>, NEW asked \in SUBSET Provider, NEW m \in Model,
         NEW candidates \in SUBSET Auth, NEW p \in asked, NEW ws \in BOOLEAN,
         NEW shard, Fresh(p, m, shard), NEW a \in candidates, shard.entries[a].state = "ready",
         answer' = Picked(asked, m, candidates, a, p, ws),
         \A q \in asked, b \in candidates :
            FreeAt(q, m, b, now) => Beats(ws, auths[p][a], auths[q][b])
  PROVE  AnswerOK'
<1>1. /\ answer'.kind = "picked" /\ answer'.providers = asked /\ answer'.model = m
      /\ answer'.candidates = candidates /\ answer'.auth = a /\ answer'.provider = p
      /\ answer'.preferWebsocket = ws
  BY DEF Picked
<1>2. auths[p] \in Held /\ ShardOK(auths[p], m, shard, now)
  BY DEF IInv, Typed, Fresh
<1>3. /\ auths[p][a] # NoSnapshot /\ Supports(auths[p][a], m)
      /\ BlockState(auths[p][a], m, now) = "ready"
  BY <1>2, ReadyType
<1>4. \A q \in Provider, b \in Auth : FreeAt(q, m, b, now)' = FreeAt(q, m, b, now)
  BY DEF FreeAt
<1>5. ASSUME NEW x \in asked \X candidates, FreeAt(x[1], m, x[2], now)'
      PROVE  IF ws /\ auths[p][a].websocket # auths[x[1]][x[2]].websocket
             THEN auths[p][a].websocket
             ELSE auths[x[1]][x[2]].priority <= auths[p][a].priority
  BY <1>4, <1>5 DEF Beats
<1>6. PickIsBest'
  BY <1>1, <1>3, <1>5 DEF PickIsBest
<1>7. RefusalIsJustified'
  BY <1>1 DEF RefusalIsJustified
<1> QED
  BY <1>6, <1>7 DEF AnswerOK

LEMMA LeastElement ==
  ASSUME NEW T \in SUBSET Nat, T # {}
  PROVE  \E x \in T : \A y \in T : x <= y
<1> DEFINE R == {ss \in Nat \X Nat : ss[1] < ss[2]}
<1>1. IsWellFoundedOn(R, Nat)
  BY NatLessThanWellFounded DEF OpToRel
<1> HIDE DEF R
<1>2. PICK x \in T : \A y \in T : ~(<<y, x>> \in R)
  BY <1>1, WFMin, Zenon
<1>3. ASSUME NEW y \in T PROVE x <= y
  <2>1. y \in Nat /\ x \in Nat
    OBVIOUS
  <2>2. <<y, x>> \in Nat \X Nat /\ <<y, x>>[1] = y /\ <<y, x>>[2] = x
    BY <2>1
  <2>3. ~(y < x)
    BY <1>2, <2>2 DEF R
  <2> QED
    BY <2>1, <2>3, SMT
<1> QED
  BY <1>3

(* What a refusal says of the entries that match the request. *)
LEMMA UnavailableIs ==
  ASSUME NEW total \in SUBSET Entry
  PROVE  /\ Unavailable(total)[1] = "auth_not_found" => total = {}
         /\ Unavailable(total)[1] = "model_cooldown" =>
               /\ \A e \in total : /\ e.state = "cooldown"
                                   /\ e.nextRetryAt # 0 => Unavailable(total)[2] <= e.nextRetryAt
               /\ \E e \in total : Unavailable(total)[2] = e.nextRetryAt
         /\ Unavailable(total)[1] \in {"auth_not_found", "model_cooldown", "auth_unavailable"}
<1> DEFINE cooling == {e \in total : e.state = "cooldown"}
           retryAts == {e.nextRetryAt : e \in cooling} \ {0}
           least == CHOOSE t \in retryAts : \A u \in retryAts : t <= u
<1>1. CASE total = {}
  BY <1>1 DEF Unavailable
<1>2. CASE total # {} /\ cooling = total /\ retryAts # {}
  <2>1. Unavailable(total) = <<"model_cooldown", least>>
    BY <1>2 DEF Unavailable
  <2>2. retryAts \in SUBSET Nat
    BY MaxTimeIsNat DEF Entry, Time
  <2>3. least \in retryAts /\ \A u \in retryAts : least <= u
    <3>1. \E t \in retryAts : \A u \in retryAts : t <= u
      <4> HIDE DEF retryAts
      <4> QED
        BY <1>2, <2>2, LeastElement
    <3> HIDE DEF retryAts
    <3> QED
      BY <3>1
  <2>4. \A e \in total : e.state = "cooldown" /\ (e.nextRetryAt # 0 => least <= e.nextRetryAt)
    <3>1. \A e \in total : e \in cooling /\ e.state = "cooldown"
      BY <1>2
    <3>2. \A e \in cooling : e.nextRetryAt # 0 => e.nextRetryAt \in retryAts
      OBVIOUS
    <3> HIDE DEF cooling, retryAts, least
    <3> QED
      BY <2>3, <3>1, <3>2
  <2>5. \E e \in total : least = e.nextRetryAt
    BY <2>3
  <2> HIDE DEF least, retryAts, cooling
  <2> QED
    BY <2>1, <2>4, <2>5
<1>3. CASE total # {} /\ ~(cooling = total /\ retryAts # {})
  <2>1. Unavailable(total) = <<"auth_unavailable", 0>>
    BY <1>3 DEF Unavailable
  <2> QED
    BY <2>1
<1> QED
  BY <1>1, <1>2, <1>3

(* The entries of the candidates in the shards the request asks. *)
AllMatching(asked, m, candidates) ==
    UNION {Matching(EnsureModel(p, m), candidates) : p \in asked}

LEMMA RefusedOK ==
  ASSUME IInv, UNCHANGED <<now, auths>>, NEW asked \in SUBSET Provider, NEW m \in Model,
         NEW candidates \in SUBSET Auth,
         answer' = Refused(asked, m, candidates, AllMatching(asked, m, candidates)),
         \A p \in asked, b \in candidates : EnsureModel(p, m).entries[b].state # "ready"
  PROVE  AnswerOK'
<1> DEFINE total == AllMatching(asked, m, candidates)
           kind == Unavailable(total)[1]
           resetAt == Unavailable(total)[2]
           entry(p, b) == EnsureModel(p, m).entries[b]
<1>1. /\ answer'.kind = kind /\ answer'.resetAt = resetAt
      /\ answer'.providers = asked /\ answer'.model = m /\ answer'.candidates = candidates
  BY DEF Refused
<1>2. \A p \in asked : Fresh(p, m, EnsureModel(p, m)) /\ auths[p] \in Held
  BY EnsureModelFresh DEF IInv, Typed
<1>3. \A p \in asked, b \in candidates : entry(p, b) # Absent => entry(p, b) \in total
  BY DEF AllMatching, Matching, Serving
<1>4. \A e \in total : \E p \in asked, b \in candidates : e = entry(p, b) /\ e # Absent
  BY DEF AllMatching, Matching, Serving
<1>5. \A p \in asked, b \in candidates : entry(p, b) \in Entry
  BY <1>2 DEF Fresh, ShardOK, Shard
<1>6. total \in SUBSET Entry
  <2> HIDE DEF total, entry
  <2> QED
    BY <1>4, <1>5
<1>7. /\ kind = "auth_not_found" => total = {}
      /\ kind = "model_cooldown" =>
            /\ \A e \in total : e.state = "cooldown" /\ (e.nextRetryAt # 0 => resetAt <= e.nextRetryAt)
            /\ \E e \in total : resetAt = e.nextRetryAt
      /\ kind \in {"auth_not_found", "model_cooldown", "auth_unavailable"}
  <2> HIDE DEF total
  <2> QED
    BY <1>6, UnavailableIs
<1>8. \A p \in asked, b \in candidates :
        entry(p, b) = Absent <=> auths[p][b] = NoSnapshot \/ ~Supports(auths[p][b], m)
  BY <1>2 DEF Fresh, ShardOK, ShardIndexed
<1>9. \A p \in asked, b \in candidates :
        entry(p, b).state = "cooldown" => entry(p, b).nextRetryAt > now
  BY <1>2 DEF Fresh, Promoted
<1>10. now \in Nat
  BY MaxTimeIsNat DEF IInv, Typed, Time
<1>11. \A p \in asked, b \in candidates : ~FreeAt(p, m, b, now)
  BY <1>2, FreeIsReady
<1> HIDE DEF total, kind, resetAt
<1>12. ASSUME kind = "model_cooldown"
       PROVE  /\ resetAt \in Nat /\ resetAt > now
              /\ \A p \in asked, b \in candidates, t \in Int :
                    t < resetAt => ~FreeAt(p, m, b, t)
  <2>1. PICK e \in total : resetAt = e.nextRetryAt
    BY <1>7, <1>12
  <2>2. e \in Entry /\ e.state = "cooldown"
    BY <1>6, <1>7, <1>12, <2>1
  <2>3. resetAt \in Nat
    BY <2>1, <2>2, MaxTimeIsNat DEF Entry, Time
  <2>4. resetAt > now
    <3>1. PICK p \in asked, b \in candidates : e = entry(p, b)
      BY <1>4
    <3> HIDE DEF entry
    <3> QED
      BY <1>9, <2>1, <2>2, <3>1
  <2>5. ASSUME NEW p \in asked, NEW b \in candidates, NEW t \in Int,
               t < resetAt, FreeAt(p, m, b, t)
        PROVE  FALSE
    <3>1. entry(p, b) # Absent
      BY <1>8, <2>5 DEF FreeAt
    <3>2. entry(p, b) \in total /\ entry(p, b).state = "cooldown"
      BY <1>3, <1>7, <1>12, <3>1
    <3>3. entry(p, b).nextRetryAt \in Nat
      BY <1>5, MaxTimeIsNat DEF Entry, Time
    <3>4. resetAt <= entry(p, b).nextRetryAt
      BY <1>7, <1>9, <1>10, <1>12, <3>2, <3>3
    <3>5. entry(p, b).nextRetryAt <= t
      BY <1>2, <2>5, <3>2, FreeIsNotWaiting
    <3> QED
      BY <2>3, <2>5, <3>3, <3>4, <3>5
  <2> QED
    BY <2>3, <2>4, <2>5
<1>13. \A p \in Provider, b \in Auth, t \in Int : FreeAt(p, m, b, t)' = FreeAt(p, m, b, t)
  BY DEF FreeAt
<1>14. ASSUME NEW p \in asked, NEW b \in candidates
       PROVE  /\ ~FreeAt(p, m, b, now)'
              /\ kind = "auth_not_found" =>
                    auths'[p][b] = NoSnapshot \/ ~Supports(auths'[p][b], m)
              /\ kind = "model_cooldown" =>
                    /\ resetAt > now'
                    /\ \A t \in now' .. resetAt - 1 : ~FreeAt(p, m, b, t)'
  <2>1. ~FreeAt(p, m, b, now)'
    BY <1>10, <1>11 DEF FreeAt
  <2>2. kind = "auth_not_found" =>
          auths'[p][b] = NoSnapshot \/ ~Supports(auths'[p][b], m)
    BY <1>3, <1>7, <1>8
  <2>3. ASSUME kind = "model_cooldown", NEW t \in now .. resetAt - 1
        PROVE  ~FreeAt(p, m, b, t)'
    <3>1. resetAt \in Nat
      BY <1>12, <2>3
    <3>2. t \in Int /\ t < resetAt
      BY <1>10, <3>1
    <3>3. ~FreeAt(p, m, b, t)
      BY <1>12, <2>3, <3>2
    <3> QED
      BY <1>13, <3>2, <3>3
  <2>4. kind = "model_cooldown" => resetAt > now'
    BY <1>12
  <2> QED
    BY <2>1, <2>2, <2>3, <2>4
<1>15. RefusalIsJustified'
  BY <1>1, <1>14 DEF RefusalIsJustified
<1>16. PickIsBest'
  BY <1>1, <1>7 DEF PickIsBest
<1> QED
  BY <1>15, <1>16 DEF AnswerOK

LEMMA AnswerFromOK ==
  ASSUME IInv, NEW p \in Provider, NEW m \in Model, NEW ws \in BOOLEAN,
         NEW candidates \in SUBSET Auth, AnswerFrom(p, m, ws, candidates)
  PROVE  AnswerOK'
<1> DEFINE shard == EnsureModel(p, m)
           ready == PrioritiesWith(shard, "all", candidates)
<1>1. Fresh(p, m, shard) /\ auths[p] \in Held /\ ShardOK(auths[p], m, shard, now)
  BY EnsureModelFresh DEF IInv, Typed, Fresh
<1>2. UNCHANGED <<now, auths>>
  BY DEF AnswerFrom
<1>3. CASE \E pr \in ready, a \in candidates :
             /\ HighestReadyPriority(shard, ws, candidates, pr)
             /\ PicksAtPriority(shard, ws, pr, strategy, candidates, a)
             /\ answer' = Picked({p}, m, candidates, a, p, ws)
  <2>1. PICK pr \in ready, a \in candidates :
          /\ HighestReadyPriority(shard, ws, candidates, pr)
          /\ PicksAtPriority(shard, ws, pr, strategy, candidates, a)
          /\ answer' = Picked({p}, m, candidates, a, p, ws)
    BY <1>3
  <2>2. pr \in Priority
    BY DEF PrioritiesWith
  <2> HIDE DEF shard, ready
  <2>3. shard.entries[a].state = "ready"
    BY <1>1, <2>1, <2>2, PickedIsReady
  <2>4. ASSUME NEW b \in candidates, FreeAt(p, m, b, now)
        PROVE  Beats(ws, auths[p][a], auths[p][b])
    <3>1. shard.entries[b].state = "ready"
      BY <1>1, <2>4, FreeIsReady
    <3> QED
      BY <1>1, <2>1, <2>2, <3>1, PickBeatsTheReady
  <2>5. {p} \in SUBSET Provider /\ p \in {p}
    OBVIOUS
  <2>6. \A q \in {p}, b \in candidates :
          FreeAt(q, m, b, now) => Beats(ws, auths[p][a], auths[q][b])
    BY <2>4
  <2> QED
    BY <1>1, <1>2, <2>1, <2>3, <2>5, <2>6, PickedOK
<1>4. CASE /\ ready = {}
           /\ answer' = Refused({p}, m, candidates, Matching(shard, candidates))
  <2>1. AllMatching({p}, m, candidates) = Matching(shard, candidates)
    BY DEF AllMatching
  <2>2. \A b \in candidates : shard.entries[b].state # "ready"
    <3> HIDE DEF shard
    <3> QED
      BY <1>1, <1>4, ReadyHasPriority
  <2>3. \A q \in {p}, b \in candidates : EnsureModel(q, m).entries[b].state # "ready"
    BY <2>2
  <2>4. answer' = Refused({p}, m, candidates, AllMatching({p}, m, candidates))
    BY <1>4, <2>1
  <2>5. {p} \in SUBSET Provider
    OBVIOUS
  <2> QED
    BY <1>2, <2>3, <2>4, <2>5, RefusedOK
<1> QED
  BY <1>3, <1>4 DEF AnswerFrom

LEMMA PickMixedPinnedOK ==
  ASSUME IInv, NEW list \in MixedRequests, NEW m \in Model, NEW pinned \in Auth, NEW tried,
         PickMixedPinned(list, m, pinned, tried)
  PROVE  AnswerOK'
<1> DEFINE candidates == Candidates(pinned, tried)
           asked == Listed(list)
<1>1. candidates \in SUBSET Auth /\ \A b \in candidates : b = pinned
  BY NullsFresh DEF Candidates
<1>2. asked \in SUBSET Provider
  BY MixedRequestsTyped DEF Listed
<1>3. CASE authProviders[pinned] \in asked
  <2>1. AnswerFrom(authProviders[pinned], m, FALSE, candidates)
    BY <1>3 DEF PickMixedPinned
  <2> HIDE DEF candidates
  <2> QED
    BY <1>1, <1>2, <1>3, <2>1, AnswerFromOK
<1>4. CASE authProviders[pinned] \notin asked
  <2>1. answer' = Refused(asked, m, candidates, {}) /\ UNCHANGED <<now, auths>>
    BY <1>4 DEF PickMixedPinned
  <2>2. \A p \in asked, b \in candidates : auths'[p][b] = NoSnapshot
    BY <1>1, <1>2, <1>4, <2>1 DEF IInv, HeldByItsProvider
  <2>3. /\ answer'.kind = "auth_not_found" /\ answer'.providers = asked
        /\ answer'.candidates = candidates
    BY <2>1 DEF Refused, Unavailable
  <2> HIDE DEF asked, candidates
  <2>4. RefusalIsJustified'
    BY <2>2, <2>3 DEF RefusalIsJustified, FreeAt
  <2>5. PickIsBest'
    BY <2>3 DEF PickIsBest
  <2> QED
    BY <2>4, <2>5 DEF AnswerOK
<1> QED
  BY <1>3, <1>4

LEMMA PickMixedOK ==
  ASSUME IInv, NEW list \in MixedRequests, NEW m \in Model, NEW tried, PickMixed(list, m, tried)
  PROVE  AnswerOK'
<1> DEFINE candidates == Candidates(NoAuth, tried)
           ensured == EnsuredShards(list, m)
           asked == Listed(list)
<1>1. candidates \in SUBSET Auth
  BY DEF Candidates
<1>2. /\ list \in Seq(Provider)
      /\ asked = {list[i] : i \in DOMAIN list} /\ asked \in SUBSET Provider
      /\ \A i \in DOMAIN list : list[i] \in Provider /\ list[i] \in asked
      /\ \A i \in DOMAIN list : ensured[i] = EnsureModel(list[i], m)
  BY MixedRequestsTyped DEF Listed, EnsuredShards
<1>3. UNCHANGED <<now, auths>>
  BY DEF PickMixed
<1> HIDE DEF candidates, ensured, asked
<1>4. \A i \in DOMAIN list : /\ Fresh(list[i], m, ensured[i]) /\ auths[list[i]] \in Held
                             /\ ShardOK(auths[list[i]], m, ensured[i], now)
  BY <1>2, EnsureModelFresh DEF IInv, Typed, Fresh
<1>5. CASE MixedAnswer(list, m, candidates, ensured)
  <2>1. PICK best \in Priority, i \in DOMAIN list, a \in candidates :
          /\ \A pr \in Priority : Able(list, ensured, candidates, pr) # {} => pr <= best
          /\ PicksAtPriority(ensured[i], FALSE, best, strategy, candidates, a)
          /\ answer' = Picked(asked, m, candidates, a, list[i], FALSE)
    BY <1>5 DEF MixedAnswer, asked
  <2> DEFINE p == list[i]
             shard == ensured[i]
             held == auths[p]
             ws == FALSE
  <2>2. shard.entries[a].state = "ready" /\ held[a].priority = best
    <3>1. PicksAtPriority(shard, ws, best, strategy, candidates, a) /\ ws \in BOOLEAN
      BY <2>1
    <3>2. held \in Held /\ ShardOK(held, m, shard, now)
      BY <1>4
    <3> HIDE DEF held, shard, p, ws
    <3> QED
      BY <1>1, <3>1, <3>2, PickedIsReady
  <2>3. ASSUME NEW j \in DOMAIN list, NEW b \in candidates, FreeAt(list[j], m, b, now)
        PROVE  auths[list[j]][b].priority <= best
    <3>1. ensured[j].entries[b].state = "ready"
      BY <1>1, <1>2, <1>4, <2>3, FreeIsReady
    <3>2. auths[list[j]][b].priority \in PrioritiesWith(ensured[j], "all", candidates)
      BY <1>1, <1>4, <3>1, ReadyHasPriority
    <3>3. /\ auths[list[j]][b].priority \in Priority
          /\ j \in Able(list, ensured, candidates, auths[list[j]][b].priority)
      BY <3>2 DEF Able, PrioritiesWith
    <3> QED
      BY <2>1, <3>3
  <2>4. \A q \in asked, b \in candidates :
          FreeAt(q, m, b, now) => Beats(ws, auths[p][a], auths[q][b])
    BY <1>2, <2>2, <2>3 DEF Beats
  <2>5. /\ p \in asked /\ Fresh(p, m, shard) /\ ws \in BOOLEAN
        /\ answer' = Picked(asked, m, candidates, a, p, ws)
    BY <1>2, <1>4, <2>1
  <2>6. shard.entries[a].state = "ready" /\ asked \in SUBSET Provider
    BY <1>2, <2>2
  <2> HIDE DEF p, shard, held, ws
  <2> QED
    BY <1>1, <1>3, <2>4, <2>5, <2>6, PickedOK
<1>6. CASE MixedRefusal(list, m, candidates, ensured)
  <2>1. /\ \A pr \in Priority : Able(list, ensured, candidates, pr) = {}
        /\ answer' = Refused(asked, m, candidates,
                             UNION {Matching(ensured[i], candidates) : i \in DOMAIN list})
    BY <1>6 DEF MixedRefusal, asked
  <2>2. AllMatching(asked, m, candidates) =
          UNION {Matching(ensured[i], candidates) : i \in DOMAIN list}
    <3>1. \A i \in DOMAIN list :
            Matching(EnsureModel(list[i], m), candidates) = Matching(ensured[i], candidates)
      BY <1>2
    <3> QED
      BY <1>2, <3>1 DEF AllMatching
  <2>3. \A i \in DOMAIN list, b \in candidates : ensured[i].entries[b].state # "ready"
    <3> SUFFICES ASSUME NEW i \in DOMAIN list, NEW b \in candidates,
                        ensured[i].entries[b].state = "ready"
                 PROVE  FALSE
      OBVIOUS
    <3> DEFINE pr == auths[list[i]][b].priority
    <3>1. pr \in PrioritiesWith(ensured[i], "all", candidates)
      BY <1>1, <1>4, ReadyHasPriority
    <3>2. pr \in Priority /\ i \in Able(list, ensured, candidates, pr)
      BY <3>1 DEF Able, PrioritiesWith
    <3> QED
      BY <2>1, <3>2
  <2>4. \A p \in asked, b \in candidates : EnsureModel(p, m).entries[b].state # "ready"
    BY <1>2, <2>3
  <2> QED
    BY <1>1, <1>2, <1>3, <2>1, <2>2, <2>4, RefusedOK
<1> QED
  BY <1>5, <1>6 DEF PickMixed, candidates, ensured

LEMMA NextAnswerOK == IInv /\ AnswerOK /\ [Next]_vars => AnswerOK'
<1> SUFFICES ASSUME IInv, AnswerOK, [Next]_vars PROVE AnswerOK'
  OBVIOUS
<1>1. ASSUME answer' = NoAnswer PROVE AnswerOK'
  BY <1>1 DEF AnswerOK, PickIsBest, RefusalIsJustified, NoAnswer
<1>2. CASE Tick
  BY <1>1, <1>2 DEF Tick
<1>3. CASE \E how \in Strategies : SetSelector(how)
  BY <1>1, <1>3 DEF SetSelector
<1>4. CASE \E a \in Auth : RemoveAuth(a)
  BY <1>1, <1>4 DEF RemoveAuth
<1>5. CASE \E a \in Auth, s \in Snapshots : UpsertAuth(a, s)
  BY <1>1, <1>5 DEF UpsertAuth, RemoveAuth, Admit
<1>6. CASE \E f \in [Auth -> Snapshots \cup {NoSnapshot}] : RebuildAll(f)
  BY <1>1, <1>6 DEF RebuildAll
<1>7. ASSUME NEW p \in Provider, NEW m \in Model, NEW downstream \in BOOLEAN, NEW pinned,
             NEW tried, PickSingle(p, m, downstream, pinned, tried)
      PROVE  AnswerOK'
  <2> DEFINE ws == downstream /\ p = Codex /\ pinned = NoAuth
  <2>1. ws \in BOOLEAN /\ Candidates(pinned, tried) \in SUBSET Auth
    BY DEF Candidates
  <2>2. AnswerFrom(p, m, ws, Candidates(pinned, tried))
    BY <1>7 DEF PickSingle
  <2> HIDE DEF ws
  <2> QED
    BY <2>1, <2>2, AnswerFromOK
<1>8. CASE \E list \in MixedRequests, m \in Model, pinned \in Auth, tried \in SUBSET Auth :
             PickMixedPinned(list, m, pinned, tried)
  BY <1>8, PickMixedPinnedOK
<1>9. CASE \E list \in MixedRequests, m \in Model, tried \in SUBSET Auth :
             PickMixed(list, m, tried)
  BY <1>9, PickMixedOK
<1>10. CASE UNCHANGED vars
  BY <1>10 DEF vars, AnswerOK, PickIsBest, RefusalIsJustified, FreeAt
<1> QED
  BY <1>2, <1>3, <1>4, <1>5, <1>6, <1>7, <1>8, <1>9, <1>10 DEF Next, OtherNext

THEOREM Answers == Spec => []AnswerOK
<1>1. Init => AnswerOK
  BY DEF Init, AnswerOK, PickIsBest, RefusalIsJustified, NoAnswer
<1> QED
  BY <1>1, NextAnswerOK, Invariance, PTL DEF Spec

(* A request is given an unblocked candidate of a provider it named, and   *)
(* no free candidate it could have had instead comes before it.            *)
THEOREM PickIsBestInvariant == Spec => []PickIsBest
<1>1. AnswerOK => PickIsBest
  BY DEF AnswerOK
<1> QED
  BY <1>1, Answers, PTL

(* A request is refused only when no candidate is free, and the time it is *)
(* told to wait for is ahead and no later than the first to be free.       *)
THEOREM RefusalIsJustifiedInvariant == Spec => []RefusalIsJustified
<1>1. AnswerOK => RefusalIsJustified
  BY DEF AnswerOK
<1> QED
  BY <1>1, Answers, PTL

-----------------------------------------------------------------------------
(* The rotation: how far a credential is from its turn. *)

LEMMA ModSmall ==
  ASSUME NEW n \in Nat \ {0}, NEW x \in 0 .. n - 1
  PROVE  /\ x % n = x
         /\ (x + n) % n = x
  OBVIOUS

LEMMA ModBelow ==
  ASSUME NEW n \in Nat \ {0}, NEW c \in Nat
  PROVE  /\ c % n \in 0 .. n - 1
         /\ (c % n) % n = c % n
  BY ModSmall

LEMMA RoundsAdd ==
  ASSUME NEW n \in Nat, NEW c \in Nat, NEW d \in Nat, c < d
  PROVE  n * c + n <= n * d
  OBVIOUS

(* The ranks of the members of a set are its indices, in order. *)
LEMMA RankIs ==
  ASSUME NEW S \in SUBSET Nat, IsFiniteSet(S), NEW x \in S
  PROVE  /\ Cardinality(S) \in Nat \ {0}
         /\ Rank(S, x) \in 0 .. Cardinality(S) - 1
<1> DEFINE below == {y \in S : y < x}
<1>1. below \subseteq S \ {x}
  OBVIOUS
<1>2. IsFiniteSet(S \ {x}) /\ Cardinality(S \ {x}) = Cardinality(S) - 1
  BY FS_RemoveElement
<1>3. Cardinality(S) \in Nat /\ Cardinality(S \ {x}) \in Nat
  BY <1>2, FS_CardinalityType
<1>4. Cardinality(below) \in Nat /\ Cardinality(below) <= Cardinality(S) - 1
  <2> HIDE DEF below
  <2>1. IsFiniteSet(below) /\ Cardinality(below) <= Cardinality(S \ {x})
    BY <1>1, <1>2, FS_Subset
  <2> QED
    BY <1>2, <2>1, FS_CardinalityType
<1> QED
  BY <1>2, <1>3, <1>4 DEF Rank

LEMMA RankMonotone ==
  ASSUME NEW S \in SUBSET Nat, IsFiniteSet(S), NEW x \in S, NEW y \in S, x < y
  PROVE  Rank(S, x) < Rank(S, y)
<1> DEFINE belowX == {z \in S : z < x}
           belowY == {z \in S : z < y}
<1>1. x \in belowY /\ belowY \subseteq S
  OBVIOUS
<1>2. belowX \subseteq belowY \ {x}
  <2> SUFFICES ASSUME NEW z \in S, z < x PROVE z < y /\ z # x
    OBVIOUS
  <2> QED
    OBVIOUS
<1> HIDE DEF belowX, belowY
<1>3. IsFiniteSet(belowY)
  BY <1>1, FS_Subset
<1>4. IsFiniteSet(belowY \ {x}) /\ Cardinality(belowY \ {x}) = Cardinality(belowY) - 1
  BY <1>1, <1>3, FS_RemoveElement
<1>5. IsFiniteSet(belowX) /\ Cardinality(belowX) <= Cardinality(belowY) - 1
  <2>1. IsFiniteSet(belowX) /\ Cardinality(belowX) <= Cardinality(belowY \ {x})
    BY <1>2, <1>4, FS_Subset
  <2> QED
    BY <1>4, <2>1
<1>6. Cardinality(belowX) \in Nat /\ Cardinality(belowY) \in Nat
  BY <1>3, <1>5, FS_CardinalityType
<1> QED
  BY <1>5, <1>6 DEF Rank, belowX, belowY

LEMMA RankInjective ==
  ASSUME NEW S \in SUBSET Nat, IsFiniteSet(S), NEW x \in S, NEW y \in S, x # y
  PROVE  Rank(S, x) # Rank(S, y)
<1>1. Rank(S, x) \in Nat /\ Rank(S, y) \in Nat
  BY RankType
<1>2. CASE x < y
  BY <1>1, <1>2, RankMonotone
<1>3. CASE y < x
  BY <1>1, <1>3, RankMonotone
<1> QED
  BY <1>2, <1>3

(* How far x is from a cursor that stands at index k. *)
LEMMA DistanceIs ==
  ASSUME NEW S \in SUBSET Nat, IsFiniteSet(S), NEW x \in S, NEW c \in Nat,
         NEW n, n = Cardinality(S), NEW k, k = c % n
  PROVE  /\ k \in 0 .. n - 1
         /\ Distance(S, c, x) = IF k <= Rank(S, x) THEN Rank(S, x) - k
                               ELSE Rank(S, x) + n - k
         /\ Distance(S, c, x) \in 0 .. n - 1
<1> DEFINE r == Rank(S, x)
<1>1. n \in Nat \ {0} /\ r \in 0 .. n - 1
  BY RankIs
<1> HIDE DEF r
<1>2. k \in 0 .. n - 1
  BY <1>1, ModBelow
<1>3. (r + n - k) % n = IF k <= r THEN r - k ELSE r + n - k
  <2>1. CASE k <= r
    <3>1. r - k \in 0 .. n - 1 /\ (r - k) + n = r + n - k
      BY <1>1, <1>2, <2>1
    <3> QED
      BY <1>1, <2>1, <3>1, ModSmall
  <2>2. CASE ~(k <= r)
    <3>1. r + n - k \in 0 .. n - 1
      BY <1>1, <1>2, <2>2
    <3> QED
      BY <1>1, <2>2, <3>1, ModSmall
  <2> QED
    BY <2>1, <2>2
<1>4. Distance(S, c, x) = (r + n - k) % n
  BY DEF Distance, r
<1> QED
  BY <1>1, <1>2, <1>3, <1>4 DEF r

(* Normalising a cursor leaves it where it is. *)
LEMMA DistanceNormalized ==
  ASSUME NEW S \in SUBSET Nat, IsFiniteSet(S), NEW x \in S, NEW c \in Nat
  PROVE  Distance(S, Normalize(c, Cardinality(S)), x) = Distance(S, c, x)
<1>1. Cardinality(S) \in Nat \ {0}
  BY RankIs
<1>2. Normalize(c, Cardinality(S)) = c % Cardinality(S)
  BY <1>1 DEF Normalize
<1>3. (c % Cardinality(S)) % Cardinality(S) = c % Cardinality(S)
  BY <1>1, ModBelow
<1> QED
  BY <1>2, <1>3 DEF Distance

(* A scan that stopped at x before it met a has come closer to a. *)
LEMMA DistanceAfter ==
  ASSUME NEW S \in SUBSET Nat, IsFiniteSet(S), NEW c \in Nat, NEW x \in S, NEW a \in S,
         x # a, Distance(S, c, x) <= Distance(S, c, a)
  PROVE  Distance(S, Rank(S, x) + 1, a) < Distance(S, c, a)
<1> DEFINE n == Cardinality(S)
           r == Rank(S, a)
           q == Rank(S, x)
           k == c % n
           l == (q + 1) % n
<1>1. n \in Nat \ {0} /\ r \in 0 .. n - 1 /\ q \in 0 .. n - 1 /\ q # r
  BY RankIs, RankInjective
<1>2. /\ k \in 0 .. n - 1
      /\ Distance(S, c, a) = IF k <= r THEN r - k ELSE r + n - k
      /\ Distance(S, c, x) = IF k <= q THEN q - k ELSE q + n - k
  BY DistanceIs
<1>3. /\ l \in 0 .. n - 1
      /\ Distance(S, q + 1, a) = IF l <= r THEN r - l ELSE r + n - l
  <2>1. q + 1 \in Nat
    BY <1>1
  <2> HIDE DEF q, r
  <2> QED
    BY <2>1, DistanceIs DEF r
<1>4. l = IF q + 1 = n THEN 0 ELSE q + 1
  <2>1. CASE q + 1 = n
    <3>1. 0 \in 0 .. n - 1 /\ 0 + n = q + 1
      BY <1>1, <2>1
    <3> HIDE DEF n, q
    <3> QED
      BY <1>1, <2>1, <3>1, ModSmall
  <2>2. CASE q + 1 # n
    <3>1. q + 1 \in 0 .. n - 1
      BY <1>1, <2>2
    <3> HIDE DEF n, q
    <3> QED
      BY <1>1, <2>2, <3>1, ModSmall
  <2> QED
    BY <2>1, <2>2
<1> HIDE DEF n, r, q, k, l
<1>5. Distance(S, q + 1, a) < Distance(S, c, a)
  BY <1>1, <1>2, <1>3, <1>4
<1> QED
  BY <1>5 DEF q

-----------------------------------------------------------------------------
(* The picks that can still pass a over before its turn comes: the others  *)
(* of a flat view from the cursor to a; in a grouped one, a round of all   *)
(* groups for each of the others of a's group, and the groups before its.  *)
Ahead(view, a) ==
    LET g == view.parent[a]
    IN  IF Grouped(view)
        THEN Distance(Parents(view), view.parentCursor, g) +
             Cardinality(Parents(view)) * Distance(Members(view, g), view.childCursor[g], a)
        ELSE Distance(view.flat, view.cursor, a)

LEMMA FlatParts ==
  ASSUME NEW view \in View
  PROVE  /\ view.flat \in SUBSET Nat /\ IsFiniteSet(view.flat)
         /\ view.cursor \in Nat
  BY OrderedIDs, AuthFinite DEF View

LEMMA GroupParts ==
  ASSUME NEW view \in View, Grouped(view), NEW a \in view.flat, NEW g, g = view.parent[a]
  PROVE  /\ Parents(view) \in SUBSET Nat /\ IsFiniteSet(Parents(view))
         /\ g \in Parents(view) /\ g \in Parent
         /\ Members(view, g) \in SUBSET Nat /\ IsFiniteSet(Members(view, g))
         /\ a \in Members(view, g)
         /\ view.parentCursor \in Nat /\ view.childCursor[g] \in Nat
<1>1. IsFiniteSet(Parents(view)) /\ IsFiniteSet(Members(view, g))
  BY ParentsFinite, MembersFinite
<1>2. Parents(view) \subseteq Parent
  BY DEF Grouped, Parents, View
<1>3. g \in Parents(view) /\ a \in Members(view, g) /\ Members(view, g) \subseteq view.flat
  BY DEF Parents, Members
<1>4. Parent \subseteq Nat /\ view.flat \subseteq Nat
  BY OrderedIDs DEF View
<1>5. view.parentCursor \in Nat /\ view.childCursor \in [Parent -> Nat]
  BY DEF View
<1> QED
  BY <1>1, <1>2, <1>3, <1>4, <1>5

(* What a view rotates over depends on its pool alone. *)
LEMMA SamePool ==
  ASSUME NEW v, NEW w, Pool(v) = Pool(w)
  PROVE  /\ v.flat = w.flat /\ v.parent = w.parent
         /\ Parents(v) = Parents(w)
         /\ Grouped(v) = Grouped(w)
         /\ \A g : Members(v, g) = Members(w, g)
         /\ \A a : Turns(v, a) = Turns(w, a)
<1>1. v.flat = w.flat /\ v.parent = w.parent
  BY DEF Pool
<1>2. Parents(v) = Parents(w) /\ \A g : Members(v, g) = Members(w, g)
  BY <1>1 DEF Parents, Members
<1>3. Grouped(v) = Grouped(w)
  BY <1>2 DEF Grouped
<1> QED
  BY <1>1, <1>2, <1>3 DEF Turns

(* a's turn comes within one full rotation. *)
LEMMA AheadBelow ==
  ASSUME NEW view \in View, NEW a \in view.flat
  PROVE  /\ Ahead(view, a) \in Nat /\ Turns(view, a) \in Nat
         /\ Ahead(view, a) < Turns(view, a)
<1>1. CASE Grouped(view)
  <2> DEFINE g == view.parent[a]
             n == Cardinality(Parents(view))
             d == Distance(Parents(view), view.parentCursor, g)
             size == Cardinality(Members(view, g))
             e == Distance(Members(view, g), view.childCursor[g], a)
  <2>1. n \in Nat \ {0} /\ size \in Nat \ {0}
    BY <1>1, GroupParts, RankIs
  <2>2. d \in 0 .. n - 1
    BY <1>1, GroupParts, DistanceIs
  <2>3. e \in 0 .. size - 1
    BY <1>1, GroupParts, DistanceIs
  <2>4. Ahead(view, a) = d + n * e /\ Turns(view, a) = n * size
    BY <1>1 DEF Ahead, Turns
  <2> HIDE DEF n, d, size, e
  <2>5. n * e \in Nat /\ n * size \in Nat /\ n * e + n <= n * size
    BY <2>1, <2>3, RoundsAdd
  <2> QED
    BY <2>1, <2>2, <2>4, <2>5
<1>2. CASE ~Grouped(view)
  <2> DEFINE n == Cardinality(view.flat)
             d == Distance(view.flat, view.cursor, a)
  <2>1. n \in Nat \ {0} /\ d \in 0 .. n - 1
    BY FlatParts, RankIs, DistanceIs
  <2>2. Ahead(view, a) = d /\ Turns(view, a) = n
    BY <1>2 DEF Ahead, Turns
  <2> HIDE DEF n, d
  <2> QED
    BY <2>1, <2>2
<1> QED
  BY <1>1, <1>2

(* A pick that passes the candidate a over brings its turn closer. *)
LEMMA AheadAfterPick ==
  ASSUME NEW view \in View, NEW candidates, NEW x, PickRoundRobin(view, candidates, x),
         NEW a \in view.flat \cap candidates, a # x
  PROVE  Ahead(AfterPick(view, x), a) < Ahead(view, a)
<1> DEFINE after == AfterPick(view, x)
           g == view.parent[a]
           h == view.parent[x]
<1>1. /\ after \in View
      /\ after.flat = view.flat /\ after.parent = view.parent
      /\ Parents(after) = Parents(view)
      /\ Grouped(after) = Grouped(view)
      /\ \A f : Members(after, f) = Members(view, f)
  <2>1. after \in View /\ after.flat = view.flat /\ after.parent = view.parent
    BY AfterPickOK
  <2>2. Pool(after) = Pool(view)
    BY <2>1 DEF Pool
  <2> HIDE DEF after
  <2> QED
    BY <2>1, <2>2, SamePool
<1>2. CASE ~Grouped(view)
  <2>1. FirstFrom(view.flat, view.cursor, view.flat \cap candidates, x)
    BY <1>2 DEF PickRoundRobin
  <2>2. /\ x \in view.flat
        /\ Distance(view.flat, view.cursor, x) <= Distance(view.flat, view.cursor, a)
    BY <2>1 DEF FirstFrom
  <2>3. after.cursor = Rank(view.flat, x) + 1
    BY <1>2 DEF AfterPick, View
  <2>4. Distance(view.flat, after.cursor, a) < Distance(view.flat, view.cursor, a)
    BY <2>2, <2>3, FlatParts, DistanceAfter
  <2> HIDE DEF after
  <2>5. Ahead(after, a) < Ahead(view, a)
    BY <1>1, <1>2, <2>4 DEF Ahead
  <2> QED
    BY <2>5 DEF after
<1>3. CASE Grouped(view)
  <2> DEFINE parents == Parents(view)
             members == Members(view, g)
             n == Cardinality(parents)
             d == Distance(parents, view.parentCursor, g)
             e == Distance(members, view.childCursor[g], a)
             dd == Distance(parents, after.parentCursor, g)
             ee == Distance(members, after.childCursor[g], a)
  <2>1. PickGroupedRoundRobin(view, candidates, x)
    BY <1>3 DEF PickRoundRobin
  <2>2. /\ x \in view.flat /\ x \in candidates
        /\ h \in parents
        /\ Distance(parents, view.parentCursor, h) <= d
        /\ g = h => Distance(members, view.childCursor[g], x) <= e
    <3>1. x \in view.flat \cap candidates
      BY <2>1 DEF PickGroupedRoundRobin
    <3>2. FirstFrom(parents, view.parentCursor,
                    {view.parent[b] : b \in view.flat \cap candidates}, h)
      BY <2>1 DEF PickGroupedRoundRobin
    <3>3. FirstFrom(Members(view, h), view.childCursor[h],
                    Members(view, h) \cap (view.flat \cap candidates), x)
      BY <2>1 DEF PickGroupedRoundRobin
    <3>4. h \in parents
      BY <3>1 DEF Parents
    <3>5. Distance(parents, view.parentCursor, h) <= d
      BY <3>2 DEF FirstFrom
    <3>6. ASSUME g = h PROVE Distance(members, view.childCursor[g], x) <= e
      <4>1. a \in members \cap (view.flat \cap candidates)
        BY DEF Members
      <4> QED
        BY <3>3, <3>6, <4>1 DEF FirstFrom
    <3> QED
      BY <3>1, <3>4, <3>5, <3>6
  <2>3. /\ after.parentCursor = Rank(parents, h) + 1
        /\ after.childCursor = [view.childCursor EXCEPT ![h] = Rank(Members(view, h), x) + 1]
    BY <1>3 DEF AfterPick, View
  <2>4. /\ parents \in SUBSET Nat /\ IsFiniteSet(parents)
        /\ g \in parents /\ g \in Parent
        /\ members \in SUBSET Nat /\ IsFiniteSet(members) /\ a \in members
        /\ view.parentCursor \in Nat /\ view.childCursor[g] \in Nat
    BY <1>3, GroupParts
  <2>5. n \in Nat \ {0} /\ d \in 0 .. n - 1 /\ e \in Nat
    <3> HIDE DEF parents, members, g
    <3>1. n \in Nat \ {0}
      BY <2>4, RankIs
    <3>2. d \in 0 .. n - 1
      BY <2>4, DistanceIs
    <3>3. e \in Nat
      BY <2>4, DistanceIs
    <3> QED
      BY <3>1, <3>2, <3>3
  <2>6. view.childCursor \in [Parent -> Nat]
    BY DEF View
  <2>7. Ahead(view, a) = d + n * e /\ Ahead(after, a) = dd + n * ee
    <3>1. Ahead(view, a) = d + n * e
      BY <1>3 DEF Ahead
    <3> HIDE DEF after
    <3>2. Ahead(after, a) = dd + n * ee
      BY <1>1, <1>3 DEF Ahead
    <3> QED
      BY <3>1, <3>2
  <2>8. CASE g # h
    <3>1. after.childCursor[g] = view.childCursor[g]
      BY <2>3, <2>4, <2>6, <2>8
    <3>2. ee = e
      BY <3>1
    <3>3. dd < d
      <4> HIDE DEF parents, g, h, after
      <4> QED
        BY <2>2, <2>3, <2>4, <2>8, DistanceAfter
    <3>4. dd \in Nat
      <4>1. after.parentCursor \in Nat
        BY <1>1 DEF View
      <4> HIDE DEF after, parents, g
      <4> QED
        BY <2>4, <2>5, <4>1, DistanceIs
    <3> HIDE DEF n, d, e, dd, ee
    <3>5. n * e \in Nat
      BY <2>5
    <3> QED
      BY <2>5, <2>7, <3>2, <3>3, <3>4, <3>5
  <2>9. CASE g = h
    <3>1. after.childCursor[g] = Rank(members, x) + 1 /\ x \in members
      BY <2>2, <2>3, <2>4, <2>6, <2>9 DEF Members
    <3>2. ee < e
      <4> HIDE DEF members, g, h, after
      <4> QED
        BY <2>2, <2>4, <2>9, <3>1, DistanceAfter
    <3>3. dd \in 0 .. n - 1 /\ ee \in Nat
      <4>1. after.parentCursor \in Nat /\ after.childCursor \in [Parent -> Nat]
        BY <1>1 DEF View
      <4>2. after.childCursor[g] \in Nat
        BY <2>4, <4>1
      <4> HIDE DEF after, parents, members, g
      <4> QED
        BY <2>4, <2>5, <4>1, <4>2, DistanceIs
    <3> HIDE DEF n, d, e, dd, ee
    <3>4. n * ee \in Nat /\ n * e \in Nat /\ n * ee + n <= n * e
      BY <2>5, <3>2, <3>3, RoundsAdd
    <3> QED
      BY <2>5, <2>7, <3>3, <3>4
  <2> QED
    BY <2>8, <2>9
<1> QED
  BY <1>2, <1>3

(* A rebuild that leaves the pool alone leaves everyone's turn alone. *)
LEMMA AheadRebuilt ==
  ASSUME NEW S \in SUBSET Auth, NEW parent, \A b \in S : parent[b] \in Parent \cup {NoParent},
         NEW old \in View, NEW new, new = BuildReadyView(S, parent, old), Pool(new) = Pool(old),
         NEW a \in old.flat
  PROVE  Ahead(new, a) = Ahead(old, a)
<1> DEFINE groups == [b \in Auth |-> IF b \in S THEN parent[b] ELSE NoParent]
           fresh == [EmptyView EXCEPT !.flat = S, !.parent = groups]
           g == old.parent[a]
<1>1. new \in View /\ new.flat = S /\ new.parent = groups
  BY BuildReadyViewOK
<1>2. /\ new.flat = old.flat /\ new.parent = old.parent
      /\ Parents(new) = Parents(old)
      /\ Grouped(new) = Grouped(old)
      /\ \A f : Members(new, f) = Members(old, f)
  BY SamePool
<1>3. fresh.flat = S /\ fresh.parent = groups
  BY DEF EmptyView
<1>4. /\ Parents(fresh) = Parents(old)
      /\ Grouped(fresh) = Grouped(old)
      /\ \A f : Members(fresh, f) = Members(old, f)
  <2>1. Pool(fresh) = Pool(old)
    BY <1>1, <1>2, <1>3 DEF Pool
  <2> HIDE DEF fresh
  <2> QED
    BY <2>1, SamePool
<1>5. /\ new.cursor = Normalize(old.cursor, Cardinality(S))
      /\ new.parentCursor = IF Grouped(fresh)
                            THEN Normalize(old.parentCursor, Cardinality(Parents(fresh)))
                            ELSE 0
      /\ new.childCursor = [f \in Parent |->
            IF Grouped(fresh) /\ Grouped(old)
            THEN Normalize(old.childCursor[f], Cardinality(Members(fresh, f)))
            ELSE 0]
  BY DEF BuildReadyView, EmptyView
<1> HIDE DEF fresh, groups
<1>6. CASE ~Grouped(old)
  <2>1. Distance(old.flat, new.cursor, a) = Distance(old.flat, old.cursor, a)
    BY <1>1, <1>2, <1>5, FlatParts, DistanceNormalized
  <2> QED
    BY <1>2, <1>6, <2>1 DEF Ahead
<1>7. CASE Grouped(old)
  <2>1. /\ Parents(old) \in SUBSET Nat /\ IsFiniteSet(Parents(old))
        /\ g \in Parents(old) /\ g \in Parent
        /\ Members(old, g) \in SUBSET Nat /\ IsFiniteSet(Members(old, g))
        /\ a \in Members(old, g)
        /\ old.parentCursor \in Nat /\ old.childCursor[g] \in Nat
    BY <1>7, GroupParts
  <2> HIDE DEF g
  <2>2. new.parentCursor = Normalize(old.parentCursor, Cardinality(Parents(old)))
    BY <1>4, <1>5, <1>7
  <2>3. new.childCursor[g] = Normalize(old.childCursor[g], Cardinality(Members(old, g)))
    BY <1>4, <1>5, <1>7, <2>1
  <2>4. Distance(Parents(old), new.parentCursor, g) = Distance(Parents(old), old.parentCursor, g)
    BY <2>1, <2>2, DistanceNormalized
  <2>5. Distance(Members(old, g), new.childCursor[g], a) =
          Distance(Members(old, g), old.childCursor[g], a)
    BY <2>1, <2>3, DistanceNormalized
  <2> QED
    BY <1>2, <1>7, <2>4, <2>5 DEF Ahead, g
<1> QED
  BY <1>6, <1>7

-----------------------------------------------------------------------------
(* Whatever the scheduler does to a shard between two picks, the views     *)
(* whose pool it leaves alone keep everyone's turn.                        *)
Turned(old, new) ==
    \A pr \in Priority :
        Pool(new[pr].all) = Pool(old[pr].all) =>
            \A a \in old[pr].all.flat : Ahead(new[pr].all, a) = Ahead(old[pr].all, a)

LEMMA TurnedSame == \A views : Turned(views, views)
  BY DEF Turned

LEMMA RebuildTurned ==
  ASSUME NEW held, NEW entries, NEW old \in Views,
         \A a \in Auth : entries[a].state = "ready" => held[a] \in Snapshots
  PROVE  Turned(old, Rebuild(held, entries, old).views)
<1> DEFINE new == Rebuild(held, entries, old).views
<1> SUFFICES ASSUME NEW pr \in Priority, Pool(new[pr].all) = Pool(old[pr].all),
                    NEW a \in old[pr].all.flat
             PROVE  Ahead(new[pr].all, a) = Ahead(old[pr].all, a)
  BY DEF Turned
<1> DEFINE ready == ReadyAt(held, entries, pr)
           parent == [b \in ready |-> held[b].parent]
<1>1. new[pr].all = BuildReadyView(ready, parent, old[pr].all)
  BY DEF Rebuild
<1>2. ready \in SUBSET Auth /\ \A b \in ready : held[b] \in Snapshots
  BY DEF ReadyAt
<1>3. \A b \in ready : parent[b] \in Parent \cup {NoParent}
  BY <1>2, SnapshotType
<1>4. old[pr].all \in View
  BY DEF Views
<1> HIDE DEF new, ready, parent
<1> QED
  BY <1>1, <1>2, <1>3, <1>4, AheadRebuilt

LEMMA ReadyIsHeld ==
  ASSUME NEW held \in Held, NEW m, NEW entries, EntriesOK(held, m, entries, now),
         NEW a \in Auth, entries[a].state = "ready"
  PROVE  held[a] \in Snapshots
  BY HeldType DEF EntriesOK, Absent

LEMMA RemoveEntryTurned ==
  ASSUME NEW held \in Held, NEW m, NEW shard, ShardOK(held, m, shard, now), NEW a \in Auth,
         NEW without, \A b \in Auth : b # a => without[b] = held[b]
  PROVE  Turned(shard.views, RemoveEntry(without, shard, a).views)
<1> DEFINE entries == [shard.entries EXCEPT ![a] = Absent]
<1>1. EntriesOK(held, m, shard.entries, now) /\ shard.views \in Views
  BY ShardEntriesOK
<1>2. ASSUME NEW b \in Auth, entries[b].state = "ready"
      PROVE  without[b] \in Snapshots
  <2>1. b # a
    BY <1>1, <1>2 DEF Absent, EntriesOK
  <2>2. shard.entries[b].state = "ready"
    BY <1>1, <1>2, <2>1 DEF EntriesOK
  <2> QED
    BY <1>1, <2>1, <2>2, ReadyIsHeld
<1>3. Turned(shard.views, Rebuild(without, entries, shard.views).views)
  <2> HIDE DEF entries
  <2> QED
    BY <1>1, <1>2, RebuildTurned
<1> QED
  BY <1>3, TurnedSame DEF RemoveEntry

LEMMA UpsertEntryTurned ==
  ASSUME NEW held \in Held, NEW m \in Model, NEW shard, NEW a \in Auth, NEW s \in Snapshots,
         ShardOK(held, m, shard, now), now \in Time,
         NEW with, with[a] = s, \A b \in Auth : b # a => with[b] = held[b], NEW prev
  PROVE  Turned(shard.views, UpsertEntry(with, shard, a, prev, s, m).views)
<1> DEFINE entries == [shard.entries EXCEPT ![a] = Evaluate(s, m, now)]
           kept == [shard EXCEPT !.entries = entries]
           rebuilt == Rebuild(with, entries, shard.views)
           result == UpsertEntry(with, shard, a, prev, s, m)
<1>1. EntriesOK(held, m, shard.entries, now) /\ shard.views \in Views
  BY ShardEntriesOK
<1>2. ASSUME NEW b \in Auth, entries[b].state = "ready"
      PROVE  with[b] \in Snapshots
  <2>1. CASE b = a
    BY <2>1
  <2>2. CASE b # a
    <3>1. shard.entries[b].state = "ready"
      BY <1>1, <1>2, <2>2 DEF EntriesOK
    <3> QED
      BY <1>1, <2>2, <3>1, ReadyIsHeld
  <2> QED
    BY <2>1, <2>2
<1>3. Turned(shard.views, rebuilt.views)
  <2> HIDE DEF entries
  <2> QED
    BY <1>1, <1>2, RebuildTurned
<1>4. kept.views = shard.views
  BY ShardOKType DEF Shard
<1>5. result = kept \/ result = rebuilt
  BY DEF UpsertEntry
<1> HIDE DEF kept, rebuilt, result
<1>6. Turned(shard.views, result.views)
  BY <1>3, <1>4, <1>5, TurnedSame
<1> QED
  BY <1>6 DEF result

LEMMA PromoteExpiredTurned ==
  ASSUME NEW held \in Held, NEW m \in Model, NEW shard, ShardOK(held, m, shard, now),
         now \in Time
  PROVE  Turned(shard.views, PromoteExpired(held, shard, m).views)
<1> DEFINE entries == [a \in Auth |-> IF a \in Due(shard) THEN Evaluate(held[a], m, now)
                                      ELSE shard.entries[a]]
<1>1. EntriesOK(held, m, shard.entries, now) /\ shard.views \in Views
  BY ShardEntriesOK
<1>2. ASSUME NEW a \in Auth, entries[a].state = "ready"
      PROVE  held[a] \in Snapshots
  <2>1. CASE a \in Due(shard)
    <3>1. shard.entries[a] # Absent
      BY <2>1 DEF Due, ShardOK, ShardIndexed, Absent
    <3> QED
      BY <1>1, <3>1, HeldType DEF EntriesOK
  <2>2. CASE a \notin Due(shard)
    BY <1>1, <1>2, <2>2, ReadyIsHeld
  <2> QED
    BY <2>1, <2>2
<1>3. Turned(shard.views, Rebuild(held, entries, shard.views).views)
  <2> HIDE DEF entries
  <2> QED
    BY <1>1, <1>2, RebuildTurned
<1> QED
  BY <1>3, TurnedSame DEF PromoteExpired

LEMMA EnsureModelTurned ==
  ASSUME IInv, NEW p \in Provider, NEW m \in Model, shards[p][m] # NoShard
  PROVE  Turned(shards[p][m].views, EnsureModel(p, m).views)
<1>1. auths[p] \in Held /\ now \in Time /\ ShardOK(auths[p], m, shards[p][m], now)
  BY DEF IInv, Typed, ShardsOK
<1>2. EnsureModel(p, m) = PromoteExpired(auths[p], shards[p][m], m)
  BY DEF EnsureModel
<1> QED
  BY <1>1, <1>2, PromoteExpiredTurned

(* What a change of credential a does to a shard and to the snapshots.     *)
OnlyChanges(a, p, m) ==
    /\ shards'[p][m] # NoShard =>
          /\ shards[p][m] # NoShard
          /\ Turned(shards[p][m].views, shards'[p][m].views)
    /\ \A b \in Auth : b # a => auths'[p][b] = auths[p][b]

LEMMA WithoutTurned ==
  ASSUME IInv, NEW a \in Auth, NEW p \in Provider, NEW m \in Model,
         ShardsWithout(a)[p][m] # NoShard
  PROVE  /\ shards[p][m] # NoShard
         /\ Turned(shards[p][m].views, ShardsWithout(a)[p][m].views)
<1>1. shards[p][m] # NoShard
  BY DEF ShardsWithout
<1>2. ShardOK(auths[p], m, shards[p][m], now) /\ auths[p] \in Held
  BY <1>1 DEF IInv, Typed, ShardsOK
<1>3. CASE p = authProviders[a]
  <2> DEFINE without == AuthsWithout(a)[p]
             shard == shards[p][m]
  <2>1. ShardsWithout(a)[p][m] = RemoveEntry(without, shard, a)
    BY <1>1, <1>3 DEF ShardsWithout
  <2>2. \A b \in Auth : b # a => without[b] = auths[p][b]
    <3>1. without = [auths[p] EXCEPT ![a] = NoSnapshot]
      BY WithoutOK
    <3> HIDE DEF without
    <3> QED
      BY <1>2, <3>1 DEF Held
  <2> HIDE DEF without
  <2>3. Turned(shard.views, RemoveEntry(without, shard, a).views)
    BY <1>2, <2>2, RemoveEntryTurned
  <2> QED
    BY <1>1, <2>1, <2>3
<1>4. CASE p # authProviders[a]
  BY <1>1, <1>4, TurnedSame DEF ShardsWithout
<1> QED
  BY <1>1, <1>3, <1>4

LEMMA RemoveAuthOnlyChanges ==
  ASSUME IInv, NEW a \in Auth, RemoveAuth(a), NEW p \in Provider, NEW m \in Model
  PROVE  OnlyChanges(a, p, m)
<1>1. shards' = ShardsWithout(a) /\ auths' = AuthsWithout(a)
  BY DEF RemoveAuth
<1>2. \A b \in Auth : b # a => auths'[p][b] = auths[p][b]
  <2>1. auths'[p] = [auths[p] EXCEPT ![a] = NoSnapshot] /\ auths[p] \in Held
    BY <1>1, WithoutOK DEF IInv, Typed
  <2> QED
    BY <2>1 DEF Held
<1> QED
  BY <1>1, <1>2, WithoutTurned DEF OnlyChanges

LEMMA AdmitOnlyChanges ==
  ASSUME IInv, NEW a \in Auth, NEW s \in Snapshots, Admit(a, s),
         NEW p \in Provider, NEW m \in Model
  PROVE  OnlyChanges(a, p, m)
<1> DEFINE q == s.provider
           moved == authProviders[a] \notin {NoProvider, q}
           left == IF moved THEN AuthsWithout(a) ELSE auths
           kept == IF moved THEN ShardsWithout(a) ELSE shards
           held == [left[q] EXCEPT ![a] = s]
           shard(k) == IF kept[q][k] = NoShard THEN NoShard
                       ELSE IF ~Supports(s, k) THEN RemoveEntry(held, kept[q][k], a)
                       ELSE UpsertEntry(held, kept[q][k], a, left[q][a], s, k)
<1>1. /\ auths' = [left EXCEPT ![q] = held]
      /\ shards' = [kept EXCEPT ![q] = [k \in Model |-> shard(k)]]
  BY DEF Admit
<1>2. q \in Provider /\ now \in Time /\ auths[p] \in Held /\ auths[q] \in Held
  BY SnapshotType DEF Snapshot, IInv, Typed
<1>3. left \in [Provider -> Held] /\ kept \in [Provider -> [Model -> Shard \cup {NoShard}]]
  <2>1. CASE moved
    BY <2>1, WithoutOK
  <2>2. CASE ~moved
    BY <2>2 DEF IInv, Typed, ShardsOK
  <2> QED
    BY <2>1, <2>2
<1>4. \A r \in Provider, b \in Auth : b # a => left[r][b] = auths[r][b]
  <2>1. CASE moved
    <3>1. \A r \in Provider : left[r] = [auths[r] EXCEPT ![a] = NoSnapshot] /\ auths[r] \in Held
      BY <2>1, WithoutOK DEF IInv, Typed
    <3> HIDE DEF left
    <3> QED
      BY <3>1 DEF Held
  <2>2. CASE ~moved
    BY <2>2
  <2> QED
    BY <2>1, <2>2
<1>5. kept[p][m] # NoShard =>
        shards[p][m] # NoShard /\ Turned(shards[p][m].views, kept[p][m].views)
  <2>1. CASE moved
    BY <2>1, WithoutTurned
  <2>2. CASE ~moved
    BY <2>2, TurnedSame
  <2> QED
    BY <2>1, <2>2
<1>6. kept[q][m] = shards[q][m]
  <2>1. CASE moved
    BY <1>2, <2>1 DEF ShardsWithout
  <2>2. CASE ~moved
    BY <2>2
  <2> QED
    BY <2>1, <2>2
<1>7. held[a] = s /\ \A b \in Auth : b # a => held[b] = auths[q][b]
  <2>1. left[q] \in Held
    BY <1>2, <1>3
  <2> HIDE DEF left
  <2> QED
    BY <1>2, <1>4, <2>1 DEF Held
<1>8. shard(m) # NoShard =>
        shards[q][m] # NoShard /\ Turned(shards[q][m].views, shard(m).views)
  <2> SUFFICES ASSUME shard(m) # NoShard
               PROVE  shards[q][m] # NoShard /\ Turned(shards[q][m].views, shard(m).views)
    OBVIOUS
  <2> DEFINE old == shards[q][m]
             prev == left[q][a]
  <2>1. old # NoShard
    BY <1>6
  <2>2. ShardOK(auths[q], m, old, now)
    BY <1>2, <2>1 DEF IInv, ShardsOK
  <2>3. shard(m) = IF ~Supports(s, m) THEN RemoveEntry(held, old, a)
                   ELSE UpsertEntry(held, old, a, prev, s, m)
    BY <1>6, <2>1
  <2> HIDE DEF shard, old, held, prev
  <2>4. Turned(old.views, RemoveEntry(held, old, a).views)
    BY <1>2, <1>7, <2>2, RemoveEntryTurned
  <2>5. Turned(old.views, UpsertEntry(held, old, a, prev, s, m).views)
    BY <1>2, <1>7, <2>2, UpsertEntryTurned
  <2> QED
    BY <2>1, <2>3, <2>4, <2>5 DEF old
<1> HIDE DEF shard, held, left, kept, moved, q
<1>9. CASE p = q
  <2>1. auths'[p] = held /\ shards'[p][m] = shard(m)
    BY <1>1, <1>2, <1>3, <1>9
  <2> QED
    BY <1>7, <1>8, <1>9, <2>1 DEF OnlyChanges
<1>10. CASE p # q
  <2>1. auths'[p] = left[p] /\ shards'[p][m] = kept[p][m]
    BY <1>1, <1>2, <1>3, <1>10
  <2> QED
    BY <1>4, <1>5, <2>1 DEF OnlyChanges
<1> QED
  BY <1>9, <1>10

-----------------------------------------------------------------------------
(* The invariant of the rotation: what a has waited and what can still be  *)
(* ahead of it are together less than one full rotation of its view.       *)
WaitOK(view, a, count) == a \in view.flat => count + Ahead(view, a) < Turns(view, a)

Waits ==
    /\ waited \in [Provider -> [Model -> [Auth -> Nat]]]
    /\ \A p \in Provider, m \in Model, a \in Auth :
          WaitOK(ViewOf(shards[p][m], auths[p], a), a, waited[p][m][a])

LEMMA ViewOfIs ==
  ASSUME NEW held \in Held, NEW m, NEW shard, NEW t,
         shard # NoShard => ShardOK(held, m, shard, t),
         NEW a \in Auth, NEW view, view = ViewOf(shard, held, a), a \in view.flat
  PROVE  /\ shard # NoShard /\ held[a].priority \in Priority
         /\ view = shard.views[held[a].priority].all
         /\ view \in View
         /\ \A b \in view.flat : b \in Auth /\ held[b].priority = held[a].priority
<1>1. shard # NoShard /\ shard.entries[a].state = "ready"
      /\ view = shard.views[held[a].priority].all
  BY DEF ViewOf, EmptyView
<1>2. ShardOK(held, m, shard, t)
  BY <1>1
<1>3. held[a] \in Snapshots
  BY <1>1, <1>2, HeldType DEF ShardOK, ShardIndexed, Absent
<1>4. held[a].priority \in Priority
  BY <1>3, SnapshotType DEF Snapshot
<1>5. view \in View
  BY <1>1, <1>2, <1>4 DEF ShardOK, Shard
<1>6. view.flat = ReadyAt(held, shard.entries, held[a].priority)
  BY <1>1, <1>2, <1>4 DEF ShardOK, ShardIndexed, Indexes
<1> QED
  BY <1>1, <1>4, <1>5, <1>6 DEF ReadyAt

LEMMA ViewOfType ==
  ASSUME NEW held \in Held, NEW m, NEW shard, NEW t,
         shard # NoShard => ShardOK(held, m, shard, t), NEW a \in Auth
  PROVE  ViewOf(shard, held, a) \in View
<1>1. CASE a \in ViewOf(shard, held, a).flat
  BY <1>1, ViewOfIs
<1>2. CASE ~(shard # NoShard /\ shard.entries[a].state = "ready")
  BY <1>2, EmptyViewType DEF ViewOf
<1>3. CASE shard # NoShard /\ shard.entries[a].state = "ready"
  <2>1. held[a] \in Snapshots
    BY <1>3, HeldType DEF ShardOK, ShardIndexed, Absent
  <2>2. held[a].priority \in Priority
    BY <2>1, SnapshotType DEF Snapshot
  <2> QED
    BY <1>3, <2>2 DEF ShardOK, Shard, ViewOf
<1> QED
  BY <1>1, <1>2, <1>3

(* Whoever is alone in a view never waits. *)
LEMMA AloneNeverWaits ==
  ASSUME NEW view, NEW a, view.flat = {a}
  PROVE  Turns(view, a) = 1
<1>1. Parents(view) = {view.parent[a]}
  BY DEF Parents
<1>2. Cardinality(Parents(view)) = 1 /\ Cardinality(view.flat) = 1
  BY <1>1, FS_Singleton
<1>3. ~Grouped(view)
  BY <1>2 DEF Grouped
<1> QED
  BY <1>2, <1>3 DEF Turns

(* A change of one credential makes no one wait longer whose pool it does  *)
(* not change.                                                             *)
LEMMA WaitAfterChange ==
  ASSUME NEW p \in Provider, NEW m \in Model, IInv, IInv', NEW c \in Auth, OnlyChanges(c, p, m),
         NEW a \in Auth, NEW before, before = ViewOf(shards[p][m], auths[p], a),
         NEW after, after = ViewOf(shards'[p][m], auths'[p], a),
         Pool(before) = Pool(after), NEW count \in Nat, WaitOK(before, a, count)
  PROVE  WaitOK(after, a, count)
<1> SUFFICES ASSUME a \in after.flat
             PROVE  count + Ahead(after, a) < Turns(after, a)
  BY DEF WaitOK
<1> DEFINE held == auths[p]
           heldNext == auths'[p]
           pr == held[a].priority
           prNext == heldNext[a].priority
<1>1. /\ held \in Held /\ heldNext \in Held
      /\ shards[p][m] # NoShard => ShardOK(held, m, shards[p][m], now)
      /\ shards'[p][m] # NoShard => ShardOK(heldNext, m, shards'[p][m], now')
  BY DEF IInv, Typed, ShardsOK
<1>2. before.flat = after.flat /\ Turns(before, a) = Turns(after, a)
  BY SamePool
<1>3. /\ before = shards[p][m].views[pr].all /\ before \in View /\ pr \in Priority
      /\ \A b \in before.flat : b \in Auth /\ held[b].priority = pr
      /\ shards[p][m] # NoShard
  BY <1>1, <1>2, ViewOfIs
<1>4. /\ after = shards'[p][m].views[prNext].all /\ after \in View
      /\ \A b \in after.flat : b \in Auth /\ heldNext[b].priority = prNext
      /\ shards'[p][m] # NoShard
  BY <1>1, ViewOfIs
<1>5. count + Ahead(before, a) < Turns(before, a)
  BY <1>2 DEF WaitOK
<1>6. CASE pr = prNext
  <2>1. Turned(shards[p][m].views, shards'[p][m].views)
    BY <1>4 DEF OnlyChanges
  <2>2. Ahead(after, a) = Ahead(before, a)
    BY <1>2, <1>3, <1>4, <1>6, <2>1 DEF Turned
  <2> QED
    BY <1>2, <1>5, <2>2
<1>7. CASE pr # prNext
  <2>1. \A b \in Auth : b # c => heldNext[b] = held[b]
    BY DEF OnlyChanges
  <2>2. \A b \in after.flat : b = c
    BY <1>2, <1>3, <1>4, <1>7, <2>1
  <2>3. after.flat = {a} /\ before.flat = {a}
    BY <1>2, <2>2
  <2>4. Turns(before, a) = 1 /\ Turns(after, a) = 1
    BY <2>3, AloneNeverWaits
  <2>5. /\ Ahead(before, a) \in Nat
        /\ Ahead(after, a) \in Nat /\ Ahead(after, a) < Turns(after, a)
    BY <1>2, <1>3, <1>4, AheadBelow
  <2> QED
    BY <1>5, <2>4, <2>5
<1> QED
  BY <1>6, <1>7

LEMMA RefusedIsNoPick ==
  \A asked, m, candidates, total : Refused(asked, m, candidates, total).kind # "picked"
  BY DEF Refused, Unavailable

(* The one view a pick turns, and whether the counts take it for that.     *)
LEMMA PickTurnsOneView ==
  ASSUME NEW held \in Held, NEW m, NEW shard, ShardOK(held, m, shard, now),
         NEW ws \in BOOLEAN, NEW pr \in Priority, NEW candidates \in SUBSET Auth,
         NEW x, PicksAtPriority(shard, ws, pr, "round-robin", candidates, x),
         NEW new, new = ShardAfterPick(shard, ws, pr, "round-robin", candidates, x),
         NEW q \in Priority
  PROVE  /\ Pool(new.views[q].all) = Pool(shard.views[q].all)
         /\ new.views[q].all =
               IF q = pr /\ ~(ws /\ held[x].websocket) THEN AfterPick(shard.views[q].all, x)
               ELSE shard.views[q].all
         /\ q = pr /\ ~(ws /\ held[x].websocket) =>
               PickRoundRobin(shard.views[q].all, candidates, x)
         /\ x \in shard.views[q].all.flat <=> q = pr
<1> DEFINE kind == ViewKind(shard, ws, pr, candidates)
           view == AfterPick(shard.views[pr][kind], x)
<1>1. shard \in Shard
  BY ShardOKType
<1>2. kind \in {"all", "ws"}
  BY DEF ViewKind
<1>3. /\ x \in candidates /\ shard.entries[x].state = "ready" /\ held[x].priority = pr
      /\ ws /\ pr \in PrioritiesWith(shard, "ws", candidates) => held[x].websocket
  BY PickedIsReady
<1>4. /\ shard.views[pr].ws.flat = {a \in Auth : /\ shard.entries[a].state = "ready"
                                                /\ held[a].priority = pr /\ held[a].websocket}
      /\ shard.views[q].all.flat = {a \in Auth : /\ shard.entries[a].state = "ready"
                                                /\ held[a].priority = q}
  BY ViewsAre
<1>5. kind = "ws" <=> ws /\ held[x].websocket
  <2>1. ws /\ held[x].websocket => pr \in PrioritiesWith(shard, "ws", candidates)
    BY <1>3, <1>4 DEF PrioritiesWith
  <2> QED
    BY <1>3, <2>1 DEF ViewKind
<1>6. new = [shard EXCEPT !.views[pr][kind] = view]
  BY DEF ShardAfterPick
<1>7. PickRoundRobin(shard.views[pr][kind], candidates, x)
  BY DEF PicksAtPriority
<1>8. /\ view.flat = shard.views[pr][kind].flat
      /\ view.parent = shard.views[pr][kind].parent
  <2>1. shard.views[pr][kind] \in View
    BY <1>1, <1>2 DEF Shard
  <2> QED
    BY <2>1, AfterPickOK
<1> HIDE DEF view, kind
<1>9. new.views[q].all = IF q = pr /\ kind = "all" THEN view ELSE shard.views[q].all
  <2>1. new.views = [shard.views EXCEPT ![pr][kind] = view]
    BY <1>1, <1>6 DEF Shard
  <2>2. shard.views[q] = [all |-> shard.views[q].all, ws |-> shard.views[q].ws]
    BY <1>1 DEF Shard
  <2> QED
    BY <1>1, <1>2, <2>1, <2>2 DEF Shard
<1>10. x \in shard.views[q].all.flat <=> q = pr
  BY <1>3, <1>4
<1>11. CASE q = pr /\ kind = "all"
  BY <1>5, <1>7, <1>8, <1>9, <1>10, <1>11 DEF Pool, view
<1>12. CASE ~(q = pr /\ kind = "all")
  BY <1>2, <1>5, <1>9, <1>10, <1>12
<1> QED
  BY <1>11, <1>12

(* What CountWaited makes of a count. *)
Counted(p, m, view, a, count) ==
    IF PickedFrom(p, m, view) THEN CountTurn(count, a) ELSE count

(* The shard of the view of a credential, between two states in which the  *)
(* snapshots are the same.                                                 *)
LEMMA SameViewOf ==
  ASSUME IInv, IInv', auths' = auths, NEW p \in Provider, NEW m \in Model, NEW a \in Auth,
         NEW before, before = ViewOf(shards[p][m], auths[p], a),
         NEW after, after = ViewOf(shards'[p][m], auths'[p], a),
         Pool(before) = Pool(after), a \in after.flat, NEW pr, pr = auths[p][a].priority
  PROVE  /\ before.flat = after.flat /\ Turns(before, a) = Turns(after, a)
         /\ before = shards[p][m].views[pr].all /\ shards[p][m] # NoShard /\ pr \in Priority
         /\ after = shards'[p][m].views[pr].all /\ shards'[p][m] # NoShard
         /\ before \in View /\ after \in View
<1> DEFINE held == auths[p]
<1>1. /\ held \in Held /\ auths'[p] = held /\ pr = held[a].priority
      /\ shards[p][m] # NoShard => ShardOK(held, m, shards[p][m], now)
      /\ shards'[p][m] # NoShard => ShardOK(held, m, shards'[p][m], now')
  BY DEF IInv, Typed, ShardsOK
<1>2. before.flat = after.flat /\ Turns(before, a) = Turns(after, a)
  BY SamePool
<1>3. /\ before = shards[p][m].views[pr].all /\ shards[p][m] # NoShard
      /\ before \in View /\ pr \in Priority
  <2> DEFINE source == shards[p][m]
  <2>1. /\ a \in before.flat /\ before = ViewOf(source, held, a) /\ held \in Held
        /\ source # NoShard => ShardOK(held, m, source, now)
    BY <1>1, <1>2
  <2> HIDE DEF held, source
  <2>2. /\ source # NoShard /\ held[a].priority \in Priority
        /\ before = source.views[held[a].priority].all /\ before \in View
    BY <2>1, ViewOfIs
  <2> QED
    BY <1>1, <2>2 DEF source
<1>4. after = shards'[p][m].views[pr].all /\ after \in View /\ shards'[p][m] # NoShard
  <2> DEFINE source == shards'[p][m]
  <2>1. /\ a \in after.flat /\ after = ViewOf(source, held, a) /\ held \in Held
        /\ source # NoShard => ShardOK(held, m, source, now')
    BY <1>1
  <2> HIDE DEF held, source
  <2>2. source # NoShard /\ after \in View /\ after = source.views[held[a].priority].all
    BY <2>1, ViewOfIs
  <2> QED
    BY <1>1, <2>2 DEF source
<1> QED
  BY <1>2, <1>3, <1>4

(* A request that leaves a shard as it brought it up to date. *)
LEMMA WaitAfterEnsure ==
  ASSUME IInv, IInv', auths' = auths, NEW p \in Provider, NEW m \in Model, NEW a \in Auth,
         NEW before, before = ViewOf(shards[p][m], auths[p], a),
         NEW after, after = ViewOf(shards'[p][m], auths'[p], a),
         Pool(before) = Pool(after), NEW count \in Nat, WaitOK(before, a, count),
         shards'[p][m] = shards[p][m] \/ shards'[p][m] = EnsureModel(p, m)
  PROVE  WaitOK(after, a, count)
<1> SUFFICES ASSUME a \in after.flat
             PROVE  count + Ahead(after, a) < Turns(after, a)
  BY DEF WaitOK
<1> DEFINE pr == auths[p][a].priority
           shard == EnsureModel(p, m)
<1>1. /\ before.flat = after.flat /\ Turns(before, a) = Turns(after, a)
      /\ before = shards[p][m].views[pr].all /\ shards[p][m] # NoShard /\ pr \in Priority
      /\ after = shards'[p][m].views[pr].all
  BY SameViewOf
<1>2. count + Ahead(before, a) < Turns(before, a)
  BY <1>1 DEF WaitOK
<1> HIDE DEF pr, shard
<1>3. Ahead(after, a) = Ahead(before, a)
  <2>1. CASE shards'[p][m] = shards[p][m]
    BY <1>1, <2>1
  <2>2. CASE shards'[p][m] = shard
    <3>1. Turned(shards[p][m].views, shard.views)
      BY <1>1, EnsureModelTurned DEF shard
    <3> QED
      BY <1>1, <2>2, <3>1 DEF Turned
  <2> QED
    BY <2>1, <2>2 DEF shard
<1> QED
  BY <1>1, <1>2, <1>3

(* The state after a pick from the shard of p and m. *)
PickFrom(p, m, ws, q, candidates, x) ==
    LET shard == EnsureModel(p, m)
    IN  /\ auths' = auths
        /\ PicksAtPriority(shard, ws, q, strategy, candidates, x)
        /\ shards'[p][m] = ShardAfterPick(shard, ws, q, strategy, candidates, x)
        /\ answer'.kind = "picked" /\ answer'.provider = p /\ answer'.model = m
        /\ answer'.auth = x /\ answer'.candidates = candidates
        /\ answer'.preferWebsocket = ws

LEMMA WaitAfterPick ==
  ASSUME IInv, IInv', NEW p \in Provider, NEW m \in Model, NEW ws \in BOOLEAN,
         NEW candidates \in SUBSET Auth, NEW q \in Priority, NEW x \in candidates,
         PickFrom(p, m, ws, q, candidates, x), NEW a \in Auth,
         NEW before, before = ViewOf(shards[p][m], auths[p], a),
         NEW after, after = ViewOf(shards'[p][m], auths'[p], a),
         Pool(before) = Pool(after), NEW count \in Nat, WaitOK(before, a, count)
  PROVE  WaitOK(after, a, Counted(p, m, after, a, count))
<1> SUFFICES ASSUME a \in after.flat
             PROVE  Counted(p, m, after, a, count) + Ahead(after, a) < Turns(after, a)
  BY DEF WaitOK
<1> DEFINE held == auths[p]
           pr == held[a].priority
           shard == EnsureModel(p, m)
           mid == shard.views[pr].all
           turned == pr = q /\ ~(ws /\ held[x].websocket)
<1>1. auths' = auths /\ held \in Held
  BY DEF PickFrom, IInv, Typed
<1>2. /\ before.flat = after.flat /\ Turns(before, a) = Turns(after, a)
      /\ before = shards[p][m].views[pr].all /\ shards[p][m] # NoShard /\ pr \in Priority
      /\ after = shards'[p][m].views[pr].all /\ after \in View
  BY <1>1, SameViewOf
<1>3. count + Ahead(before, a) < Turns(before, a)
  BY <1>2 DEF WaitOK
<1>4. Ahead(after, a) \in Nat /\ Turns(after, a) \in Nat /\ Ahead(after, a) < Turns(after, a)
  BY <1>2, AheadBelow
<1>5. ShardOK(held, m, shard, now)
  BY EnsureModelOK DEF IInv, Typed, ShardsOK
<1>6. mid \in View
  BY <1>2, <1>5 DEF ShardOK, Shard
<1>7. Turned(shards[p][m].views, shard.views)
  BY <1>2, EnsureModelTurned
<1>8. CASE strategy = "round-robin"
  <2>1. /\ PicksAtPriority(shard, ws, q, "round-robin", candidates, x)
        /\ shards'[p][m] = ShardAfterPick(shard, ws, q, "round-robin", candidates, x)
    BY <1>8 DEF PickFrom
  <2>2. /\ Pool(after) = Pool(mid)
        /\ after = IF turned THEN AfterPick(mid, x) ELSE mid
        /\ turned => PickRoundRobin(mid, candidates, x)
        /\ x \in mid.flat <=> pr = q
    <3> HIDE DEF pr, held, shard
    <3> QED
      BY <1>1, <1>2, <1>5, <2>1, PickTurnsOneView
  <2>3. mid.flat = after.flat
    BY <2>2 DEF Pool
  <2>4. PickedFrom(p, m, after) <=> turned
    BY <1>1, <2>2, <2>3 DEF PickedFrom, PickFrom
  <2>5. answer'.auth = x /\ answer'.candidates = candidates
    BY DEF PickFrom
  <2> HIDE DEF shard, pr, held
  <2>6. Ahead(mid, a) = Ahead(before, a)
    BY <1>2, <1>7, <2>2 DEF Turned
  <2> HIDE DEF mid, turned
  <2>7. CASE turned
    <3>1. Counted(p, m, after, a, count) = IF a = x \/ a \notin candidates THEN 0 ELSE count + 1
      BY <1>8, <2>4, <2>5, <2>7 DEF Counted, CountTurn, HadItsTurn
    <3>2. a \in candidates /\ a # x => Ahead(after, a) < Ahead(mid, a)
      BY <1>6, <2>2, <2>3, <2>7, AheadAfterPick
    <3>3. Ahead(mid, a) \in Nat
      BY <1>6, <2>3, AheadBelow
    <3> QED
      BY <1>2, <1>3, <1>4, <2>6, <3>1, <3>2, <3>3
  <2>8. CASE ~turned
    <3>1. after = mid /\ Counted(p, m, after, a, count) = count
      BY <2>2, <2>4, <2>8 DEF Counted
    <3> QED
      BY <1>2, <1>3, <2>6, <3>1
  <2> QED
    BY <2>7, <2>8
<1>9. CASE strategy = "fill-first"
  <2>1. shards'[p][m] = shard
    BY <1>9 DEF PickFrom, ShardAfterPick
  <2>2. Counted(p, m, after, a, count) \in {0, count}
    BY <1>9 DEF Counted, CountTurn, HadItsTurn
  <2>3. Ahead(after, a) = Ahead(before, a)
    <3> HIDE DEF shard, pr
    <3> QED
      BY <1>2, <1>7, <2>1 DEF Turned
  <2> HIDE DEF shard, pr, held
  <2>4. CASE Counted(p, m, after, a, count) = 0
    BY <1>4, <2>4
  <2>5. CASE Counted(p, m, after, a, count) = count
    BY <1>2, <1>3, <2>3, <2>5
  <2> QED
    BY <2>2, <2>4, <2>5
<1> QED
  BY <1>8, <1>9, StrategiesKnown DEF IInv, Typed

LEMMA NotPicked ==
  ASSUME NEW p, NEW m, NEW view, NEW a, NEW count,
         ~(answer'.kind = "picked" /\ answer'.provider = p /\ answer'.model = m)
  PROVE  Counted(p, m, view, a, count) = count
  BY DEF Counted, PickedFrom

LEMMA WaitAfterAnswer ==
  ASSUME IInv, IInv', NEW r \in Provider, NEW k \in Model, NEW ws \in BOOLEAN,
         NEW candidates \in SUBSET Auth, AnswerFrom(r, k, ws, candidates),
         NEW p \in Provider, NEW m \in Model, NEW a \in Auth,
         NEW before, before = ViewOf(shards[p][m], auths[p], a),
         NEW after, after = ViewOf(shards'[p][m], auths'[p], a),
         Pool(before) = Pool(after), NEW count \in Nat, WaitOK(before, a, count)
  PROVE  WaitOK(after, a, Counted(p, m, after, a, count))
<1> DEFINE shard == EnsureModel(r, k)
           new(q, x) == ShardAfterPick(shard, ws, q, strategy, candidates, x)
<1>1. auths' = auths /\ shards \in [Provider -> [Model -> Shard \cup {NoShard}]]
  BY DEF IInv, ShardsOK, AnswerFrom
<1>2. ASSUME NEW q \in Priority, NEW x \in candidates,
             PicksAtPriority(shard, ws, q, strategy, candidates, x),
             shards' = [shards EXCEPT ![r][k] = new(q, x)],
             answer' = Picked({r}, k, candidates, x, r, ws)
      PROVE  WaitOK(after, a, Counted(p, m, after, a, count))
  <2>1. /\ answer'.kind = "picked" /\ answer'.provider = r /\ answer'.model = k
        /\ answer'.auth = x /\ answer'.candidates = candidates
        /\ answer'.preferWebsocket = ws
    BY <1>2 DEF Picked
  <2> DEFINE picked == new(q, x)
  <2>2. shards' = [shards EXCEPT ![r][k] = picked]
    BY <1>2
  <2>3. CASE p = r /\ m = k
    <3>1. shards'[p][m] = picked
      <4> HIDE DEF picked
      <4> QED
        BY <1>1, <2>2, <2>3
    <3>2. PickFrom(p, m, ws, q, candidates, x)
      BY <1>1, <1>2, <2>1, <2>3, <3>1 DEF PickFrom
    <3> QED
      BY <3>2, WaitAfterPick
  <2>4. CASE ~(p = r /\ m = k)
    <3>1. shards'[p][m] = shards[p][m]
      <4> HIDE DEF picked
      <4> QED
        BY <1>1, <2>2, <2>4
    <3>2. Counted(p, m, after, a, count) = count
      BY <2>1, <2>4, NotPicked
    <3>3. WaitOK(after, a, count)
      BY <1>1, <3>1, WaitAfterEnsure
    <3> QED
      BY <3>2, <3>3
  <2> QED
    BY <2>3, <2>4
<1>3. ASSUME shards' = (IF r \in providers THEN [shards EXCEPT ![r][k] = shard] ELSE shards),
             answer' = Refused({r}, k, candidates, Matching(shard, candidates))
      PROVE  WaitOK(after, a, Counted(p, m, after, a, count))
  <2>1. Counted(p, m, after, a, count) = count
    BY <1>3, RefusedIsNoPick, NotPicked
  <2>2. shards'[p][m] = shards[p][m] \/ shards'[p][m] = EnsureModel(p, m)
    <3>1. CASE p = r /\ m = k
      <4>1. shards'[p][m] = shards[p][m] \/ shards'[p][m] = shard
        <5> HIDE DEF shard
        <5> QED
          BY <1>1, <1>3, <3>1
      <4> QED
        BY <3>1, <4>1
    <3>2. CASE ~(p = r /\ m = k)
      <4> HIDE DEF shard
      <4> QED
        BY <1>1, <1>3, <3>2
    <3> QED
      BY <3>1, <3>2
  <2>3. WaitOK(after, a, count)
    BY <1>1, <2>2, WaitAfterEnsure
  <2> QED
    BY <2>1, <2>3
<1>4. \/ \E q \in Priority, x \in candidates :
           /\ PicksAtPriority(shard, ws, q, strategy, candidates, x)
           /\ shards' = [shards EXCEPT ![r][k] = new(q, x)]
           /\ answer' = Picked({r}, k, candidates, x, r, ws)
      \/ /\ shards' = (IF r \in providers THEN [shards EXCEPT ![r][k] = shard] ELSE shards)
         /\ answer' = Refused({r}, k, candidates, Matching(shard, candidates))
  BY DEF AnswerFrom, PrioritiesWith
<1> HIDE DEF shard, new
<1> QED
  BY <1>2, <1>3, <1>4

(* A provider that is not known holds nothing. *)
Known == \A p \in Provider, a \in Auth : auths[p][a] # NoSnapshot => p \in providers

(* Where a mixed request puts the shards it has. *)
LEMMA PutShardsIs ==
  ASSUME NEW list \in MixedRequests, NEW m \in Model, NEW ensured,
         shards \in [Provider -> [Model -> Shard \cup {NoShard}]],
         PutShards(list, m, ensured), NEW p \in Provider, NEW k \in Model
  PROVE  /\ k # m \/ p \notin Listed(list) \cap providers => shards'[p][k] = shards[p][k]
         /\ \A i \in DOMAIN list :
               p = list[i] /\ p \in providers => shards'[p][m] = ensured[i]
<1> DEFINE put(r) == IF r \in Listed(list) \cap providers
                     THEN ensured[CHOOSE i \in DOMAIN list : list[i] = r]
                     ELSE shards[r][m]
<1>1. shards' = [r \in Provider |-> [shards[r] EXCEPT ![m] = put(r)]]
  BY DEF PutShards
<1>2. ASSUME NEW i \in DOMAIN list, p = list[i], p \in providers
      PROVE  put(p) = ensured[i]
  <2> DEFINE j == CHOOSE j \in DOMAIN list : list[j] = p
  <2>1. p \in Listed(list)
    BY <1>2 DEF Listed
  <2>2. j \in DOMAIN list /\ list[j] = p
    BY <1>2
  <2>3. j = i
    <3> HIDE DEF j
    <3> QED
      BY <1>2, <2>2, MixedRequestsTyped
  <2>4. put(p) = ensured[j]
    BY <1>2, <2>1
  <2> QED
    BY <2>3, <2>4
<1>3. p \notin Listed(list) \cap providers => put(p) = shards[p][m]
  OBVIOUS
<1> HIDE DEF put
<1>4. shards'[p][k] = IF k = m THEN put(p) ELSE shards[p][k]
  BY <1>1
<1>5. shards'[p][m] = put(p)
  BY <1>1
<1> QED
  BY <1>2, <1>3, <1>4, <1>5

LEMMA WaitAfterMixed ==
  ASSUME IInv, IInv', Known, NEW list \in MixedRequests, NEW k \in Model,
         NEW tried, PickMixed(list, k, tried),
         NEW p \in Provider, NEW m \in Model, NEW a \in Auth,
         NEW before, before = ViewOf(shards[p][m], auths[p], a),
         NEW after, after = ViewOf(shards'[p][m], auths'[p], a),
         Pool(before) = Pool(after), NEW count \in Nat, WaitOK(before, a, count)
  PROVE  WaitOK(after, a, Counted(p, m, after, a, count))
<1> DEFINE candidates == Candidates(NoAuth, tried)
           ensured == EnsuredShards(list, k)
<1>1. /\ auths' = auths /\ shards \in [Provider -> [Model -> Shard \cup {NoShard}]]
      /\ candidates \in SUBSET Auth
  BY DEF IInv, ShardsOK, PickMixed, Candidates
<1>2. \A i \in DOMAIN list : ensured[i] = EnsureModel(list[i], k) /\ list[i] \in Provider
  BY MixedRequestsTyped DEF EnsuredShards
<1>3. DOMAIN ensured = DOMAIN list
  BY DEF EnsuredShards
<1> HIDE DEF candidates, ensured
<1>4. CASE MixedRefusal(list, k, candidates, ensured)
  <2>1. PutShards(list, k, ensured)
    BY <1>4 DEF MixedRefusal
  <2>2. Counted(p, m, after, a, count) = count
    BY <1>4, RefusedIsNoPick, NotPicked DEF MixedRefusal
  <2>3. shards'[p][m] = shards[p][m] \/ shards'[p][m] = EnsureModel(p, m)
    <3>1. CASE m # k \/ p \notin Listed(list) \cap providers
      BY <1>1, <2>1, <3>1, PutShardsIs
    <3>2. CASE m = k /\ p \in Listed(list) \cap providers
      <4>1. PICK i \in DOMAIN list : p = list[i]
        BY <3>2 DEF Listed
      <4>2. shards'[p][m] = ensured[i]
        BY <1>1, <2>1, <3>2, <4>1, PutShardsIs
      <4> QED
        BY <1>2, <3>2, <4>1, <4>2
    <3> QED
      BY <3>1, <3>2
  <2>4. WaitOK(after, a, count)
    BY <1>1, <2>3, WaitAfterEnsure
  <2> QED
    BY <2>2, <2>4
<1>5. CASE MixedAnswer(list, k, candidates, ensured)
  <2>1. PICK best \in Priority, i \in DOMAIN list, x \in candidates :
          /\ PicksAtPriority(ensured[i], FALSE, best, strategy, candidates, x)
          /\ answer' = Picked(Listed(list), k, candidates, x, list[i], FALSE)
          /\ PutShards(list, k, [ensured EXCEPT ![i] =
                ShardAfterPick(@, FALSE, best, strategy, candidates, x)])
    BY <1>5 DEF MixedAnswer
  <2> DEFINE picked == ShardAfterPick(ensured[i], FALSE, best, strategy, candidates, x)
             put == [ensured EXCEPT ![i] = picked]
  <2>2. PutShards(list, k, put)
    BY <2>1
  <2>3. /\ answer'.kind = "picked" /\ answer'.provider = list[i] /\ answer'.model = k
        /\ answer'.auth = x /\ answer'.candidates = candidates
        /\ answer'.preferWebsocket = FALSE
    BY <2>1 DEF Picked
  <2> HIDE DEF picked
  <2>4. put[i] = picked /\ \A j \in DOMAIN list : j # i => put[j] = ensured[j]
    BY <1>3
  <2> HIDE DEF put
  <2>5. list[i] \in providers
    <3>1. ShardOK(auths[list[i]], k, ensured[i], now) /\ auths[list[i]] \in Held
      BY <1>2, EnsureModelOK DEF IInv, Typed, ShardsOK
    <3>2. ensured[i].entries[x].state = "ready"
      BY <1>1, <2>1, <3>1, PickedIsReady
    <3>3. auths[list[i]][x] # NoSnapshot
      BY <1>1, <3>1, <3>2 DEF ShardOK, ShardIndexed, Absent
    <3> QED
      BY <1>1, <1>2, <3>3 DEF Known
  <2>6. CASE p = list[i] /\ m = k
    <3>1. shards'[p][m] = picked
      BY <1>1, <2>2, <2>4, <2>5, <2>6, PutShardsIs
    <3>2. PickFrom(p, m, FALSE, best, candidates, x)
      BY <1>1, <1>2, <2>1, <2>3, <2>6, <3>1 DEF PickFrom, picked
    <3> QED
      BY <1>1, <3>2, WaitAfterPick
  <2>7. CASE ~(p = list[i] /\ m = k)
    <3>1. Counted(p, m, after, a, count) = count
      BY <2>3, <2>7, NotPicked
    <3>2. shards'[p][m] = shards[p][m] \/ shards'[p][m] = EnsureModel(p, m)
      <4>1. CASE m # k \/ p \notin Listed(list) \cap providers
        BY <1>1, <2>2, <4>1, PutShardsIs
      <4>2. CASE m = k /\ p \in Listed(list) \cap providers
        <5>1. PICK j \in DOMAIN list : p = list[j]
          BY <4>2 DEF Listed
        <5>2. j # i
          BY <2>7, <4>2, <5>1
        <5>3. shards'[p][m] = put[j]
          BY <1>1, <2>2, <4>2, <5>1, PutShardsIs
        <5> QED
          BY <1>2, <2>4, <4>2, <5>1, <5>2, <5>3
      <4> QED
        BY <4>1, <4>2
    <3>3. WaitOK(after, a, count)
      BY <1>1, <3>2, WaitAfterEnsure
    <3> QED
      BY <3>1, <3>3
  <2> QED
    BY <2>6, <2>7
<1> QED
  BY <1>4, <1>5 DEF PickMixed, candidates, ensured

LEMMA WaitAfterNext ==
  ASSUME IInv, IInv', Known, Next, NEW p \in Provider, NEW m \in Model, NEW a \in Auth,
         NEW before, before = ViewOf(shards[p][m], auths[p], a),
         NEW after, after = ViewOf(shards'[p][m], auths'[p], a),
         Pool(before) = Pool(after), NEW count \in Nat, WaitOK(before, a, count)
  PROVE  WaitOK(after, a, Counted(p, m, after, a, count))
<1>1. ASSUME shards' = shards, auths' = auths, answer'.kind # "picked"
      PROVE  WaitOK(after, a, Counted(p, m, after, a, count))
  <2>1. after = before /\ Counted(p, m, after, a, count) = count
    BY <1>1, NotPicked
  <2> QED
    BY <2>1
<1>2. ASSUME NEW c \in Auth, OnlyChanges(c, p, m), answer'.kind # "picked"
      PROVE  WaitOK(after, a, Counted(p, m, after, a, count))
  <2>1. Counted(p, m, after, a, count) = count
    BY <1>2, NotPicked
  <2>2. WaitOK(after, a, count)
    BY <1>2, WaitAfterChange
  <2> QED
    BY <2>1, <2>2
<1>3. CASE Tick \/ \E how \in Strategies : SetSelector(how)
  BY <1>1, <1>3 DEF Tick, SetSelector, NoAnswer
<1>4. ASSUME NEW c \in Auth, RemoveAuth(c)
      PROVE  WaitOK(after, a, Counted(p, m, after, a, count))
  BY <1>2, <1>4, RemoveAuthOnlyChanges DEF RemoveAuth, NoAnswer
<1>5. ASSUME NEW c \in Auth, NEW s \in Snapshots, Admit(c, s)
      PROVE  WaitOK(after, a, Counted(p, m, after, a, count))
  BY <1>2, <1>5, AdmitOnlyChanges DEF Admit, NoAnswer
<1>6. CASE \E f \in [Auth -> Snapshots \cup {NoSnapshot}] : RebuildAll(f)
  <2>1. shards'[p][m] = NoShard
    BY <1>6 DEF RebuildAll, NoShards
  <2> QED
    BY <2>1 DEF ViewOf, EmptyView, WaitOK
<1>7. ASSUME NEW r \in Provider, NEW k \in Model, NEW ws \in BOOLEAN, NEW pinned, NEW tried,
             PickSingle(r, k, ws, pinned, tried)
      PROVE  WaitOK(after, a, Counted(p, m, after, a, count))
  <2> DEFINE candidates == Candidates(pinned, tried)
             prefer == ws /\ r = Codex /\ pinned = NoAuth
  <2>1. candidates \in SUBSET Auth /\ prefer \in BOOLEAN
    BY DEF Candidates
  <2>2. AnswerFrom(r, k, prefer, candidates)
    BY <1>7 DEF PickSingle
  <2> HIDE DEF candidates, prefer
  <2> QED
    BY <2>1, <2>2, WaitAfterAnswer
<1>8. ASSUME NEW list \in MixedRequests, NEW k \in Model, NEW pinned \in Auth, NEW tried,
             PickMixedPinned(list, k, pinned, tried)
      PROVE  WaitOK(after, a, Counted(p, m, after, a, count))
  <2>1. CASE authProviders[pinned] \in Listed(list)
    <3> DEFINE candidates == Candidates(pinned, tried)
               r == authProviders[pinned]
    <3>1. candidates \in SUBSET Auth /\ r \in Provider
      BY <2>1, MixedRequestsTyped DEF Candidates, Listed
    <3>2. AnswerFrom(r, k, FALSE, candidates)
      BY <1>8, <2>1 DEF PickMixedPinned
    <3> HIDE DEF candidates, r
    <3> QED
      BY <3>1, <3>2, WaitAfterAnswer
  <2>2. CASE authProviders[pinned] \notin Listed(list)
    BY <1>1, <1>8, <2>2, RefusedIsNoPick DEF PickMixedPinned
  <2> QED
    BY <2>1, <2>2
<1>9. ASSUME NEW list \in MixedRequests, NEW k \in Model, NEW tried, PickMixed(list, k, tried)
      PROVE  WaitOK(after, a, Counted(p, m, after, a, count))
  BY <1>9, WaitAfterMixed
<1> QED
  BY <1>3, <1>4, <1>5, <1>6, <1>7, <1>8, <1>9 DEF Next, OtherNext, UpsertAuth

(* Of the pool a credential is in, no step brings others before it but the *)
(* one that gives it its turn in the view.                                 *)
LEMMA AheadNoFarther ==
  ASSUME IInv, IInv', Known, Next, NEW p \in Provider, NEW m \in Model, NEW a \in Auth,
         NEW before, before = ViewOf(shards[p][m], auths[p], a),
         NEW after, after = ViewOf(shards'[p][m], auths'[p], a),
         Pool(before) = Pool(after), before \in View, after \in View, a \in before.flat,
         ~(PickedFrom(p, m, after) /\ HadItsTurn(a))
  PROVE  Ahead(after, a) <= Ahead(before, a)
<1>1. before.flat = after.flat /\ Turns(before, a) = Turns(after, a)
  BY SamePool
<1>2. /\ Ahead(before, a) \in Nat /\ Turns(before, a) \in Nat
      /\ Ahead(before, a) < Turns(before, a) /\ Ahead(after, a) \in Nat
  BY <1>1, AheadBelow
<1>3. PICK count \in Nat : count + Ahead(before, a) + 1 = Turns(before, a)
  <2>1. Turns(before, a) - Ahead(before, a) - 1 \in Nat
    BY <1>2
  <2> QED
    BY <1>2, <2>1
<1>4. WaitOK(before, a, count)
  BY <1>2, <1>3 DEF WaitOK
<1>5. WaitOK(after, a, Counted(p, m, after, a, count))
  BY <1>4, WaitAfterNext
<1>6. Counted(p, m, after, a, count) \in {count, count + 1}
  BY DEF Counted, CountTurn
<1>7. Counted(p, m, after, a, count) + Ahead(after, a) < Turns(after, a)
  BY <1>1, <1>5 DEF WaitOK
<1> QED
  BY <1>1, <1>2, <1>3, <1>6, <1>7

LEMMA KnownStep ==
  ASSUME IInv, Known, [Next]_vars
  PROVE  Known'
<1>1. CASE UNCHANGED <<auths, providers>>
  BY <1>1 DEF Known
<1>2. ASSUME NEW a \in Auth, RemoveAuth(a)
      PROVE  Known'
  <2>1. ASSUME NEW p \in Provider, NEW b \in Auth, auths'[p][b] # NoSnapshot
        PROVE  p \in providers'
    <3>1. auths'[p] = [auths[p] EXCEPT ![a] = NoSnapshot] /\ auths[p] \in Held
      BY <1>2, WithoutOK DEF RemoveAuth, IInv, Typed
    <3>2. auths[p][b] # NoSnapshot
      BY <2>1, <3>1 DEF Held
    <3> QED
      BY <1>2, <3>2 DEF Known, RemoveAuth
  <2> QED
    BY <2>1 DEF Known
<1>3. ASSUME NEW a \in Auth, NEW s \in Snapshots, Admit(a, s)
      PROVE  Known'
  <2> DEFINE q == s.provider
             left == IF authProviders[a] \notin {NoProvider, q} THEN AuthsWithout(a) ELSE auths
  <2>1. auths' = [left EXCEPT ![q] = [left[q] EXCEPT ![a] = s]] /\ providers' = providers \cup {q}
    BY <1>3 DEF Admit
  <2>2. left \in [Provider -> Held]
    BY WithoutOK DEF IInv, Typed
  <2>3. \A p \in Provider, b \in Auth : left[p][b] # NoSnapshot => p \in providers
    <3>1. \A p \in Provider : /\ AuthsWithout(a)[p] = [auths[p] EXCEPT ![a] = NoSnapshot]
                              /\ auths[p] \in Held
      BY WithoutOK DEF IInv, Typed
    <3>2. \A p \in Provider, b \in Auth :
             AuthsWithout(a)[p][b] # NoSnapshot => auths[p][b] # NoSnapshot
      BY <3>1 DEF Held
    <3> QED
      BY <3>2 DEF Known
  <2> HIDE DEF left
  <2>4. \A p \in Provider : p # q => auths'[p] = left[p]
    BY <2>1, <2>2
  <2> QED
    BY <2>1, <2>3, <2>4 DEF Known
<1>4. ASSUME NEW f, RebuildAll(f)
      PROVE  Known'
  BY <1>4 DEF Known, RebuildAll
<1>5. ASSUME NEW p, NEW m, NEW ws, NEW candidates, AnswerFrom(p, m, ws, candidates)
      PROVE  UNCHANGED <<auths, providers>>
  BY <1>5 DEF AnswerFrom
<1>6. ASSUME Tick \/ (\E how \in Strategies : SetSelector(how)) \/ UNCHANGED vars
      PROVE  UNCHANGED <<auths, providers>>
  BY <1>6 DEF Tick, SetSelector, vars
<1>7. ASSUME NEW list, NEW m, NEW tried, PickMixed(list, m, tried)
      PROVE  UNCHANGED <<auths, providers>>
  BY <1>7 DEF PickMixed
<1>8. ASSUME NEW list, NEW m, NEW pinned, NEW tried, PickMixedPinned(list, m, pinned, tried)
      PROVE  UNCHANGED <<auths, providers>>
  BY <1>5, <1>8 DEF PickMixedPinned
<1> QED
  BY <1>1, <1>2, <1>3, <1>4, <1>5, <1>6, <1>7, <1>8 DEF Next, OtherNext, UpsertAuth, PickSingle

(* The rotation's invariant. *)
RInv == IInv /\ Known /\ Waits

LEMMA FullRotationIsNext == [FullRotationNext]_rotationVars => [Next]_vars
  BY DEF FullRotationNext, Next, rotationVars, vars

LEMMA WaitOKAtOnce ==
  ASSUME NEW view \in View, NEW a
  PROVE  WaitOK(view, a, 0)
  BY AheadBelow DEF WaitOK

LEMMA WaitsStep ==
  ASSUME RInv, IInv', [FullRotationNext]_rotationVars
  PROVE  Waits'
<1>1. /\ waited \in [Provider -> [Model -> [Auth -> Nat]]]
      /\ \A p \in Provider, m \in Model, a \in Auth :
            WaitOK(ViewOf(shards[p][m], auths[p], a), a, waited[p][m][a])
  BY DEF RInv, Waits
<1>2. ASSUME NEW p \in Provider, NEW m \in Model, NEW a \in Auth
      PROVE  ViewOf(shards'[p][m], auths'[p], a) \in View
  <2> DEFINE held == auths'[p]
             shard == shards'[p][m]
  <2>1. held \in Held /\ (shard # NoShard => ShardOK(held, m, shard, now'))
    BY DEF IInv, Typed, ShardsOK
  <2> HIDE DEF held, shard
  <2>2. ViewOf(shard, held, a) \in View
    BY <2>1, ViewOfType
  <2> QED
    BY <2>2 DEF held, shard
<1>3. CASE FullRotationNext
  <2>0. Next /\ CountWaited
    BY <1>3 DEF FullRotationNext, Next
  <2> DEFINE before(p, m, a) == ViewOf(shards[p][m], auths[p], a)
             after(p, m, a) == ViewOf(shards'[p][m], auths'[p], a)
             count(p, m, a) == IF Pool(before(p, m, a)) # Pool(after(p, m, a)) THEN 0
                               ELSE Counted(p, m, after(p, m, a), a, waited[p][m][a])
  <2>1. waited' = [p \in Provider |-> [m \in Model |-> [a \in Auth |-> count(p, m, a)]]]
    BY <2>0 DEF CountWaited, Counted
  <2>2. ASSUME NEW p \in Provider, NEW m \in Model, NEW a \in Auth
        PROVE  count(p, m, a) \in Nat /\ WaitOK(after(p, m, a), a, count(p, m, a))
    <3> DEFINE w == waited[p][m][a]
               b == before(p, m, a)
               c == after(p, m, a)
    <3>1. w \in Nat /\ WaitOK(b, a, w)
      BY <1>1
    <3>2. b = ViewOf(shards[p][m], auths[p], a) /\ c = ViewOf(shards'[p][m], auths'[p], a)
      OBVIOUS
    <3>3. c \in View
      BY <1>2
    <3>4. count(p, m, a) = IF Pool(b) # Pool(c) THEN 0 ELSE Counted(p, m, c, a, w)
      OBVIOUS
    <3> HIDE DEF w, b, c, before, after, count
    <3>5. Counted(p, m, c, a, w) \in Nat
      BY <3>1 DEF Counted, CountTurn, HadItsTurn
    <3>6. Pool(b) = Pool(c) => WaitOK(c, a, Counted(p, m, c, a, w))
      BY <2>0, <3>1, <3>2, WaitAfterNext DEF RInv
    <3>7. WaitOK(c, a, 0)
      BY <3>3, WaitOKAtOnce
    <3> QED
      BY <3>4, <3>5, <3>6, <3>7 DEF c
  <2> HIDE DEF count, after
  <2>3. waited' \in [Provider -> [Model -> [Auth -> Nat]]]
    BY <2>1, <2>2
  <2>4. \A p \in Provider, m \in Model, a \in Auth : WaitOK(after(p, m, a), a, waited'[p][m][a])
    BY <2>1, <2>2
  <2> QED
    BY <2>3, <2>4 DEF Waits, after
<1>4. CASE UNCHANGED rotationVars
  BY <1>1, <1>4 DEF Waits, rotationVars, vars
<1> QED
  BY <1>3, <1>4

LEMMA RInvInit == RotationInit => RInv
<1> SUFFICES ASSUME RotationInit PROVE RInv
  OBVIOUS
<1>1. IInv
  BY InitIInv DEF RotationInit
<1>2. Known
  BY DEF RotationInit, Init, NoAuths, Known
<1>3. Waits
  <2>1. \A p \in Provider, m \in Model, a \in Auth : waited[p][m][a] = 0
    BY DEF RotationInit
  <2>2. ASSUME NEW p \in Provider, NEW m \in Model, NEW a \in Auth
        PROVE  WaitOK(ViewOf(shards[p][m], auths[p], a), a, waited[p][m][a])
    <3>1. shards[p][m] = NoShard
      BY DEF RotationInit, Init, NoShards
    <3> QED
      BY <3>1 DEF ViewOf, EmptyView, WaitOK
  <2>3. waited \in [Provider -> [Model -> [Auth -> Nat]]]
    BY DEF RotationInit
  <2> QED
    BY <2>1, <2>2, <2>3 DEF Waits
<1> QED
  BY <1>1, <1>2, <1>3 DEF RInv

LEMMA RInvStep == RInv /\ [FullRotationNext]_rotationVars => RInv'
<1> SUFFICES ASSUME RInv, [FullRotationNext]_rotationVars PROVE RInv'
  OBVIOUS
<1>1. [Next]_vars
  BY FullRotationIsNext
<1>2. IInv' /\ Known'
  BY <1>1, NextIInv, KnownStep DEF RInv
<1>3. Waits'
  BY <1>2, WaitsStep
<1> QED
  BY <1>2, <1>3 DEF RInv

(* What TLC checks of the rotation is some of what the scheduler can do. *)
LEMMA RotationIsFull == RotationSpec => FullRotationSpec
<1>1. Tried \subseteq SUBSET Auth /\ {} \in SUBSET Auth
  BY DEF Tried
<1>2. ASSUME NEW p \in Provider, NEW m \in Model, NEW ws \in BOOLEAN, NEW tried \in Tried,
             PickSingle(p, m, ws, NoAuth, tried)
      PROVE  OtherNext
  BY <1>1, <1>2 DEF OtherNext
<1>3. ASSUME NEW list \in MixedRequests, NEW m \in Model, NEW pinned \in Auth,
             PickMixedPinned(list, m, pinned, {})
      PROVE  OtherNext
  BY <1>1, <1>3 DEF OtherNext
<1>4. RotationNext => FullRotationNext
  <2> SUFFICES ASSUME RotationNext PROVE FullRotationNext
    OBVIOUS
  <2>1. CountWaited
    BY DEF RotationNext
  <2>2. ASSUME NEW list \in MixedRequests, NEW m \in Model, NEW tried \in Tried,
               PickMixed(list, m, tried), CountMixed(<<list, m>>)
        PROVE  FullRotationNext
    BY <1>1, <2>1, <2>2 DEF FullRotationNext
  <2>3. ASSUME OtherNext, CountMixed(NoRequest)
        PROVE  FullRotationNext
    BY <2>1, <2>3 DEF FullRotationNext
  <2>4. ASSUME Tick \/ (\E how \in Strategies : SetSelector(how)) \/ (\E a \in Auth : RemoveAuth(a))
               \/ (\E a \in Auth, s \in Snapshots : UpsertAuth(a, s))
        PROVE  OtherNext
    BY <2>4 DEF OtherNext
  <2> QED
    BY <1>2, <1>3, <2>2, <2>3, <2>4 DEF RotationNext
<1> QED
  BY <1>4, PTL DEF RotationSpec, FullRotationSpec

(* What a ready credential has waited and what can still be ahead of it    *)
(* are together less than one full rotation of its view, whatever the      *)
(* scheduler does.                                                         *)
THEOREM RotationInvariance == FullRotationSpec => []RInv
  BY RInvInit, RInvStep, PTL DEF FullRotationSpec

(* A ready credential is not passed over for longer than one full rotation *)
(* of its view while the pool stays the same.                              *)
THEOREM BoundedWaitInvariant == FullRotationSpec => []BoundedWait
<1>1. RInv => BoundedWait
  <2> SUFFICES ASSUME RInv, NEW p \in Provider, NEW m \in Model, NEW a \in Auth,
                      NEW view, view = ViewOf(shards[p][m], auths[p], a), a \in view.flat
               PROVE  waited[p][m][a] < Turns(view, a)
    BY DEF BoundedWait
  <2>1. waited[p][m][a] \in Nat /\ WaitOK(view, a, waited[p][m][a])
    BY DEF RInv, Waits
  <2>2. view \in View
    <3> DEFINE held == auths[p]
               shard == shards[p][m]
    <3>1. held \in Held /\ (shard # NoShard => ShardOK(held, m, shard, now))
      BY DEF RInv, IInv, Typed, ShardsOK
    <3> HIDE DEF held, shard
    <3>2. ViewOf(shard, held, a) \in View
      BY <3>1, ViewOfType
    <3> QED
      BY <3>2 DEF held, shard
  <2>3. Ahead(view, a) \in Nat /\ Turns(view, a) \in Nat
    BY <2>2, AheadBelow
  <2> QED
    BY <2>1, <2>3 DEF WaitOK
<1> QED
  BY <1>1, RotationInvariance, PTL

-----------------------------------------------------------------------------
(* The slots of a mixed request. *)

SlotsBefore(flats, i) == {x \in (1 .. i - 1) \X Auth : x[2] \in flats[x[1]]}

LEMMA SlotsBeforeFinite ==
  ASSUME NEW flats, NEW i \in Nat \ {0}
  PROVE  /\ IsFiniteSet(SlotsBefore(flats, i))
         /\ SlotStart(flats, i) = Cardinality(SlotsBefore(flats, i))
         /\ SlotStart(flats, i) \in Nat
<1>1. IsFiniteSet(1 .. i - 1)
  BY FS_Interval
<1>2. IsFiniteSet((1 .. i - 1) \X Auth)
  BY <1>1, AuthFinite, FS_Product
<1>3. IsFiniteSet(SlotsBefore(flats, i))
  <2>1. SlotsBefore(flats, i) \in SUBSET ((1 .. i - 1) \X Auth)
    BY DEF SlotsBefore
  <2> QED
    BY <1>2, <2>1, FS_Subset
<1> QED
  BY <1>3, SlotsByProvider, FS_CardinalityType DEF SlotStart, SlotsBefore

(* Each provider has its own slots, one for every credential. *)
LEMMA SlotsOf ==
  ASSUME NEW n \in Nat, NEW flats \in [1 .. n -> SUBSET Auth], NEW i \in 1 .. n
  PROVE  /\ Cardinality(flats[i]) \in Nat
         /\ SlotStart(flats, i + 1) = SlotStart(flats, i) + Cardinality(flats[i])
<1> DEFINE before == SlotsBefore(flats, i)
           own == {i} \X flats[i]
           upTo == SlotsBefore(flats, i + 1)
<1>1. IsFiniteSet(flats[i]) /\ Cardinality(flats[i]) \in Nat
  BY AuthFinite, FS_CardinalityType
<1>2. IsFiniteSet(own) /\ Cardinality(own) = Cardinality(flats[i])
  <2>1. IsFiniteSet({i}) /\ Cardinality({i}) = 1
    BY FS_Singleton
  <2>2. IsFiniteSet(own) /\ Cardinality(own) = Cardinality({i}) * Cardinality(flats[i])
    BY <1>1, <2>1, FS_Product
  <2> QED
    BY <1>1, <2>1, <2>2
<1>3. IsFiniteSet(before) /\ Cardinality(before) = SlotStart(flats, i) /\ SlotStart(flats, i) \in Nat
  BY SlotsBeforeFinite
<1>4. upTo = before \cup own
  <2>1. 1 .. (i + 1) - 1 = (1 .. i - 1) \cup {i}
    OBVIOUS
  <2>2. flats[i] \subseteq Auth
    OBVIOUS
  <2> QED
    BY <2>1, <2>2, Zenon DEF SlotsBefore
<1>5. before \cap own = {}
  BY DEF SlotsBefore
<1> HIDE DEF before, own, upTo
<1>6. Cardinality(before \cup own) = Cardinality(before) + Cardinality(own) - Cardinality(before \cap own)
  BY <1>2, <1>3, FS_Union
<1>7. Cardinality(before \cap own) = 0
  BY <1>5, FS_EmptySet
<1>8. SlotStart(flats, i + 1) = Cardinality(upTo)
  BY SlotsBeforeFinite DEF upTo
<1> QED
  BY <1>1, <1>2, <1>3, <1>4, <1>6, <1>7, <1>8

LEMMA SlotsMonotone ==
  ASSUME NEW flats, NEW i \in Nat \ {0}, NEW j \in Nat \ {0}, i <= j
  PROVE  /\ SlotStart(flats, i) \in Nat /\ SlotStart(flats, j) \in Nat
         /\ SlotStart(flats, i) <= SlotStart(flats, j)
<1>1. SlotsBefore(flats, i) \in SUBSET SlotsBefore(flats, j)
  BY DEF SlotsBefore
<1> QED
  BY <1>1, SlotsBeforeFinite, FS_Subset

LEMMA FirstSlot == \A flats : SlotStart(flats, 1) = 0
<1> TAKE flats
<1>1. SlotsBefore(flats, 1) = {}
  BY DEF SlotsBefore
<1> QED
  BY <1>1, SlotsBeforeFinite, FS_EmptySet

(* Every slot is some provider's. *)
LEMMA SlotHasOwner ==
  ASSUME NEW n \in Nat, NEW flats, NEW slot \in Nat, slot < SlotStart(flats, n + 1)
  PROVE  \E j \in 1 .. n : SlotStart(flats, j) <= slot /\ slot < SlotStart(flats, j + 1)
<1> DEFINE past == {j \in 1 .. n : slot < SlotStart(flats, j + 1)}
<1>1. n # 0
  BY FirstSlot
<1>2. n \in past
  BY <1>1
<1>3. past \in SUBSET Nat /\ past # {}
  <2>1. past \subseteq 1 .. n
    OBVIOUS
  <2> HIDE DEF past
  <2> QED
    BY <1>2, <2>1
<1>4. PICK j \in past : \A k \in past : j <= k
  <2> HIDE DEF past
  <2> QED
    BY <1>3, LeastElement
<1>5. SlotStart(flats, j) <= slot
  <2>1. CASE j = 1
    BY <2>1, FirstSlot
  <2>2. CASE j # 1
    <3>1. j - 1 \in 1 .. n /\ j - 1 \notin past /\ (j - 1) + 1 = j
      BY <1>4, <2>2
    <3>2. SlotStart(flats, j) \in Nat
      BY SlotsMonotone
    <3> QED
      BY <3>1, <3>2
  <2> QED
    BY <2>1, <2>2
<1> QED
  BY <1>5

(* The slots are as many as the credentials of the pool. *)
PoolFlats(list, pool) == [i \in 1 .. Len(list) |-> {a \in Auth : <<list[i], a>> \in pool}]

LEMMA SlotsAreThePool ==
  ASSUME NEW list \in MixedRequests, NEW pool \in SUBSET (Listed(list) \X Auth)
  PROVE  /\ IsFiniteSet(pool)
         /\ SlotStart(PoolFlats(list, pool), Len(list) + 1) = Cardinality(pool)
<1> DEFINE n == Len(list)
           flats == PoolFlats(list, pool)
           slots == SlotsBefore(flats, n + 1)
           f == [x \in slots |-> <<list[x[1]], x[2]>>]
<1>1. /\ n \in Nat /\ DOMAIN list = 1 .. n
      /\ \A i, j \in 1 .. n : list[i] = list[j] => i = j
  BY MixedRequestsTyped
<1>2. \A x : x \in slots <=> x \in (1 .. n) \X Auth /\ <<list[x[1]], x[2]>> \in pool
  BY <1>1 DEF SlotsBefore, PoolFlats
<1>3. IsFiniteSet(slots) /\ SlotStart(flats, n + 1) = Cardinality(slots)
  BY <1>1, SlotsBeforeFinite
<1> HIDE DEF slots, flats
<1>4. f \in [slots -> pool]
  BY <1>2
<1>5. ASSUME NEW x \in slots, NEW y \in slots, f[x] = f[y]
      PROVE  x = y
  <2>1. list[x[1]] = list[y[1]] /\ x[2] = y[2]
    BY <1>5
  <2>2. x \in (1 .. n) \X Auth /\ y \in (1 .. n) \X Auth
    BY <1>2
  <2>3. x[1] = y[1]
    BY <1>1, <2>1, <2>2
  <2> QED
    BY <2>1, <2>2, <2>3
<1>6. ASSUME NEW z \in pool
      PROVE  \E x \in slots : f[x] = z
  <2>1. z[1] \in Listed(list) /\ z[2] \in Auth /\ z = <<z[1], z[2]>>
    OBVIOUS
  <2>2. PICK i \in 1 .. n : list[i] = z[1]
    BY <1>1, <2>1 DEF Listed
  <2>3. <<i, z[2]>> \in slots
    BY <1>2, <2>1, <2>2
  <2>4. f[<<i, z[2]>>] = z
    BY <2>1, <2>2, <2>3
  <2> QED
    BY <2>3, <2>4
<1> HIDE DEF f
<1>7. f \in Bijection(slots, pool)
  BY <1>4, <1>5, <1>6, Zenon DEF Bijection, Injection, Surjection, IsInjective
<1>8. ExistsBijection(slots, pool)
  BY <1>7 DEF ExistsBijection
<1> QED
  BY <1>3, <1>8, FS_Bijection DEF flats

-----------------------------------------------------------------------------
(* The picks that can still pass a credential over in a mixed rotation     *)
(* that stands at slot: its provider has the slots from start on, width of *)
(* them, out of total, and of the provider's own picks ahead still pass it *)
(* over.  The rotation reaches the provider's slots, and if it is already  *)
(* past too many of them, comes round to them once more.                   *)
SlotsAhead(slot, start, width, total, ahead) ==
    IF slot < start THEN start - slot + ahead
    ELSE IF slot >= start + width THEN total + start - slot + ahead
    ELSE IF ahead < start + width - slot THEN ahead
    ELSE ahead + total - width

Wrapped(slot, total) == IF slot = total THEN 0 ELSE slot

LEMMA WrappedIs ==
  ASSUME NEW total \in Nat \ {0}, NEW slot \in 1 .. total
  PROVE  /\ slot % total = Wrapped(slot, total)
         /\ Wrapped(slot, total) \in 0 .. total - 1
<1>1. CASE slot = total
  <2>1. 0 \in 0 .. total - 1 /\ 0 + total = slot
    BY <1>1
  <2>2. slot % total = 0
    BY <2>1, ModSmall
  <2> QED
    BY <1>1, <2>1, <2>2 DEF Wrapped
<1>2. CASE slot # total
  <2>1. slot \in 0 .. total - 1
    BY <1>2
  <2> QED
    BY <1>2, <2>1, ModSmall DEF Wrapped
<1> QED
  BY <1>1, <1>2

LEMMA SlotsAheadBelow ==
  ASSUME NEW start \in Nat, NEW width \in Nat, NEW total \in Nat, start + width <= total,
         NEW slot \in 0 .. total - 1, NEW ahead \in 0 .. width - 1
  PROVE  SlotsAhead(slot, start, width, total, ahead) \in 0 .. total - 1
  BY DEF SlotsAhead

LEMMA SlotsAheadNoFarther ==
  ASSUME NEW start \in Nat, NEW width \in Nat, NEW total \in Nat, start + width <= total,
         NEW slot \in 0 .. total - 1, NEW ahead \in 0 .. width - 1, NEW after \in 0 .. ahead
  PROVE  SlotsAhead(slot, start, width, total, after) <= SlotsAhead(slot, start, width, total, ahead)
  BY DEF SlotsAhead

(* The provider's own pick brings the turn closer. *)
LEMMA SlotsAheadAfterOwn ==
  ASSUME NEW start \in Nat, NEW width \in Nat, NEW total \in Nat, start + width <= total,
         NEW slot \in 0 .. total - 1, NEW ahead \in 0 .. width - 1, NEW after \in 0 .. ahead - 1,
         NEW next, next = IF slot \in start .. start + width - 1 THEN slot + 1 ELSE start + 1
  PROVE  SlotsAhead(Wrapped(next, total), start, width, total, after) <
            SlotsAhead(slot, start, width, total, ahead)
<1>1. CASE slot \in start .. start + width - 1
  <2>1. CASE slot + 1 = total
    BY <1>1, <2>1 DEF SlotsAhead, Wrapped
  <2>2. CASE slot + 1 # total
    <3>1. Wrapped(next, total) = slot + 1 /\ slot + 1 >= start
      BY <1>1, <2>2 DEF Wrapped
    <3>2. CASE slot + 1 < start + width
      BY <1>1, <3>1, <3>2 DEF SlotsAhead
    <3>3. CASE slot + 1 = start + width
      <4>1. /\ SlotsAhead(slot, start, width, total, ahead) = ahead + total - width
            /\ SlotsAhead(slot + 1, start, width, total, after) = total - width + after
        BY <1>1, <3>1, <3>3 DEF SlotsAhead
      <4> QED
        BY <3>1, <4>1
    <3> QED
      BY <1>1, <3>2, <3>3
  <2> QED
    BY <2>1, <2>2
<1>2. CASE slot \notin start .. start + width - 1
  <2>1. Wrapped(next, total) = start + 1
    BY <1>2 DEF Wrapped
  <2>2. SlotsAhead(start + 1, start, width, total, after) = after
    BY DEF SlotsAhead
  <2>3. /\ SlotsAhead(slot, start, width, total, ahead) \in Nat
        /\ SlotsAhead(slot, start, width, total, ahead) >= ahead
    BY DEF SlotsAhead
  <2> QED
    BY <2>1, <2>2, <2>3
<1> QED
  BY <1>1, <1>2

(* So does another's, which comes before it in the rotation. *)
LEMMA SlotsAheadAfterOther ==
  ASSUME NEW start \in Nat, NEW width \in Nat, NEW total \in Nat, start + width <= total,
         NEW slot \in 0 .. total - 1, NEW ahead \in 0 .. width - 1,
         NEW next,
         \/ slot < start /\ next \in slot + 1 .. start
         \/ slot >= start + width /\ (next \in slot + 1 .. total \/ next \in 1 .. start)
  PROVE  SlotsAhead(Wrapped(next, total), start, width, total, ahead) <
            SlotsAhead(slot, start, width, total, ahead)
<1>1. CASE slot < start /\ next \in slot + 1 .. start
  <2>1. Wrapped(next, total) = next
    BY <1>1 DEF Wrapped
  <2> QED
    BY <1>1, <2>1 DEF SlotsAhead
<1>2. CASE slot >= start + width /\ next \in slot + 1 .. total
  <2>1. CASE next = total
    BY <1>2, <2>1 DEF SlotsAhead, Wrapped
  <2>2. CASE next # total
    BY <1>2, <2>2 DEF SlotsAhead, Wrapped
  <2> QED
    BY <2>1, <2>2
<1>3. CASE slot >= start + width /\ next \in 1 .. start
  <2>1. Wrapped(next, total) = next
    BY <1>3 DEF Wrapped
  <2> QED
    BY <1>3, <2>1 DEF SlotsAhead
<1> QED
  BY <1>1, <1>2, <1>3

(* A turn of i takes the rotation from slot to next, but not past the      *)
(* slots of k.                                                             *)
TurnFrom(i, k, slot, next, start, width, total) ==
    /\ total \in Nat \ {0} /\ start \in Nat /\ width \in Nat \ {0} /\ start + width <= total
    /\ slot \in 0 .. total - 1 /\ next \in 1 .. total
    /\ i = k => next = IF slot \in start .. start + width - 1 THEN slot + 1 ELSE start + 1
    /\ i # k => \/ slot < start /\ next \in slot + 1 .. start
                \/ /\ slot >= start + width
                   /\ next \in slot + 1 .. total \/ next \in 1 .. start

(* The arithmetic of a turn: first has the slot, i has the turn, at own,   *)
(* and k, at start, comes no sooner than i from first on.                  *)
TurnGiven(n, first, i, k, slot, next, start, width, own, size, total) ==
    /\ n \in Nat /\ first \in 1 .. n /\ i \in 1 .. n /\ k \in 1 .. n
    /\ total \in Nat \ {0} /\ slot \in 0 .. total - 1
    /\ start \in Nat /\ width \in Nat \ {0} /\ start + width <= total
    /\ own \in Nat /\ size \in Nat \ {0} /\ own + size <= total
    /\ i = k => own = start /\ size = width
    /\ (IF first <= i THEN i - first ELSE i + n - first) <=
          (IF first <= k THEN k - first ELSE k + n - first)
    /\ i < first => own + size <= slot
    /\ first < i => slot < own
    /\ i = first => own <= slot /\ slot < own + size
    /\ k < first => start + width <= slot
    /\ first < k => slot < start
    /\ k = first => start <= slot /\ slot < start + width
    /\ i < k => own + size <= start
    /\ k < i => start + width <= own
    /\ next = IF i = first THEN slot + 1 ELSE own + 1

LEMMA TurnArithmetic ==
  ASSUME NEW n, NEW first, NEW i, NEW k, NEW total, NEW slot, NEW start, NEW width,
         NEW own, NEW size, NEW next,
         TurnGiven(n, first, i, k, slot, next, start, width, own, size, total)
  PROVE  TurnFrom(i, k, slot, next, start, width, total)
<1>1. next \in 1 .. total
  BY DEF TurnGiven
<1>2. CASE i = k
  <2>1. i = first <=> slot \in start .. start + width - 1
    BY <1>2 DEF TurnGiven
  <2>2. next = IF slot \in start .. start + width - 1 THEN slot + 1 ELSE start + 1
    BY <1>2, <2>1 DEF TurnGiven
  <2> QED
    BY <1>1, <1>2, <2>2 DEF TurnFrom, TurnGiven
<1>3. CASE i # k
  <2>1. k # first
    BY <1>3 DEF TurnGiven
  <2>2. CASE first < k
    <3>1. first <= i /\ i < k
      BY <1>3, <2>2 DEF TurnGiven
    <3>2. slot < start /\ next \in slot + 1 .. start
      BY <1>1, <1>3, <2>2, <3>1 DEF TurnGiven
    <3> QED
      BY <1>1, <1>3, <3>2 DEF TurnFrom, TurnGiven
  <2>3. CASE k < first
    <3>1. first <= i \/ i < k
      BY <1>3, <2>3 DEF TurnGiven
    <3>2. slot >= start + width /\ (next \in slot + 1 .. total \/ next \in 1 .. start)
      BY <1>1, <1>3, <2>3, <3>1 DEF TurnGiven
    <3> QED
      BY <1>1, <1>3, <3>2 DEF TurnFrom, TurnGiven
  <2> QED
    BY <2>1, <2>2, <2>3 DEF TurnGiven
<1> QED
  BY <1>2, <1>3

(* Where a turn that provider i has while k could have had it leaves the   *)
(* cursor: at i's next slot, which does not pass k's.                      *)
LEMMA TurnMoves ==
  ASSUME NEW list \in MixedRequests, NEW m \in Model, NEW n, n = Len(list),
         mixedCursors \in [MixedRequests \X Model -> Nat], strategy = "round-robin",
         NEW flats \in [1 .. n -> SUBSET Auth], NEW able \in SUBSET (1 .. n),
         NEW i \in able, flats[i] # {}, NEW k \in able, flats[k] # {},
         MixedTurn(list, m, flats, able, i),
         NEW start, start = SlotStart(flats, k), NEW width, width = Cardinality(flats[k]),
         NEW total, total = SlotStart(flats, n + 1),
         NEW slot, slot = mixedCursors[<<list, m>>] % total,
         NEW next, next = mixedCursors'[<<list, m>>]
  PROVE  TurnFrom(i, k, slot, next, start, width, total)
<1> DEFINE turn == mixedCursors[<<list, m>>] % SlotStart(flats, Len(list) + 1)
           first == CHOOSE j \in DOMAIN list : /\ SlotStart(flats, j) <= turn
                                               /\ turn < SlotStart(flats, j + 1)
           own == SlotStart(flats, i)
           size == Cardinality(flats[i])
<1>0. turn = slot
  OBVIOUS
<1>1. n \in Nat /\ DOMAIN list = 1 .. n /\ <<list, m>> \in MixedRequests \X Model
  BY MixedRequestsTyped
<1>2. /\ start \in Nat /\ width \in Nat \ {0} /\ SlotStart(flats, k + 1) = start + width
      /\ own \in Nat /\ size \in Nat \ {0} /\ SlotStart(flats, i + 1) = own + size
  <2>1. ASSUME NEW j \in 1 .. n
        PROVE  /\ SlotStart(flats, j) \in Nat /\ Cardinality(flats[j]) \in Nat
               /\ SlotStart(flats, j + 1) = SlotStart(flats, j) + Cardinality(flats[j])
    <3>1. j \in Nat \ {0}
      BY <1>1
    <3>2. SlotStart(flats, j) \in Nat
      BY <3>1, SlotsBeforeFinite
    <3>3. /\ Cardinality(flats[j]) \in Nat
          /\ SlotStart(flats, j + 1) = SlotStart(flats, j) + Cardinality(flats[j])
      BY <1>1, SlotsOf
    <3> QED
      BY <3>2, <3>3
  <2>2. \A j \in 1 .. n : flats[j] # {} => Cardinality(flats[j]) # 0
    BY AuthFinite, FS_EmptySet
  <2> QED
    BY <2>1, <2>2
<1>3. start + width <= total /\ own + size <= total /\ total \in Nat \ {0}
  <2>1. \A j \in 1 .. n : /\ SlotStart(flats, j + 1) <= SlotStart(flats, n + 1)
                          /\ SlotStart(flats, n + 1) \in Nat
    BY <1>1, SlotsMonotone
  <2> HIDE DEF own, size
  <2>2. start + width <= total /\ total \in Nat
    BY <1>2, <2>1
  <2>3. own + size <= total
    BY <1>2, <2>1
  <2> QED
    BY <1>2, <2>2, <2>3
<1>4. slot \in 0 .. total - 1
  BY <1>1, <1>3, ModBelow
<1>5. /\ first \in 1 .. n
      /\ SlotStart(flats, first) <= slot /\ slot < SlotStart(flats, first + 1)
  <2>1. \E j \in DOMAIN list : SlotStart(flats, j) <= slot /\ slot < SlotStart(flats, j + 1)
    <3>1. slot \in Nat /\ slot < SlotStart(flats, n + 1)
      BY <1>3, <1>4
    <3> HIDE DEF first, turn
    <3>2. \E j \in 1 .. n : SlotStart(flats, j) <= slot /\ slot < SlotStart(flats, j + 1)
      BY <1>1, <3>1, SlotHasOwner
    <3> QED
      BY <1>1, <3>2
  <2> HIDE DEF turn
  <2>2. /\ first \in DOMAIN list
        /\ SlotStart(flats, first) <= turn /\ turn < SlotStart(flats, first + 1)
    BY <1>0, <2>1
  <2> QED
    BY <1>0, <1>1, <2>2
<1>6. /\ (i + n - first) % n <= (k + n - first) % n
      /\ next = IF i = first THEN slot + 1 ELSE own + 1
  <2>1. strategy # "fill-first"
    OBVIOUS
  <2>2. /\ \A j \in able : (i + Len(list) - first) % Len(list) <= (j + Len(list) - first) % Len(list)
        /\ mixedCursors' = [mixedCursors EXCEPT ![<<list, m>>] = 1 + IF i = first THEN turn ELSE own]
    BY <2>1, Zenon DEF MixedTurn
  <2> HIDE DEF first, own, turn
  <2>3. next = 1 + IF i = first THEN turn ELSE own
    BY <1>1, <2>2
  <2>4. (i + n - first) % n <= (k + n - first) % n
    BY <2>2, Zenon
  <2>5. CASE i = first
    BY <1>0, <1>4, <2>3, <2>4, <2>5
  <2>6. CASE i # first
    BY <1>2, <2>3, <2>4, <2>6
  <2> QED
    BY <2>5, <2>6
<1> HIDE DEF first, turn, own, size
<1>7. ASSUME NEW j \in 1 .. n
      PROVE  (j + n - first) % n = IF first <= j THEN j - first ELSE j + n - first
  <2>1. CASE first <= j
    <3>1. n \in Nat \ {0} /\ j - first \in 0 .. n - 1 /\ (j - first) + n = j + n - first
      BY <1>1, <1>5, <2>1
    <3> QED
      BY <2>1, <3>1, ModSmall
  <2>2. CASE ~(first <= j)
    <3>1. n \in Nat \ {0} /\ j + n - first \in 0 .. n - 1
      BY <1>1, <1>5, <2>2
    <3> QED
      BY <2>2, <3>1, ModSmall
  <2> QED
    BY <2>1, <2>2
<1>8. (IF first <= i THEN i - first ELSE i + n - first) <=
      (IF first <= k THEN k - first ELSE k + n - first)
  BY <1>6, <1>7
<1>9. \A x, y \in 1 .. n : x < y => SlotStart(flats, x + 1) <= SlotStart(flats, y)
  BY <1>1, SlotsMonotone
<1>10. /\ i < first => own + size <= slot
       /\ first < i => slot < own
       /\ i = first => own <= slot /\ slot < own + size
       /\ k < first => start + width <= slot
       /\ first < k => slot < start
       /\ k = first => start <= slot /\ slot < start + width
       /\ i < k => own + size <= start
       /\ k < i => start + width <= own
  <2>1. \A j \in 1 .. n : SlotStart(flats, j) \in Nat /\ SlotStart(flats, j + 1) \in Nat
    BY <1>1, SlotsMonotone
  <2>2. ASSUME NEW j \in 1 .. n
        PROVE  /\ j < first => SlotStart(flats, j + 1) <= slot
               /\ first < j => slot < SlotStart(flats, j)
    <3>1. j < first => SlotStart(flats, j + 1) <= SlotStart(flats, first)
      BY <1>5, <1>9
    <3>2. first < j => SlotStart(flats, first + 1) <= SlotStart(flats, j)
      BY <1>5, <1>9
    <3>3. /\ slot \in Nat
          /\ SlotStart(flats, j) \in Nat /\ SlotStart(flats, j + 1) \in Nat
          /\ SlotStart(flats, first) \in Nat /\ SlotStart(flats, first + 1) \in Nat
      BY <1>3, <1>4, <1>5, <2>1
    <3>4. j < first => SlotStart(flats, j + 1) <= slot
      BY <1>5, <3>1, <3>3
    <3> QED
      BY <1>5, <3>2, <3>3, <3>4
  <2>3. /\ i < k => SlotStart(flats, i + 1) <= SlotStart(flats, k)
        /\ k < i => SlotStart(flats, k + 1) <= SlotStart(flats, i)
    BY <1>9
  <2> QED
    BY <1>2, <1>5, <2>2, <2>3 DEF own
<1>11. i = k => own = start /\ size = width
  BY DEF own, size
<1>12. i \in 1 .. n /\ k \in 1 .. n
  OBVIOUS
<1>13. TurnGiven(n, first, i, k, slot, next, start, width, own, size, total)
  BY <1>1, <1>2, <1>3, <1>4, <1>5, <1>6, <1>8, <1>10, <1>11, <1>12 DEF TurnGiven
<1> QED
  BY <1>13, TurnArithmetic

(* i of those able takes the turn: k, which has the slots from start on,   *)
(* still has the picks ahead before it, and after when i is done.          *)
TurnTaken(list, m, flats, able, i, k, start, width, total, ahead, after) ==
    /\ list \in MixedRequests /\ m \in Model /\ strategy = "round-robin"
    /\ mixedCursors \in [MixedRequests \X Model -> Nat]
    /\ flats \in [1 .. Len(list) -> SUBSET Auth] /\ able \in SUBSET (1 .. Len(list))
    /\ i \in able /\ flats[i] # {} /\ k \in able /\ flats[k] # {}
    /\ MixedTurn(list, m, flats, able, i)
    /\ start = SlotStart(flats, k) /\ width = Cardinality(flats[k])
    /\ total = SlotStart(flats, Len(list) + 1)
    /\ ahead \in 0 .. width - 1 /\ after \in Nat
    /\ IF i = k THEN after < ahead ELSE after = ahead

(* A turn of i that passes a credential of k over brings it closer.        *)
LEMMA SlotsAheadAfterTurn ==
  ASSUME NEW list, NEW m, NEW flats, NEW able, NEW i, NEW k,
         NEW start, NEW width, NEW total, NEW ahead, NEW after,
         TurnTaken(list, m, flats, able, i, k, start, width, total, ahead, after)
  PROVE  SlotsAhead(mixedCursors'[<<list, m>>] % total, start, width, total, after) <
            SlotsAhead(mixedCursors[<<list, m>>] % total, start, width, total, ahead)
<1> DEFINE slot == mixedCursors[<<list, m>>] % total
           next == mixedCursors'[<<list, m>>]
<1>1. TurnFrom(i, k, slot, next, start, width, total)
  BY TurnMoves DEF TurnTaken
<1> HIDE DEF slot, next
<1>2. next % total = Wrapped(next, total)
  BY <1>1, WrappedIs DEF TurnFrom
<1>3. SlotsAhead(Wrapped(next, total), start, width, total, after) <
        SlotsAhead(slot, start, width, total, ahead)
  <2>1. CASE i = k
    <3>1. after \in 0 .. ahead - 1 /\ ahead \in 0 .. width - 1
      BY <2>1 DEF TurnTaken
    <3> QED
      BY <1>1, <2>1, <3>1, SlotsAheadAfterOwn DEF TurnFrom
  <2>2. CASE i # k
    <3>1. after = ahead /\ ahead \in 0 .. width - 1
      BY <2>2 DEF TurnTaken
    <3> QED
      BY <1>1, <2>2, <3>1, SlotsAheadAfterOther DEF TurnFrom
  <2> QED
    BY <2>1, <2>2
<1> QED
  BY <1>2, <1>3 DEF slot, next

-----------------------------------------------------------------------------
(* The pool of a mixed request. *)

(* Snapshots and shards in which no provider of the list has virtual       *)
(* credentials.                                                            *)
MixedState(list, m, held, built, t) ==
    /\ held \in [Provider -> Held]
    /\ Plain(list, held)
    /\ \A p \in Provider : built[p][m] # NoShard => ShardOK(held[p], m, built[p][m], t)

FlatAt(built, m, p, pr) == IF built[p][m] = NoShard THEN {} ELSE built[p][m].views[pr].all.flat

LEMMA ListedType ==
  ASSUME NEW list \in MixedRequests
  PROVE  /\ Listed(list) \subseteq Provider
         /\ Len(list) \in Nat /\ DOMAIN list = 1 .. Len(list)
         /\ \A i \in 1 .. Len(list) : list[i] \in Listed(list)
  BY MixedRequestsTyped DEF Listed

LEMMA FlatAtIs ==
  ASSUME NEW list \in MixedRequests, NEW m, NEW held, NEW built, NEW t,
         MixedState(list, m, held, built, t), NEW p \in Listed(list), NEW pr \in Priority
  PROVE  /\ FlatAt(built, m, p, pr) \in SUBSET Auth
         /\ \A a \in FlatAt(built, m, p, pr) :
               held[p][a] # NoSnapshot /\ held[p][a].priority = pr
         /\ built[p][m] # NoShard =>
               /\ built[p][m].views[pr].all \in View
               /\ built[p][m].views[pr].all.flat = FlatAt(built, m, p, pr)
               /\ built[p][m].views[pr].all.parent = [a \in Auth |-> NoParent]
               /\ ~Grouped(built[p][m].views[pr].all)
<1>1. CASE built[p][m] = NoShard
  BY <1>1 DEF FlatAt
<1>2. CASE built[p][m] # NoShard
  <2> DEFINE shard == built[p][m]
             view == shard.views[pr].all
             ready == ReadyAt(held[p], shard.entries, pr)
  <2>1. /\ ShardOK(held[p], m, shard, t)
        /\ \A a \in Auth : held[p][a] # NoSnapshot => held[p][a].parent = NoParent
    BY <1>2, ListedType DEF MixedState, Plain
  <2>2. FlatAt(built, m, p, pr) = view.flat
    BY <1>2 DEF FlatAt
  <2> HIDE DEF shard
  <2>3. /\ view \in View
        /\ view.flat = ready
        /\ view.parent = [a \in Auth |-> IF a \in ready THEN held[p][a].parent ELSE NoParent]
    BY <2>1 DEF ShardOK, ShardIndexed, Indexes, Shard
  <2>4. \A a \in ready : a \in Auth /\ held[p][a] # NoSnapshot /\ held[p][a].priority = pr
    BY <2>1 DEF ShardOK, ShardIndexed, ReadyAt, Absent
  <2>5. view.parent = [a \in Auth |-> NoParent]
    <3>1. \A a \in Auth : (IF a \in ready THEN held[p][a].parent ELSE NoParent) = NoParent
      BY <2>1, <2>4
    <3> HIDE DEF view, ready
    <3> QED
      BY <2>3, <3>1
  <2> HIDE DEF view, ready
  <2>6. ~Grouped(view)
    <3>1. \A g \in Parents(view) : g = NoParent
      BY <2>3, <2>4, <2>5 DEF Parents
    <3>2. CASE Parents(view) = {}
      BY <3>2, FS_EmptySet DEF Grouped
    <3>3. CASE Parents(view) # {}
      BY <3>1, <3>3 DEF Grouped
    <3> QED
      BY <3>2, <3>3
  <2>7. view.flat \in SUBSET Auth
    BY <2>3, <2>4
  <2> QED
    BY <1>2, <2>2, <2>3, <2>4, <2>5, <2>6, <2>7 DEF shard, view
<1> QED
  BY <1>1, <1>2

(* pool is what is ready at priority pr, the best, among it a of p. *)
PoolAt(list, m, built, pool, p, a, pr) ==
    /\ pool \in SUBSET (Listed(list) \X Auth)
    /\ <<p, a>> \in pool
    /\ p \in Listed(list) /\ p \in Provider /\ a \in Auth /\ pr \in Priority
    /\ \A q \in Listed(list), b \in Auth : <<q, b>> \in pool <=> b \in FlatAt(built, m, q, pr)
    /\ \A q \in Listed(list), r \in Priority : FlatAt(built, m, q, r) # {} => r <= pr

LEMMA PoolIs ==
  ASSUME NEW list \in MixedRequests, NEW m, NEW held, NEW built, NEW t,
         MixedState(list, m, held, built, t),
         NEW pool, pool = MixedPool(list, m, built), NEW p, NEW a, <<p, a>> \in pool,
         NEW pr, pr = held[p][a].priority
  PROVE  PoolAt(list, m, built, pool, p, a, pr)
<1> DEFINE ready(r) == {x \in Listed(list) \X Auth :
                          built[x[1]][m] # NoShard /\ x[2] \in built[x[1]][m].views[r].all.flat}
           priorities == {r \in Priority : ready(r) # {}}
           best == {q \in priorities : \A r \in priorities : r <= q}
<1>1. pool = UNION {ready(r) : r \in best}
  BY DEF MixedPool
<1>2. \A r : ready(r) \in SUBSET (Listed(list) \X Auth)
  OBVIOUS
<1>3. \A r, q, b : <<q, b>> \in ready(r) <=> q \in Listed(list) /\ b \in Auth /\ b \in FlatAt(built, m, q, r)
  BY DEF FlatAt
<1>4. Listed(list) \subseteq Provider
  BY ListedType
<1> HIDE DEF ready
<1>5. PICK r \in best : <<p, a>> \in ready(r)
  BY <1>1
<1>6. r \in Priority /\ \A q \in priorities : q <= r
  OBVIOUS
<1>7. p \in Listed(list) /\ a \in Auth /\ a \in FlatAt(built, m, p, r)
  BY <1>3, <1>5
<1>8. pr = r
  BY <1>4, <1>6, <1>7, FlatAtIs
<1>9. \A q \in best : q = r
  BY <1>6, PriorityIsInt
<1>10. pool = ready(r)
  <2> HIDE DEF best
  <2> QED
    BY <1>1, <1>9
<1>11. ASSUME NEW q \in Listed(list), NEW s \in Priority, FlatAt(built, m, q, s) # {}
       PROVE  s <= r
  <2>1. FlatAt(built, m, q, s) \in SUBSET Auth
    BY <1>4, FlatAtIs
  <2>2. PICK b \in Auth : b \in FlatAt(built, m, q, s)
    BY <1>11, <2>1
  <2>3. <<q, b>> \in ready(s)
    BY <1>3, <2>2
  <2> QED
    BY <1>6, <2>3
<1> QED
  BY <1>2, <1>3, <1>4, <1>6, <1>7, <1>8, <1>10, <1>11 DEF PoolAt

LEMMA MemberView ==
  ASSUME NEW list, NEW m, NEW held, NEW built, NEW t, MixedState(list, m, held, built, t),
         NEW p \in Provider, NEW a \in Auth, NEW pr \in Priority, a \in FlatAt(built, m, p, pr),
         NEW view, view = ViewOf(built[p][m], held[p], a)
  PROVE  built[p][m] # NoShard /\ view = built[p][m].views[pr].all
<1> DEFINE shard == built[p][m]
<1>1. shard # NoShard /\ a \in shard.views[pr].all.flat
  BY DEF FlatAt
<1>2. ShardOK(held[p], m, shard, t)
  BY <1>1 DEF MixedState
<1> HIDE DEF shard
<1>3. shard.entries[a].state = "ready" /\ held[p][a].priority = pr
  <2>1. shard.views[pr].all.flat = ReadyAt(held[p], shard.entries, pr)
    BY <1>2 DEF ShardOK, ShardIndexed, Indexes
  <2> QED
    BY <1>1, <2>1 DEF ReadyAt
<1> QED
  BY <1>1, <1>3 DEF ViewOf, shard

(* The invariant of a mixed rotation: what a has waited and what can still *)
(* pass it over are together less than one turn of everyone.               *)
MixedWaitOK(list, pool, cursor, p, view, a, count) ==
    \A k \in 1 .. Len(list) : list[k] = p =>
        count + SlotsAhead(cursor % Cardinality(pool), SlotStart(PoolFlats(list, pool), k),
                           Cardinality(PoolFlats(list, pool)[k]), Cardinality(pool),
                           Ahead(view, a)) < Cardinality(pool)

(* a of p is a member of the pool, in view.                                *)
Rotates(list, m, held, built, t, pool, p, a, view) ==
    /\ list \in MixedRequests
    /\ MixedState(list, m, held, built, t)
    /\ pool = MixedPool(list, m, built)
    /\ <<p, a>> \in pool
    /\ view = ViewOf(built[p][m], held[p], a)

(* What the member a of provider k's view, of width slots from start on,   *)
(* has in the rotation of the list.                                        *)
MemberOf(list, k, flats, start, width, total, view, a) ==
    /\ view \in View /\ ~Grouped(view) /\ a \in view.flat
    /\ view.parent = [b \in Auth |-> NoParent]
    /\ flats \in [1 .. Len(list) -> SUBSET Auth] /\ view.flat = flats[k]
    /\ total = SlotStart(flats, Len(list) + 1)
    /\ start \in Nat /\ width \in Nat \ {0} /\ total \in Nat \ {0} /\ start + width <= total
    /\ Ahead(view, a) \in 0 .. width - 1

LEMMA MixedMember ==
  ASSUME NEW list, NEW m, NEW held, NEW built, NEW t, NEW pool, NEW p, NEW a, NEW view,
         Rotates(list, m, held, built, t, pool, p, a, view),
         NEW k \in 1 .. Len(list), list[k] = p,
         NEW flats, flats = PoolFlats(list, pool), NEW width, width = Cardinality(flats[k]),
         NEW start, start = SlotStart(flats, k), NEW total, total = Cardinality(pool)
  PROVE  /\ built[p][m] # NoShard /\ view = built[p][m].views[held[p][a].priority].all
         /\ MemberOf(list, k, flats, start, width, total, view, a)
<1> DEFINE n == Len(list)
<1>0. PICK pr : pr = held[p][a].priority
  OBVIOUS
<1>1. /\ pool \in SUBSET (Listed(list) \X Auth)
      /\ p \in Listed(list) /\ p \in Provider /\ a \in Auth /\ pr \in Priority
      /\ \A q \in Listed(list), b \in Auth : <<q, b>> \in pool <=> b \in FlatAt(built, m, q, pr)
  <2>1. PoolAt(list, m, built, pool, p, a, pr)
    BY <1>0, PoolIs DEF Rotates
  <2> QED
    BY <2>1 DEF PoolAt
<1>2. a \in FlatAt(built, m, p, pr)
  BY <1>1 DEF Rotates
<1>3. built[p][m] # NoShard /\ view = built[p][m].views[pr].all
  BY <1>1, <1>2, MemberView DEF Rotates
<1>4. /\ FlatAt(built, m, p, pr) \in SUBSET Auth /\ view.flat = FlatAt(built, m, p, pr)
      /\ view \in View /\ ~Grouped(view) /\ view.parent = [b \in Auth |-> NoParent]
  BY <1>1, <1>3, FlatAtIs DEF Rotates
<1>5. n \in Nat /\ \A i \in 1 .. n : list[i] \in Listed(list)
  BY ListedType DEF Rotates
<1>6. flats \in [1 .. n -> SUBSET Auth] /\ flats[k] = {b \in Auth : <<p, b>> \in pool}
  BY DEF PoolFlats
<1>7. view.flat = flats[k]
  BY <1>1, <1>4, <1>6
<1>8. IsFiniteSet(pool) /\ SlotStart(flats, n + 1) = total
  BY <1>1, SlotsAreThePool DEF Rotates
<1>9. total \in Nat
  BY <1>8, FS_CardinalityType
<1>10. width \in Nat /\ SlotStart(flats, k + 1) = start + width
  <2> HIDE DEF n
  <2> QED
    BY <1>5, <1>6, SlotsOf DEF n
<1>11. start \in Nat /\ SlotStart(flats, k + 1) <= SlotStart(flats, n + 1)
  BY <1>5, SlotsMonotone
<1>12. Turns(view, a) = width
  BY <1>4, <1>7 DEF Turns
<1>13. Ahead(view, a) \in Nat /\ Ahead(view, a) < width
  BY <1>2, <1>4, <1>12, AheadBelow
<1>14. Ahead(view, a) \in 0 .. width - 1 /\ width # 0 /\ start + width <= total /\ total # 0
  BY <1>8, <1>9, <1>10, <1>11, <1>13
<1> QED
  BY <1>0, <1>2, <1>3, <1>4, <1>6, <1>7, <1>8, <1>9, <1>10, <1>11, <1>14 DEF MemberOf

LEMMA MixedWaitOKAtOnce ==
  ASSUME NEW list, NEW m, NEW held, NEW built, NEW t, NEW pool, NEW p, NEW a, NEW view,
         Rotates(list, m, held, built, t, pool, p, a, view), NEW cursor \in Nat
  PROVE  MixedWaitOK(list, pool, cursor, p, view, a, 0)
<1> SUFFICES ASSUME NEW k \in 1 .. Len(list), list[k] = p,
                    NEW flats, flats = PoolFlats(list, pool),
                    NEW start, start = SlotStart(flats, k), NEW width, width = Cardinality(flats[k]),
                    NEW total, total = Cardinality(pool)
             PROVE  0 + SlotsAhead(cursor % total, start, width, total, Ahead(view, a)) < total
  BY DEF MixedWaitOK
<1>1. /\ start \in Nat /\ width \in Nat \ {0} /\ total \in Nat \ {0} /\ start + width <= total
      /\ Ahead(view, a) \in 0 .. width - 1
  BY MixedMember DEF MemberOf
<1>2. cursor % total \in 0 .. total - 1
  BY <1>1, ModBelow
<1>3. SlotsAhead(cursor % total, start, width, total, Ahead(view, a)) \in 0 .. total - 1
  BY <1>1, <1>2, SlotsAheadBelow
<1> QED
  BY <1>1, <1>3

(* The snapshots and shards before and after a step. *)
BothPlain(list) == Plain(list, auths) /\ Plain(list, auths')

LEMMA MixedStates ==
  ASSUME IInv, IInv', NEW list \in MixedRequests, BothPlain(list), NEW m \in Model
  PROVE  MixedState(list, m, auths, shards, now) /\ MixedState(list, m, auths', shards', now')
  BY DEF IInv, Typed, ShardsOK, BothPlain, MixedState

(* A pick by provider i of the list at priority best, which turns one view *)
(* of the shards brought up to date.                                       *)
MixedTurned(list, m, candidates, ensured, put, best, i, x) ==
    /\ list \in MixedRequests /\ m \in Model /\ candidates \in SUBSET Auth
    /\ \A j \in 1 .. Len(list) : ensured[j] = EnsureModel(list[j], m)
    /\ best \in Priority /\ i \in Able(list, ensured, candidates, best) /\ x \in candidates
    /\ \A r \in Priority : Able(list, ensured, candidates, r) # {} => r <= best
    /\ PicksAtPriority(ensured[i], FALSE, best, "round-robin", candidates, x)
    /\ put[i] = ShardAfterPick(ensured[i], FALSE, best, "round-robin", candidates, x)
    /\ \A j \in 1 .. Len(list) : j # i => put[j] = ensured[j]
    /\ strategy = "round-robin"
    /\ MixedTurn(list, m, Flats(list, ensured, best), Able(list, ensured, candidates, best), i)
    /\ PutShards(list, m, put)
    /\ auths' = auths

(* Where the shards end up, and what is ready in them. *)
LEMMA MixedPlaced ==
  ASSUME IInv, IInv', Known, NEW list, BothPlain(list),
         NEW m, NEW candidates, NEW ensured, NEW put, NEW best, NEW i, NEW x,
         MixedTurned(list, m, candidates, ensured, put, best, i, x),
         NEW j \in 1 .. Len(list), NEW p, p = list[j]
  PROVE  /\ p \in Provider /\ auths[p] \in Held
         /\ ShardOK(auths[p], m, ensured[j], now)
         /\ p \in providers => shards'[p][m] = put[j] /\ put[j] # NoShard
         /\ \A r \in Priority : FlatAt(shards', m, p, r) = ensured[j].views[r].all.flat
<1>1. p \in Provider /\ auths[p] \in Held /\ list \in MixedRequests /\ m \in Model
  BY MixedRequestsTyped DEF MixedTurned, IInv, Typed
<1>2. i \in 1 .. Len(list)
  BY <1>1, ListedType DEF MixedTurned, Able
<1>3. ShardOK(auths[p], m, ensured[j], now)
  BY <1>1, EnsureModelOK DEF MixedTurned, IInv, Typed, ShardsOK
<1>4. ShardOK(auths[p], m, put[j], now)
  <2>1. CASE j = i
    <3>1. ShardOK(auths[p], m, ShardAfterPick(ensured[j], FALSE, best, "round-robin", candidates, x), now)
      BY <1>3, ShardAfterPickOK DEF MixedTurned
    <3> QED
      BY <2>1, <3>1 DEF MixedTurned
  <2>2. CASE j # i
    BY <1>3, <2>2 DEF MixedTurned
  <2> QED
    BY <2>1, <2>2
<1>5. put[j] # NoShard
  BY <1>4, ShardOKType, NullsFresh
<1>6. ASSUME p \in providers
      PROVE  shards'[p][m] = put[j]
  <2>1. shards \in [Provider -> [Model -> Shard \cup {NoShard}]] /\ PutShards(list, m, put)
    BY DEF IInv, ShardsOK, MixedTurned
  <2>2. DOMAIN list = 1 .. Len(list)
    BY <1>1, ListedType
  <2> QED
    BY <1>1, <1>6, <2>1, <2>2, PutShardsIs
<1>7. ASSUME NEW r \in Priority
      PROVE  put[j].views[r].all.flat = ensured[j].views[r].all.flat
  <2>1. CASE j = i
    <3>1. /\ PicksAtPriority(ensured[j], FALSE, best, "round-robin", candidates, x)
          /\ put[j] = ShardAfterPick(ensured[j], FALSE, best, "round-robin", candidates, x)
          /\ best \in Priority /\ candidates \in SUBSET Auth
      BY <2>1 DEF MixedTurned
    <3>2. Pool(put[j].views[r].all) = Pool(ensured[j].views[r].all)
      <4> DEFINE ws == FALSE
                 held == auths[p]
                 old == ensured[j]
                 new == put[j]
      <4>1. /\ PicksAtPriority(old, ws, best, "round-robin", candidates, x)
            /\ new = ShardAfterPick(old, ws, best, "round-robin", candidates, x)
            /\ ws \in BOOLEAN /\ held \in Held /\ ShardOK(held, m, old, now)
            /\ best \in Priority /\ candidates \in SUBSET Auth
        BY <1>1, <1>3, <3>1
      <4> HIDE DEF ws, held, old, new
      <4>2. Pool(new.views[r].all) = Pool(old.views[r].all)
        BY <4>1, PickTurnsOneView
      <4> QED
        BY <4>2 DEF old, new
    <3> QED
      BY <3>2 DEF Pool
  <2>2. CASE j # i
    BY <2>2 DEF MixedTurned
  <2> QED
    BY <2>1, <2>2
<1>8. ASSUME NEW r \in Priority
      PROVE  FlatAt(shards', m, p, r) = ensured[j].views[r].all.flat
  <2>1. CASE p \in providers
    BY <1>5, <1>6, <1>7, <2>1 DEF FlatAt
  <2>2. CASE p \notin providers
    <3>1. \A b \in Auth : auths[p][b] = NoSnapshot /\ auths'[p][b] = NoSnapshot
      BY <1>1, <2>2 DEF Known, MixedTurned
    <3>2. ensured[j].views[r].all.flat = {}
      <4>1. ensured[j].views[r].all.flat =
              {b \in Auth : ensured[j].entries[b].state = "ready" /\ auths[p][b].priority = r}
        BY <1>1, <1>3, ViewsAre
      <4>2. \A b \in Auth : ensured[j].entries[b].state # "ready"
        BY <1>3, <3>1 DEF ShardOK, ShardIndexed, Absent
      <4> QED
        BY <4>1, <4>2
    <3>3. FlatAt(shards', m, p, r) = {}
      <4> DEFINE held == auths'
                 built == shards'
      <4>1. MixedState(list, m, held, built, now')
        BY <1>1, MixedStates
      <4> HIDE DEF held, built
      <4>2. FlatAt(built, m, p, r) \in SUBSET Auth
            /\ \A b \in FlatAt(built, m, p, r) : held[p][b] # NoSnapshot
        <5>1. p \in Listed(list)
          BY <1>1, ListedType
        <5> QED
          BY <1>1, <4>1, <5>1, FlatAtIs
      <4> QED
        BY <3>1, <4>2 DEF held, built
    <3> QED
      BY <3>2, <3>3
  <2> QED
    BY <2>1, <2>2
<1> QED
  BY <1>1, <1>3, <1>5, <1>6, <1>8

(* Such a pick when the candidate a of provider k of the list was in the   *)
(* pool, ready at priority pr.                                             *)
TurnedOver(list, m, candidates, ensured, put, best, i, x, pool, a, pr, k) ==
    /\ MixedTurned(list, m, candidates, ensured, put, best, i, x)
    /\ k \in 1 .. Len(list) /\ a \in candidates
    /\ PoolAt(list, m, shards', pool, list[k], a, pr)

(* The priority of the pick is then that of the pool.                      *)
LEMMA MixedPickedFromPool ==
  ASSUME IInv, IInv', Known, NEW list, BothPlain(list),
         NEW m, NEW candidates, NEW ensured, NEW put, NEW best, NEW i, NEW x,
         NEW pool, NEW a, NEW pr, NEW k,
         TurnedOver(list, m, candidates, ensured, put, best, i, x, pool, a, pr, k)
  PROVE  /\ pr = best
         /\ Flats(list, ensured, best) = PoolFlats(list, pool)
         /\ k \in Able(list, ensured, candidates, best)
         /\ \A j \in Able(list, ensured, candidates, best) : PoolFlats(list, pool)[j] # {}
<1> DEFINE p == list[k]
<1>0. /\ MixedTurned(list, m, candidates, ensured, put, best, i, x)
      /\ PoolAt(list, m, shards', pool, p, a, pr)
      /\ k \in 1 .. Len(list) /\ a \in candidates
  BY DEF TurnedOver
<1> HIDE DEF p
<1>1. /\ list \in MixedRequests /\ candidates \in SUBSET Auth /\ best \in Priority
      /\ i \in Able(list, ensured, candidates, best)
      /\ \A r \in Priority : Able(list, ensured, candidates, r) # {} => r <= best
  BY <1>0 DEF MixedTurned
<1>2. DOMAIN list = 1 .. Len(list) /\ \A j \in 1 .. Len(list) : list[j] \in Listed(list)
  BY <1>1, ListedType
<1>3. \A j \in 1 .. Len(list), r \in Priority :
         FlatAt(shards', m, list[j], r) = ensured[j].views[r].all.flat
  BY <1>0, MixedPlaced
<1> DEFINE flat(j, r) == ensured[j].views[r].all.flat
<1>4. /\ pr \in Priority
      /\ \A j \in 1 .. Len(list), b \in Auth : <<list[j], b>> \in pool <=> b \in flat(j, pr)
      /\ \A j \in 1 .. Len(list), r \in Priority : flat(j, r) # {} => r <= pr
  BY <1>0, <1>2, <1>3 DEF PoolAt
<1>5. \A r : Able(list, ensured, candidates, r) =
               {j \in 1 .. Len(list) : r \in Priority /\ flat(j, r) \cap candidates # {}}
  BY <1>2 DEF Able, PrioritiesWith
<1>6. <<list[k], a>> \in pool
  BY <1>0 DEF PoolAt, p
<1>7. pr = best
  <2>1. k \in Able(list, ensured, candidates, pr)
    BY <1>0, <1>1, <1>4, <1>5, <1>6
  <2>2. best <= pr
    BY <1>1, <1>4, <1>5
  <2>3. pr <= best
    BY <1>1, <1>4, <2>1
  <2> QED
    BY <1>1, <1>4, <2>2, <2>3, PriorityIsInt
<1>8. ASSUME NEW j \in 1 .. Len(list)
      PROVE  flat(j, best) = {b \in Auth : <<list[j], b>> \in pool}
  <2>1. flat(j, best) \subseteq Auth
    <3>1. auths[list[j]] \in Held /\ ShardOK(auths[list[j]], m, ensured[j], now)
      BY <1>0, MixedPlaced
    <3> QED
      BY <1>1, <3>1, ViewsAre
  <2> QED
    BY <1>4, <1>7, <2>1
<1>9. Flats(list, ensured, best) = PoolFlats(list, pool)
  BY <1>2, <1>8 DEF Flats, PoolFlats
<1>10. ASSUME NEW j \in Able(list, ensured, candidates, best)
       PROVE  PoolFlats(list, pool)[j] # {}
  <2>1. j \in 1 .. Len(list) /\ flat(j, best) # {}
    BY <1>5
  <2> HIDE DEF flat
  <2> QED
    BY <1>8, <2>1 DEF PoolFlats
<1>11. k \in Able(list, ensured, candidates, best)
  BY <1>0, <1>1, <1>4, <1>5, <1>6, <1>7
<1> QED
  BY <1>7, <1>9, <1>10, <1>11

(* The view of a at priority pr before and after a step that leaves its    *)
(* members alone.                                                          *)
SameMembers(p, m, pr, a, before, after) ==
    /\ shards[p][m] # NoShard
    /\ before = shards[p][m].views[pr].all /\ after = shards'[p][m].views[pr].all
    /\ before \in View /\ after \in View /\ a \in before.flat
    /\ Pool(after) = Pool(before)

(* Of the views of the providers of the list only that of i turns.         *)
LEMMA AheadAfterTurned ==
  ASSUME IInv, IInv', Known, NEW list, BothPlain(list),
         NEW m, NEW candidates, NEW ensured, NEW put, NEW best, NEW i, NEW x,
         NEW pool, NEW a, NEW pr, NEW k,
         TurnedOver(list, m, candidates, ensured, put, best, i, x, pool, a, pr, k), a # x,
         NEW p, p = list[k], p \in providers, NEW before, NEW after,
         SameMembers(p, m, best, a, before, after)
  PROVE  IF i = k THEN Ahead(after, a) < Ahead(before, a)
         ELSE Ahead(after, a) = Ahead(before, a)
<1> DEFINE old == ensured[k]
           new == put[k]
           mid == old.views[best].all
<1>0. /\ MixedTurned(list, m, candidates, ensured, put, best, i, x)
      /\ k \in 1 .. Len(list) /\ a \in candidates
  BY DEF TurnedOver
<1>1. /\ p \in Provider /\ auths[p] \in Held /\ ShardOK(auths[p], m, old, now)
      /\ shards'[p][m] = new /\ old = EnsureModel(p, m) /\ best \in Priority
      /\ candidates \in SUBSET Auth
  <2>1. /\ p \in Provider /\ auths[p] \in Held /\ ShardOK(auths[p], m, ensured[k], now)
        /\ shards'[p][m] = put[k]
    BY <1>0, MixedPlaced
  <2> QED
    BY <1>0, <2>1 DEF MixedTurned
<1>2. Turned(shards[p][m].views, old.views)
  <2>1. m \in Model /\ shards[p][m] # NoShard
    BY <1>0 DEF MixedTurned, SameMembers
  <2> QED
    BY <1>1, <2>1, EnsureModelTurned
<1>3. after = new.views[best].all
  BY <1>1 DEF SameMembers
<1>4. Pool(mid) = Pool(before) => Ahead(mid, a) = Ahead(before, a)
  BY <1>1, <1>2 DEF Turned, SameMembers
<1>5. CASE i = k
  <2>1. PicksAtPriority(old, FALSE, best, "round-robin", candidates, x)
        /\ new = ShardAfterPick(old, FALSE, best, "round-robin", candidates, x)
    BY <1>0, <1>5 DEF MixedTurned
  <2>2. /\ Pool(new.views[best].all) = Pool(mid)
        /\ new.views[best].all = AfterPick(mid, x) /\ PickRoundRobin(mid, candidates, x)
    <3> DEFINE ws == FALSE
               held == auths[p]
    <3>1. /\ PicksAtPriority(old, ws, best, "round-robin", candidates, x)
          /\ new = ShardAfterPick(old, ws, best, "round-robin", candidates, x)
          /\ ws \in BOOLEAN /\ ~ws /\ held \in Held /\ ShardOK(held, m, old, now)
      BY <1>1, <2>1
    <3> HIDE DEF ws, held, old, new
    <3>2. PICK q \in Priority : q = best
      BY <1>1
    <3>3. /\ Pool(new.views[q].all) = Pool(old.views[q].all)
          /\ new.views[q].all =
               IF q = best /\ ~(ws /\ held[x].websocket) THEN AfterPick(old.views[q].all, x)
               ELSE old.views[q].all
          /\ q = best /\ ~(ws /\ held[x].websocket) =>
               PickRoundRobin(old.views[q].all, candidates, x)
      BY <1>1, <3>1, PickTurnsOneView
    <3> QED
      BY <3>1, <3>2, <3>3
  <2>3. mid \in View
    <3>1. old \in Shard
      BY <1>1, ShardOKType
    <3> HIDE DEF old
    <3> QED
      BY <1>1, <3>1 DEF Shard
  <2> HIDE DEF mid, old, new
  <2>4. Pool(mid) = Pool(before) /\ a \in mid.flat
    BY <1>3, <2>2 DEF Pool, SameMembers
  <2>5. Ahead(AfterPick(mid, x), a) < Ahead(mid, a)
    BY <1>0, <2>2, <2>3, <2>4, AheadAfterPick
  <2> QED
    BY <1>3, <1>4, <1>5, <2>2, <2>4, <2>5
<1>6. CASE i # k
  <2>1. new = old
    BY <1>0, <1>1, <1>6 DEF MixedTurned
  <2> HIDE DEF old, new
  <2> QED
    BY <1>3, <1>4, <1>6, <2>1 DEF SameMembers
<1> QED
  BY <1>5, <1>6

(* A pick that passes the candidate a over brings its turn closer. *)
LEMMA MixedAfterTurn ==
  ASSUME IInv, IInv', Known, NEW list, BothPlain(list),
         NEW m, NEW candidates, NEW ensured, NEW put, NEW best, NEW i, NEW x,
         MixedTurned(list, m, candidates, ensured, put, best, i, x),
         NEW pool, NEW p, NEW a \in candidates, a # x, NEW before, NEW after,
         Rotates(list, m, auths, shards, now, pool, p, a, before),
         Rotates(list, m, auths', shards', now', pool, p, a, after),
         NEW count \in Nat, MixedWaitOK(list, pool, mixedCursors[<<list, m>>], p, before, a, count)
  PROVE  MixedWaitOK(list, pool, mixedCursors'[<<list, m>>], p, after, a, count + 1)
<1> DEFINE n == Len(list)
           cursor == mixedCursors[<<list, m>>]
           cursorNext == mixedCursors'[<<list, m>>]
           able == Able(list, ensured, candidates, best)
<1>1. /\ list \in MixedRequests /\ m \in Model /\ auths' = auths /\ strategy = "round-robin"
      /\ mixedCursors \in [MixedRequests \X Model -> Nat]
      /\ mixedCursors' \in [MixedRequests \X Model -> Nat]
      /\ i \in able /\ able \in SUBSET (1 .. n)
  BY ListedType DEF MixedTurned, IInv, Typed, Able
<1>2. SUFFICES ASSUME NEW k \in 1 .. n, list[k] = p,
                      NEW flats, flats = PoolFlats(list, pool),
                      NEW start, start = SlotStart(flats, k),
                      NEW width, width = Cardinality(flats[k]),
                      NEW total, total = Cardinality(pool)
               PROVE  (count + 1) + SlotsAhead(cursorNext % total, start, width, total, Ahead(after, a)) < total
  BY DEF MixedWaitOK
<1>3. count + SlotsAhead(cursor % total, start, width, total, Ahead(before, a)) < total
  BY <1>2 DEF MixedWaitOK
<1>4. PICK pr : pr = auths[p][a].priority
  OBVIOUS
<1>5. /\ shards[p][m] # NoShard /\ before = shards[p][m].views[pr].all
      /\ MemberOf(list, k, flats, start, width, total, before, a)
  <2> DEFINE held == auths
             built == shards
             t == now
  <2>1. Rotates(list, m, held, built, t, pool, p, a, before)
    OBVIOUS
  <2> HIDE DEF held, built, t
  <2>2. /\ built[p][m] # NoShard /\ before = built[p][m].views[held[p][a].priority].all
        /\ MemberOf(list, k, flats, start, width, total, before, a)
    BY <1>2, <2>1, MixedMember
  <2> QED
    BY <1>4, <2>2 DEF held, built
<1>6. /\ shards'[p][m] # NoShard /\ after = shards'[p][m].views[pr].all
      /\ MemberOf(list, k, flats, start, width, total, after, a)
  <2> DEFINE held == auths'
             built == shards'
             t == now'
  <2>1. Rotates(list, m, held, built, t, pool, p, a, after) /\ pr = held[p][a].priority
    BY <1>1, <1>4
  <2> HIDE DEF held, built, t
  <2>2. /\ built[p][m] # NoShard /\ after = built[p][m].views[held[p][a].priority].all
        /\ MemberOf(list, k, flats, start, width, total, after, a)
    BY <1>2, <2>1, MixedMember
  <2> QED
    BY <2>1, <2>2 DEF built
<1>7. PoolAt(list, m, shards', pool, p, a, pr) /\ p \in providers
  <2> DEFINE held == auths'
             built == shards'
             t == now'
  <2>1. Rotates(list, m, held, built, t, pool, p, a, after) /\ pr = held[p][a].priority /\ held = auths
    BY <1>1, <1>4
  <2> HIDE DEF held, built, t
  <2>2. PoolAt(list, m, built, pool, p, a, pr)
    BY <2>1, PoolIs DEF Rotates
  <2>3. /\ a \in FlatAt(built, m, p, pr) /\ p \in Listed(list) /\ p \in Provider
        /\ a \in Auth /\ pr \in Priority
    BY <2>2 DEF PoolAt
  <2>4. held[p][a] # NoSnapshot
    BY <2>1, <2>3, FlatAtIs DEF Rotates
  <2> QED
    BY <2>1, <2>2, <2>3, <2>4 DEF Known, built
<1>8. /\ pr = best /\ Flats(list, ensured, best) = flats /\ k \in able
      /\ \A j \in able : flats[j] # {}
  <2>1. TurnedOver(list, m, candidates, ensured, put, best, i, x, pool, a, pr, k)
    BY <1>2, <1>7 DEF TurnedOver
  <2>2. /\ pr = best /\ Flats(list, ensured, best) = PoolFlats(list, pool)
        /\ k \in Able(list, ensured, candidates, best)
        /\ \A j \in Able(list, ensured, candidates, best) : PoolFlats(list, pool)[j] # {}
    BY <2>1, MixedPickedFromPool
  <2> QED
    BY <1>2, <2>2
<1>9. MixedTurn(list, m, flats, able, i)
  BY <1>8 DEF MixedTurned
<1>10. IF i = k THEN Ahead(after, a) < Ahead(before, a)
       ELSE Ahead(after, a) = Ahead(before, a)
  <2>1. before \in View /\ after \in View /\ a \in before.flat /\ Pool(after) = Pool(before)
    BY <1>5, <1>6 DEF MemberOf, Pool
  <2>2. SameMembers(p, m, best, a, before, after)
    BY <1>5, <1>6, <1>8, <2>1 DEF SameMembers
  <2>3. TurnedOver(list, m, candidates, ensured, put, best, i, x, pool, a, pr, k)
    BY <1>2, <1>7 DEF TurnedOver
  <2>4. p = list[k] /\ p \in providers
    BY <1>2, <1>7
  <2> QED
    BY <2>2, <2>3, <2>4, AheadAfterTurned
<1>11. /\ flats \in [1 .. n -> SUBSET Auth] /\ total = SlotStart(flats, n + 1)
       /\ start \in Nat /\ width \in Nat \ {0} /\ total \in Nat \ {0} /\ start + width <= total
       /\ Ahead(before, a) \in 0 .. width - 1 /\ Ahead(after, a) \in 0 .. width - 1
  BY <1>5, <1>6 DEF MemberOf
<1>12. cursor % total \in 0 .. total - 1 /\ cursorNext % total \in 0 .. total - 1
  BY <1>1, <1>11, ModBelow
<1> DEFINE ahead == Ahead(before, a)
           less == Ahead(after, a)
<1>13. SlotsAhead(cursorNext % total, start, width, total, less) <
          SlotsAhead(cursor % total, start, width, total, ahead)
  <2> HIDE DEF able, n, ahead, less
  <2>1. /\ ahead \in 0 .. width - 1 /\ less \in Nat
        /\ IF i = k THEN less < ahead ELSE less = ahead
    BY <1>10, <1>11 DEF ahead, less
  <2>2. /\ i \in able /\ flats[i] # {} /\ k \in able /\ flats[k] # {}
    BY <1>1, <1>8
  <2>3. /\ flats \in [1 .. Len(list) -> SUBSET Auth] /\ able \in SUBSET (1 .. Len(list))
        /\ total = SlotStart(flats, Len(list) + 1)
    BY <1>1, <1>11 DEF n
  <2>4. TurnTaken(list, m, flats, able, i, k, start, width, total, ahead, less)
    BY <1>1, <1>2, <1>9, <2>1, <2>2, <2>3 DEF TurnTaken
  <2> QED
    BY <2>4, SlotsAheadAfterTurn
<1> HIDE DEF cursor, cursorNext, ahead, less
<1>14. /\ SlotsAhead(cursorNext % total, start, width, total, less) \in 0 .. total - 1
       /\ SlotsAhead(cursor % total, start, width, total, ahead) \in 0 .. total - 1
  BY <1>11, <1>12, SlotsAheadBelow DEF ahead, less
<1>15. PICK far, near : /\ far = SlotsAhead(cursor % total, start, width, total, ahead)
                        /\ near = SlotsAhead(cursorNext % total, start, width, total, less)
  OBVIOUS
<1>16. count + far < total /\ near < far /\ far \in Nat /\ near \in Nat
  BY <1>3, <1>13, <1>14, <1>15 DEF ahead
<1>17. (count + 1) + near < total
  BY <1>11, <1>16
<1> QED
  BY <1>15, <1>17 DEF less

(* a of p is in the same pool before and after a step, and has waited for  *)
(* count picks before it.                                                  *)
WaitsIn(list, m, pool, p, a, before, after, count) ==
    /\ list \in MixedRequests /\ m \in Model /\ count \in Nat
    /\ Rotates(list, m, auths, shards, now, pool, p, a, before)
    /\ Rotates(list, m, auths', shards', now', pool, p, a, after)
    /\ MixedWaitOK(list, pool, mixedCursors[<<list, m>>], p, before, a, count)

(* The same after it. *)
WaitsOn(list, m, pool, p, a, after, count) ==
    MixedWaitOK(list, pool, mixedCursors'[<<list, m>>], p, after, a, count)

LEMMA RotatesTyped ==
  ASSUME NEW list, NEW m, NEW held, NEW built, NEW t, NEW pool, NEW p, NEW a, NEW view,
         Rotates(list, m, held, built, t, pool, p, a, view)
  PROVE  p \in Listed(list) /\ p \in Provider /\ a \in Auth
<1>1. PICK pr : pr = held[p][a].priority
  OBVIOUS
<1>2. PoolAt(list, m, built, pool, p, a, pr)
  BY <1>1, PoolIs DEF Rotates
<1> QED
  BY <1>2 DEF PoolAt

LEMMA WaitsInTyped ==
  ASSUME NEW list, NEW m, NEW pool, NEW p, NEW a, NEW before, NEW after, NEW count,
         WaitsIn(list, m, pool, p, a, before, after, count)
  PROVE  /\ p \in Listed(list) /\ p \in Provider /\ a \in Auth
         /\ list \in MixedRequests /\ m \in Model /\ count \in Nat
<1>1. Rotates(list, m, auths, shards, now, pool, p, a, before)
  BY DEF WaitsIn
<1>2. p \in Listed(list) /\ p \in Provider /\ a \in Auth
  BY <1>1, RotatesTyped
<1> QED
  BY <1>2 DEF WaitsIn

(* Who had its turn waits from there on. *)
LEMMA WaitsOnAtOnce ==
  ASSUME IInv', NEW list, NEW m, NEW pool, NEW p, NEW a, NEW before, NEW after, NEW count,
         WaitsIn(list, m, pool, p, a, before, after, count)
  PROVE  WaitsOn(list, m, pool, p, a, after, 0)
<1> DEFINE held == auths'
           built == shards'
           t == now'
           cursor == mixedCursors'[<<list, m>>]
<1>1. Rotates(list, m, held, built, t, pool, p, a, after) /\ cursor \in Nat
  BY DEF WaitsIn, IInv, Typed
<1> HIDE DEF held, built, t, cursor
<1>2. MixedWaitOK(list, pool, cursor, p, after, a, 0)
  BY <1>1, MixedWaitOKAtOnce
<1> QED
  BY <1>2 DEF WaitsOn, cursor

(* No step but a turn of its own, or one it is excluded from, takes a      *)
(* member of the pool farther from its turn, unless it moves the rotation. *)
LEMMA WaitsOnNoFarther ==
  ASSUME IInv, IInv', Known, Next, NEW list, NEW m, NEW pool, NEW p, NEW a,
         NEW before, NEW after, NEW count,
         WaitsIn(list, m, pool, p, a, before, after, count),
         mixedCursors'[<<list, m>>] = mixedCursors[<<list, m>>],
         ~(PickedFrom(p, m, after) /\ HadItsTurn(a))
  PROVE  WaitsOn(list, m, pool, p, a, after, count)
<1> SUFFICES ASSUME NEW k \in 1 .. Len(list), list[k] = p,
                    NEW flats, flats = PoolFlats(list, pool),
                    NEW start, start = SlotStart(flats, k), NEW width, width = Cardinality(flats[k]),
                    NEW total, total = Cardinality(pool),
                    NEW slot, slot = mixedCursors[<<list, m>>] % total
             PROVE  count + SlotsAhead(slot, start, width, total, Ahead(after, a)) < total
  BY DEF WaitsOn, MixedWaitOK
<1>1. /\ p \in Listed(list) /\ p \in Provider /\ a \in Auth
      /\ list \in MixedRequests /\ m \in Model /\ count \in Nat
  BY WaitsInTyped
<1>2. MemberOf(list, k, flats, start, width, total, before, a)
  <2>1. Rotates(list, m, auths, shards, now, pool, p, a, before)
    BY DEF WaitsIn
  <2> QED
    BY <2>1, MixedMember
<1>3. MemberOf(list, k, flats, start, width, total, after, a)
  <2> DEFINE held == auths'
             built == shards'
             t == now'
  <2>1. Rotates(list, m, held, built, t, pool, p, a, after)
    BY DEF WaitsIn
  <2> HIDE DEF held, built, t
  <2> QED
    BY <2>1, MixedMember
<1>4. /\ before = ViewOf(shards[p][m], auths[p], a) /\ after = ViewOf(shards'[p][m], auths'[p], a)
      /\ count + SlotsAhead(slot, start, width, total, Ahead(before, a)) < total
  BY DEF WaitsIn, Rotates, MixedWaitOK
<1>5. Pool(before) = Pool(after) /\ before \in View /\ after \in View /\ a \in before.flat
  BY <1>2, <1>3 DEF MemberOf, Pool
<1>6. Ahead(after, a) <= Ahead(before, a)
  BY <1>1, <1>4, <1>5, AheadNoFarther
<1>7. /\ start \in Nat /\ width \in Nat \ {0} /\ total \in Nat \ {0} /\ start + width <= total
      /\ Ahead(before, a) \in 0 .. width - 1 /\ Ahead(after, a) \in 0 .. width - 1
  BY <1>2, <1>3 DEF MemberOf
<1>8. slot \in 0 .. total - 1
  <2>1. mixedCursors[<<list, m>>] \in Nat
    BY <1>1 DEF IInv, Typed
  <2> QED
    BY <1>7, <2>1, ModBelow
<1>9. Ahead(after, a) \in 0 .. Ahead(before, a)
  BY <1>6, <1>7
<1>10. /\ SlotsAhead(slot, start, width, total, Ahead(after, a)) <=
             SlotsAhead(slot, start, width, total, Ahead(before, a))
       /\ SlotsAhead(slot, start, width, total, Ahead(after, a)) \in 0 .. total - 1
       /\ SlotsAhead(slot, start, width, total, Ahead(before, a)) \in 0 .. total - 1
  BY <1>7, <1>8, <1>9, SlotsAheadNoFarther, SlotsAheadBelow
<1> QED
  BY <1>1, <1>4, <1>7, <1>10

(* A request of the rotation itself that passes a member over. *)
LEMMA WaitsOnAfterMixed ==
  ASSUME IInv, IInv', Known, NEW list, BothPlain(list),
         NEW m, NEW pool, NEW p, NEW a, NEW before, NEW after, NEW count,
         WaitsIn(list, m, pool, p, a, before, after, count),
         NEW tried, PickMixed(list, m, tried), answer'.kind = "picked", ~HadItsTurn(a)
  PROVE  WaitsOn(list, m, pool, p, a, after, count + 1)
<1> DEFINE candidates == Candidates(NoAuth, tried)
           ensured == EnsuredShards(list, m)
<1>1. auths' = auths /\ candidates \in SUBSET Auth
  BY DEF PickMixed, Candidates
<1>2. /\ p \in Listed(list) /\ p \in Provider /\ a \in Auth
      /\ list \in MixedRequests /\ m \in Model /\ count \in Nat
  BY WaitsInTyped
<1>3. DOMAIN list = 1 .. Len(list) /\ DOMAIN ensured = DOMAIN list
  BY <1>2, ListedType DEF EnsuredShards
<1>4. \A i \in DOMAIN list : ensured[i] = EnsureModel(list[i], m)
  BY DEF EnsuredShards
<1>5. MixedAnswer(list, m, candidates, ensured)
  BY RefusedIsNoPick DEF PickMixed, MixedRefusal
<1> HIDE DEF candidates, ensured
<1>6. PICK best \in Priority, i \in DOMAIN list, x \in candidates :
        /\ i \in Able(list, ensured, candidates, best)
        /\ \A pr \in Priority : Able(list, ensured, candidates, pr) # {} => pr <= best
        /\ PicksAtPriority(ensured[i], FALSE, best, strategy, candidates, x)
        /\ MixedTurn(list, m, Flats(list, ensured, best),
                     Able(list, ensured, candidates, best), i)
        /\ answer' = Picked(Listed(list), m, candidates, x, list[i], FALSE)
        /\ PutShards(list, m, [ensured EXCEPT ![i] =
              ShardAfterPick(@, FALSE, best, strategy, candidates, x)])
  BY <1>5 DEF MixedAnswer
<1>7. strategy = "round-robin" /\ a # x /\ a \in candidates
  <2>1. answer'.auth = x /\ answer'.candidates = candidates
    BY <1>6 DEF Picked
  <2> QED
    BY <2>1, StrategiesKnown DEF HadItsTurn, IInv, Typed
<1> DEFINE picked == ShardAfterPick(ensured[i], FALSE, best, strategy, candidates, x)
           put == [ensured EXCEPT ![i] = picked]
<1>8. PutShards(list, m, put)
  BY <1>6
<1>9. picked = ShardAfterPick(ensured[i], FALSE, best, "round-robin", candidates, x)
  BY <1>7
<1> HIDE DEF picked
<1>10. put[i] = picked /\ \A j \in DOMAIN list : j # i => put[j] = ensured[j]
  BY <1>3
<1> HIDE DEF put
<1>11. MixedTurned(list, m, candidates, ensured, put, best, i, x)
  BY <1>1, <1>2, <1>3, <1>4, <1>6, <1>7, <1>8, <1>9, <1>10 DEF MixedTurned
<1>12. /\ Rotates(list, m, auths, shards, now, pool, p, a, before)
       /\ Rotates(list, m, auths', shards', now', pool, p, a, after)
       /\ MixedWaitOK(list, pool, mixedCursors[<<list, m>>], p, before, a, count)
  BY DEF WaitsIn
<1>13. MixedWaitOK(list, pool, mixedCursors'[<<list, m>>], p, after, a, count + 1)
  BY <1>2, <1>7, <1>11, <1>12, MixedAfterTurn
<1> QED
  BY <1>13 DEF WaitsOn

(* The step is one of a mixed request, or of none. *)
StepOf(request) ==
    \/ OtherNext /\ request = NoRequest
    \/ \E list \in MixedRequests, m \in Model, tried \in SUBSET Auth :
          PickMixed(list, m, tried) /\ request = <<list, m>>

(* A pick moves no rotation but that of its own request. *)
LEMMA OtherRotationsStay ==
  ASSUME IInv, NEW request, StepOf(request), answer'.kind = "picked",
         NEW r \in MixedRequests \X Model, r # request
  PROVE  mixedCursors'[r] = mixedCursors[r]
<1>1. mixedCursors \in [MixedRequests \X Model -> Nat]
  BY DEF IInv, Typed
<1>2. ASSUME NEW p, NEW m, NEW ws, NEW candidates, AnswerFrom(p, m, ws, candidates)
      PROVE  mixedCursors' = mixedCursors
  BY <1>2 DEF AnswerFrom
<1>3. CASE OtherNext
  <2>1. ASSUME \/ Tick \/ (\E how \in Strategies : SetSelector(how))
               \/ (\E a \in Auth : RemoveAuth(a))
               \/ (\E f \in [Auth -> Snapshots \cup {NoSnapshot}] : RebuildAll(f))
        PROVE  FALSE
    BY <2>1 DEF Tick, SetSelector, RemoveAuth, RebuildAll, NoAnswer
  <2>2. ASSUME NEW a \in Auth, NEW s \in Snapshots, UpsertAuth(a, s)
        PROVE  FALSE
    <3>1. answer' = NoAnswer
      BY <2>2 DEF UpsertAuth, Admit, RemoveAuth
    <3> QED
      BY <3>1 DEF NoAnswer
  <2>3. ASSUME NEW p, NEW m, NEW ws, NEW pinned, NEW tried, PickSingle(p, m, ws, pinned, tried)
        PROVE  mixedCursors' = mixedCursors
    BY <1>2, <2>3 DEF PickSingle
  <2>4. ASSUME NEW list, NEW m, NEW pinned, NEW tried, PickMixedPinned(list, m, pinned, tried)
        PROVE  mixedCursors' = mixedCursors
    BY <1>2, <2>4 DEF PickMixedPinned
  <2> QED
    BY <1>3, <2>1, <2>2, <2>3, <2>4 DEF OtherNext
<1>4. ASSUME NEW list \in MixedRequests, NEW m \in Model, NEW tried \in SUBSET Auth,
             PickMixed(list, m, tried), request = <<list, m>>
      PROVE  mixedCursors'[r] = mixedCursors[r]
  <2> DEFINE candidates == Candidates(NoAuth, tried)
             ensured == EnsuredShards(list, m)
  <2>1. MixedAnswer(list, m, candidates, ensured)
    BY <1>4, RefusedIsNoPick DEF PickMixed, MixedRefusal
  <2> HIDE DEF candidates, ensured
  <2>2. PICK flats, able, i : MixedTurn(list, m, flats, able, i)
    BY <2>1 DEF MixedAnswer
  <2>3. mixedCursors' = mixedCursors \/ \E n : mixedCursors' = [mixedCursors EXCEPT ![request] = n]
    BY <1>4, <2>2 DEF MixedTurn
  <2> QED
    BY <1>1, <2>3
<1> QED
  BY <1>3, <1>4 DEF StepOf

(* Of every mixed request whose providers have no virtual credentials, what *)
(* a member of the pool has waited is in keeping with where the rotation    *)
(* stands.                                                                  *)
MixedWaits ==
    /\ waitedMixed \in [MixedRequests \X Model -> [Auth -> Nat]]
    /\ \A list \in MixedRequests, m \in Model :
          Plain(list, auths) =>
             \A p \in Provider, a \in Auth :
                <<p, a>> \in MixedPool(list, m, shards) =>
                   MixedWaitOK(list, MixedPool(list, m, shards), mixedCursors[<<list, m>>], p,
                               ViewOf(shards[p][m], auths[p], a), a, waitedMixed[<<list, m>>][a])

MInv == RInv /\ MixedWaits

LEMMA MixedPoolIsOfListed ==
  \A list, m, built : MixedPool(list, m, built) \in SUBSET (Listed(list) \X Auth)
  BY DEF MixedPool

LEMMA MixedWaitsInit == RotationInit => MixedWaits
<1> SUFFICES ASSUME RotationInit PROVE MixedWaits
  OBVIOUS
<1>1. ASSUME NEW list \in MixedRequests, NEW m \in Model, NEW p \in Provider, NEW a \in Auth
      PROVE  <<p, a>> \notin MixedPool(list, m, shards)
  <2>1. \A q \in Listed(list) : shards[q][m] = NoShard
    BY <1>1, ListedType DEF RotationInit, Init, NoShards
  <2> QED
    BY <2>1 DEF MixedPool
<1> QED
  BY <1>1 DEF RotationInit, MixedWaits

(* Where a step leaves one member of the pool of a mixed request. *)
LEMMA MixedWaitStep ==
  ASSUME RInv, MixedWaits, IInv', NEW request, StepOf(request), CountMixed(request),
         NEW list \in MixedRequests, NEW m \in Model, Plain(list, auths'),
         NEW pool, pool = MixedPool(list, m, shards'),
         NEW p \in Provider, NEW a \in Auth, <<p, a>> \in pool,
         NEW after, after = ViewOf(shards'[p][m], auths'[p], a)
  PROVE  MixedWaitOK(list, pool, mixedCursors'[<<list, m>>], p, after, a,
                     waitedMixed'[<<list, m>>][a])
<1> DEFINE held == auths'
           built == shards'
           t == now'
           cursor == mixedCursors'[<<list, m>>]
           same == MixedPool(list, m, shards) = pool /\ Plain(list, auths)
<1>0. PICK r \in MixedRequests \X Model : r = <<list, m>>
  OBVIOUS
<1>1. PICK count \in Nat : count = waitedMixed[r][a]
  BY DEF MixedWaits
<1>2. IInv /\ Known /\ Next
  BY DEF RInv, StepOf, Next
<1>3. Rotates(list, m, held, built, t, pool, p, a, after)
  <2>1. MixedState(list, m, held, built, t)
    BY DEF IInv, Typed, ShardsOK, MixedState
  <2> QED
    BY <2>1 DEF Rotates
<1>4. waitedMixed'[r][a] = IF ~same \/ EndsWait(r, request, a) THEN 0
                           ELSE IF answer'.kind = "picked" /\ r = request THEN count + 1
                           ELSE count
  <2>1. r[1] = list /\ r[2] = m
    BY <1>0
  <2>2. ~(\A x \in pool : x[2] # a)
    OBVIOUS
  <2> QED
    BY <1>1, <2>1, <2>2 DEF CountMixed
<1>5. CASE ~same \/ EndsWait(r, request, a)
  <2>1. cursor \in Nat
    BY DEF IInv, Typed
  <2> HIDE DEF held, built, t, cursor
  <2>2. MixedWaitOK(list, pool, cursor, p, after, a, 0)
    BY <1>3, <2>1, MixedWaitOKAtOnce
  <2> QED
    BY <1>0, <1>4, <1>5, <2>2 DEF cursor
<1>6. CASE same /\ ~EndsWait(r, request, a)
  <2>1. PICK before : before = ViewOf(shards[p][m], auths[p], a)
    OBVIOUS
  <2>2. Rotates(list, m, auths, shards, now, pool, p, a, before)
    <3>1. MixedState(list, m, auths, shards, now)
      BY <1>2, <1>6 DEF IInv, Typed, ShardsOK, MixedState
    <3> QED
      BY <1>6, <2>1, <3>1 DEF Rotates
  <2>3. MixedWaitOK(list, pool, mixedCursors[<<list, m>>], p, before, a, count)
    BY <1>0, <1>1, <1>6, <2>1 DEF MixedWaits
  <2>4. WaitsIn(list, m, pool, p, a, before, after, count)
    BY <1>3, <2>2, <2>3 DEF WaitsIn
  <2>5. CASE answer'.kind = "picked" /\ r = request
    <3>1. ~HadItsTurn(a)
      BY <1>6, <2>5 DEF EndsWait
    <3>2. PICK tried \in SUBSET Auth : PickMixed(list, m, tried)
      <4>1. request = <<list, m>> /\ request # NoRequest
        BY <1>0, <2>5, NoRequestFresh
      <4> QED
        BY <4>1 DEF StepOf
    <3>3. BothPlain(list)
      BY <1>6 DEF BothPlain
    <3>4. WaitsOn(list, m, pool, p, a, after, count + 1)
      BY <1>2, <2>4, <2>5, <3>1, <3>2, <3>3, WaitsOnAfterMixed
    <3> QED
      BY <1>0, <1>4, <1>6, <2>5, <3>4 DEF WaitsOn
  <2>6. CASE ~(answer'.kind = "picked" /\ r = request)
    <3>1. mixedCursors'[<<list, m>>] = mixedCursors[<<list, m>>]
      <4>1. CASE answer'.kind # "picked"
        BY <1>6, <4>1 DEF EndsWait
      <4>2. CASE answer'.kind = "picked"
        BY <1>0, <1>2, <2>6, <4>2, OtherRotationsStay
      <4> QED
        BY <4>1, <4>2
    <3>2. ~(PickedFrom(p, m, after) /\ HadItsTurn(a))
      <4>1. r[2] = m
        BY <1>0
      <4>2. ASSUME PickedFrom(p, m, after), HadItsTurn(a)
            PROVE  FALSE
        <5>1. answer'.kind = "picked"
          BY <4>2 DEF PickedFrom
        <5>2. PickedFrom(p, r[2], ViewOf(shards'[p][r[2]], auths'[p], a))
          BY <4>1, <4>2
        <5> QED
          BY <1>6, <4>2, <5>1, <5>2 DEF EndsWait
      <4> QED
        BY <4>2
    <3>3. WaitsOn(list, m, pool, p, a, after, count)
      BY <1>2, <2>4, <3>1, <3>2, WaitsOnNoFarther
    <3> QED
      BY <1>0, <1>4, <1>6, <2>6, <3>3 DEF WaitsOn
  <2> QED
    BY <2>5, <2>6
<1> QED
  BY <1>5, <1>6

LEMMA MixedWaitsStep ==
  ASSUME RInv, MixedWaits, IInv', [FullRotationNext]_rotationVars
  PROVE  MixedWaits'
<1>1. waitedMixed \in [MixedRequests \X Model -> [Auth -> Nat]]
  BY DEF MixedWaits
<1>2. ASSUME NEW request, StepOf(request), CountMixed(request)
      PROVE  MixedWaits'
  <2>1. waitedMixed' \in [MixedRequests \X Model -> [Auth -> Nat]]
    <3> DEFINE count(r, a) ==
                 IF \/ MixedPool(r[1], r[2], shards) # MixedPool(r[1], r[2], shards')
                    \/ ~Plain(r[1], auths)
                    \/ \A x \in MixedPool(r[1], r[2], shards') : x[2] # a
                    \/ EndsWait(r, request, a)
                 THEN 0
                 ELSE IF answer'.kind = "picked" /\ r = request THEN waitedMixed[r][a] + 1
                 ELSE waitedMixed[r][a]
    <3>1. waitedMixed' = [r \in MixedRequests \X Model |-> [a \in Auth |-> count(r, a)]]
      BY <1>2 DEF CountMixed
    <3>2. ASSUME NEW r \in MixedRequests \X Model, NEW a \in Auth
          PROVE  count(r, a) \in Nat
      <4>1. waitedMixed[r][a] \in Nat
        BY <1>1
      <4> QED
        BY <4>1
    <3> HIDE DEF count
    <3> QED
      BY <3>1, <3>2
  <2>2. ASSUME NEW list \in MixedRequests, NEW m \in Model, Plain(list, auths'),
               NEW p \in Provider, NEW a \in Auth, <<p, a>> \in MixedPool(list, m, shards')
        PROVE  MixedWaitOK(list, MixedPool(list, m, shards'), mixedCursors'[<<list, m>>], p,
                           ViewOf(shards'[p][m], auths'[p], a), a, waitedMixed'[<<list, m>>][a])
    BY <1>2, <2>2, MixedWaitStep
  <2> QED
    BY <2>1, <2>2 DEF MixedWaits
<1>3. CASE FullRotationNext
  <2>1. CASE OtherNext /\ CountMixed(NoRequest)
    <3>1. StepOf(NoRequest)
      BY <2>1 DEF StepOf
    <3> QED
      BY <1>2, <2>1, <3>1
  <2>2. ASSUME NEW list \in MixedRequests, NEW m \in Model, NEW tried \in SUBSET Auth,
               PickMixed(list, m, tried), CountMixed(<<list, m>>)
        PROVE  MixedWaits'
    <3>1. PICK request : request = <<list, m>>
      OBVIOUS
    <3>2. StepOf(request) /\ CountMixed(request)
      BY <2>2, <3>1 DEF StepOf
    <3> QED
      BY <1>2, <3>2
  <2> QED
    BY <1>3, <2>1, <2>2 DEF FullRotationNext
<1>4. CASE UNCHANGED rotationVars
  BY <1>4 DEF MixedWaits, rotationVars, vars
<1> QED
  BY <1>3, <1>4

(* The same over the pool of a mixed request: what a member has waited and *)
(* the picks that can still come before it are together less than the pool *)
(* has members.                                                            *)
THEOREM MixedRotationInvariance == FullRotationSpec => []MInv
<1>1. RotationInit => MInv
  BY RInvInit, MixedWaitsInit DEF MInv
<1>2. MInv /\ [FullRotationNext]_rotationVars => MInv'
  <2> SUFFICES ASSUME MInv, [FullRotationNext]_rotationVars PROVE MInv'
    OBVIOUS
  <2>1. RInv'
    BY RInvStep DEF MInv
  <2>2. IInv'
    BY <2>1 DEF RInv
  <2> QED
    BY <2>1, <2>2, MixedWaitsStep DEF MInv
<1> QED
  BY <1>1, <1>2, PTL DEF FullRotationSpec

(* No credential of the pool of a mixed request is passed over for longer  *)
(* than one turn of every credential of it, however many each provider has *)
(* and whatever other requests turn the same views.                        *)
THEOREM BoundedMixedWaitInvariant == FullRotationSpec => []BoundedMixedWait
<1>1. MInv => BoundedMixedWait
  <2> SUFFICES ASSUME MInv, NEW list \in MixedRequests, NEW m \in Model, Plain(list, auths),
                      NEW pool, pool = MixedPool(list, m, shards), NEW z \in pool
               PROVE  waitedMixed[<<list, m>>][z[2]] < Cardinality(pool)
    BY DEF BoundedMixedWait
  <2>1. PICK p \in Listed(list), a \in Auth : z = <<p, a>>
    BY MixedPoolIsOfListed
  <2>2. p \in Provider /\ \E k \in 1 .. Len(list) : list[k] = p
    BY <2>1, ListedType DEF Listed
  <2>3. PICK view : view = ViewOf(shards[p][m], auths[p], a)
    OBVIOUS
  <2>4. /\ waitedMixed[<<list, m>>][a] \in Nat
        /\ MixedWaitOK(list, pool, mixedCursors[<<list, m>>], p, view, a, waitedMixed[<<list, m>>][a])
    BY <2>1, <2>2, <2>3 DEF MInv, MixedWaits
  <2>5. Rotates(list, m, auths, shards, now, pool, p, a, view)
    <3>1. MixedState(list, m, auths, shards, now)
      BY DEF MInv, RInv, IInv, Typed, ShardsOK, MixedState
    <3> QED
      BY <2>1, <2>3, <3>1 DEF Rotates
  <2>6. PICK k \in 1 .. Len(list) : list[k] = p
    BY <2>2
  <2> DEFINE flats == PoolFlats(list, pool)
             start == SlotStart(flats, k)
             width == Cardinality(flats[k])
             total == Cardinality(pool)
             cursor == mixedCursors[<<list, m>>]
             wait == waitedMixed[<<list, m>>][a]
  <2>7. wait + SlotsAhead(cursor % total, start, width, total, Ahead(view, a)) < total
    BY <2>4, <2>6 DEF MixedWaitOK
  <2>8. MemberOf(list, k, flats, start, width, total, view, a)
    <3> HIDE DEF flats, start, width, total
    <3> QED
      BY <2>5, <2>6, MixedMember DEF flats, start, width, total
  <2>9. cursor \in Nat
    BY DEF MInv, RInv, IInv, Typed
  <2> HIDE DEF flats, start, width, total, cursor
  <2>10. /\ start \in Nat /\ width \in Nat \ {0} /\ total \in Nat \ {0} /\ start + width <= total
         /\ Ahead(view, a) \in 0 .. width - 1
    BY <2>8 DEF MemberOf
  <2>11. cursor % total \in 0 .. total - 1
    BY <2>9, <2>10, ModBelow
  <2>12. SlotsAhead(cursor % total, start, width, total, Ahead(view, a)) \in 0 .. total - 1
    BY <2>10, <2>11, SlotsAheadBelow
  <2>13. wait < total
    BY <2>4, <2>7, <2>10, <2>12
  <2> QED
    BY <2>1, <2>13 DEF total
<1> QED
  BY <1>1, MixedRotationInvariance, PTL
=============================================================================
