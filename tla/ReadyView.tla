------------------------------ MODULE ReadyView ------------------------------
(***************************************************************************)
(* The rotating views of ready credentials that a model shard of the auth  *)
(* scheduler keeps per priority (sdk/cliproxy/auth/scheduler.go, readyView *)
(* and childBucket).                                                       *)
(*                                                                         *)
(* The code keeps a view as slices sorted by ID.  A sorted slice is given  *)
(* by its set of elements, so a view is a set of IDs, IDs being naturals   *)
(* in the order of their strings, and the index of an ID in the slice is   *)
(* its rank in the set.                                                    *)
(***************************************************************************)
EXTENDS Integers, FiniteSets

CONSTANTS Auth,     \* IDs of credentials
          Parent,   \* IDs of the parents of virtual credentials
          NoParent  \* a credential without a virtual parent

ASSUME OrderedIDs == Auth \subseteq Nat /\ Parent \subseteq Nat /\ IsFiniteSet(Auth)
ASSUME NoParentFresh == NoParent \notin Parent

(* flat is the view's slice, parent the group each member was put in when  *)
(* the view was built, and the rest its three kinds of cursors.            *)
View == [flat: SUBSET Auth,
         parent: [Auth -> Parent \cup {NoParent}],
         cursor: Nat,
         parentCursor: Nat,
         childCursor: [Parent -> Nat]]

EmptyView == [flat |-> {},
              parent |-> [a \in Auth |-> NoParent],
              cursor |-> 0,
              parentCursor |-> 0,
              childCursor |-> [g \in Parent |-> 0]]

-----------------------------------------------------------------------------
(* Index of x in the sorted slice of S, from 0. *)
Rank(S, x) == Cardinality({y \in S : y < x})

(* How far a scan of S that starts at cursor gets before it meets x. *)
Distance(S, cursor, x) ==
    LET n == Cardinality(S)
    IN  (Rank(S, x) + n - (cursor % n)) % n

(* x is the first candidate such a scan meets. *)
FirstFrom(S, cursor, candidates, x) ==
    /\ x \in candidates
    /\ \A y \in candidates : Distance(S, cursor, x) <= Distance(S, cursor, y)

Members(view, g) == {a \in view.flat : view.parent[a] = g}
Parents(view) == {view.parent[a] : a \in view.flat}

(* parentOrder and children are only built when every member has a virtual *)
(* parent and there are at least two of them.                              *)
Grouped(view) == /\ NoParent \notin Parents(view)
                 /\ Cardinality(Parents(view)) > 1

-----------------------------------------------------------------------------
(* Mutant: a cursor past the end is clamped to the last index. *)
Normalize_Clamped(cursor, size) == IF cursor < size THEN cursor ELSE size - 1

(* normalizeCursor *)
Normalize(cursor, size) == IF size = 0 THEN 0 ELSE cursor % size

(* Mutant: a rebuild starts the flat rotation over. *)
BuildReadyView_ForgetsCursor(S, parent, old) ==
    LET fresh == [EmptyView EXCEPT !.flat = S,
                                   !.parent = [a \in Auth |-> IF a \in S THEN parent[a]
                                                              ELSE NoParent]]
    IN  [fresh EXCEPT !.parentCursor = old.parentCursor, !.childCursor = old.childCursor]

(* buildReadyView on the members S, then restoreReadyViewCursors with the  *)
(* cursors snapshotReadyViewCursors took of the view it replaces.          *)
BuildReadyView(S, parent, old) ==
    LET fresh == [EmptyView EXCEPT !.flat = S,
                                   !.parent = [a \in Auth |-> IF a \in S THEN parent[a]
                                                              ELSE NoParent]]
    IN  [fresh EXCEPT
           !.cursor = Normalize(old.cursor, Cardinality(S)),
           !.parentCursor =
               IF Grouped(fresh) THEN Normalize(old.parentCursor, Cardinality(Parents(fresh)))
               ELSE 0,
           !.childCursor =
               [g \in Parent |->
                  IF Grouped(fresh) /\ Grouped(old)
                  THEN Normalize(old.childCursor[g], Cardinality(Members(fresh, g)))
                  ELSE 0]]

(* pickFirst: a is what a scan from the start of the slice returns. *)
PickFirst(view, candidates, a) ==
    /\ a \in view.flat \cap candidates
    /\ \A b \in view.flat \cap candidates : a <= b

(* pickGroupedRoundRobin: the first parent with a candidate, and its first *)
(* candidate.                                                              *)
PickGroupedRoundRobin(view, candidates, a) ==
    LET able == view.flat \cap candidates
        g    == view.parent[a]
    IN  /\ a \in able
        /\ FirstFrom(Parents(view), view.parentCursor, {view.parent[b] : b \in able}, g)
        /\ FirstFrom(Members(view, g), view.childCursor[g], Members(view, g) \cap able, a)

(* pickRoundRobin: a is the next of the view among the candidates. *)
PickRoundRobin(view, candidates, a) ==
    IF Grouped(view)
    THEN PickGroupedRoundRobin(view, candidates, a)
    ELSE FirstFrom(view.flat, view.cursor, view.flat \cap candidates, a)

(* The cursors pickRoundRobin leaves behind once it has picked a. *)
AfterPick(view, a) ==
    LET g == view.parent[a]
    IN  IF Grouped(view)
        THEN [view EXCEPT !.parentCursor = Rank(Parents(view), g) + 1,
                          !.childCursor[g] = Rank(Members(view, g), a) + 1]
        ELSE [view EXCEPT !.cursor = Rank(view.flat, a) + 1]
=============================================================================
