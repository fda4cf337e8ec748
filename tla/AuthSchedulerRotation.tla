----------------------- MODULE AuthSchedulerRotation -----------------------
(***************************************************************************)
(* How long a ready credential can be passed over by the round-robin of    *)
(* AuthScheduler.  Two history variables count the picks that passed a     *)
(* credential over while it was a candidate and the pool it rotates in did *)
(* not change; neither influences a step.                                  *)
(***************************************************************************)
EXTENDS AuthScheduler

CONSTANTS NoRequest,
          MaxTried  \* bound of RotationNext: how many a retry excludes

ASSUME NoRequestFresh == NoRequest \notin MixedRequests \X Model

VARIABLES waited,      \* waited[p][m][a]: picks from a's view since a had its turn
          waitedMixed  \* waitedMixed[r][a]: the same over the pool of the mixed request r

rotationVars == <<vars, waited, waitedMixed>>

-----------------------------------------------------------------------------
(* The members of the view of shard a rotates in, with their groups. *)
ViewOf(shard, held, a) ==
    IF shard # NoShard /\ shard.entries[a].state = "ready"
    THEN shard.views[held[a].priority].all
    ELSE EmptyView

Pool(view) == <<view.flat, view.parent>>

(* The pick was made from view, which is not the websocket-only one. *)
PickedFrom(p, m, view) ==
    /\ answer'.kind = "picked"
    /\ answer'.provider = p /\ answer'.model = m
    /\ answer'.auth \in view.flat
    /\ ~(answer'.preferWebsocket /\ auths'[p][answer'.auth].websocket)

(* Under fill-first a credential may wait for ever, as it is meant to. *)
HadItsTurn(a) == strategy = "fill-first" \/ a = answer'.auth \/ a \notin answer'.candidates

CountTurn(count, a) == IF HadItsTurn(a) THEN 0 ELSE count + 1

CountWaited ==
    waited' = [p \in Provider |-> [m \in Model |-> [a \in Auth |->
        LET before == ViewOf(shards[p][m], auths[p], a)
            after  == ViewOf(shards'[p][m], auths'[p], a)
        IN  IF Pool(before) # Pool(after) THEN 0
            ELSE IF PickedFrom(p, m, after) THEN CountTurn(waited[p][m][a], a)
            ELSE waited[p][m][a]]]]

(* The credentials a mixed request for m over list rotates among. *)
MixedPool(list, m, built) ==
    LET ready(pr) == {x \in Listed(list) \X Auth :
                        built[x[1]][m] # NoShard /\ x[2] \in built[x[1]][m].views[pr].all.flat}
        priorities == {pr \in Priority : ready(pr) # {}}
    IN  UNION {ready(pr) : pr \in {q \in priorities : \A r \in priorities : r <= q}}

(* No credential of the providers of the list is a virtual one. *)
Plain(list, held) ==
    \A p \in Listed(list), a \in Auth : held[p][a] # NoSnapshot => held[p][a].parent = NoParent

(* What ends the wait of a in the rotation of r: a turn of its own or one  *)
(* it is excluded from, in that rotation, which is that of request, or in  *)
(* the view it shares with other requests; and a cursor that is reset.     *)
EndsWait(r, request, a) ==
    IF answer'.kind # "picked" THEN mixedCursors' # mixedCursors
    ELSE /\ HadItsTurn(a)
         /\ \/ r = request
            \/ \E p \in Provider : PickedFrom(p, r[2], ViewOf(shards'[p][r[2]], auths'[p], a))

(* The step was made by request, NoRequest if it is not a mixed one. *)
CountMixed(request) ==
    waitedMixed' = [r \in MixedRequests \X Model |->
        LET before == MixedPool(r[1], r[2], shards)
            after  == MixedPool(r[1], r[2], shards')
        IN  [a \in Auth |->
                IF \/ before # after \/ ~Plain(r[1], auths)
                   \/ \A x \in after : x[2] # a
                   \/ EndsWait(r, request, a)
                THEN 0
                ELSE IF answer'.kind = "picked" /\ r = request THEN waitedMixed[r][a] + 1
                ELSE waitedMixed[r][a]]]

-----------------------------------------------------------------------------
RotationInit == /\ Init
                /\ waited = [p \in Provider |-> [m \in Model |-> [a \in Auth |-> 0]]]
                /\ waitedMixed = [r \in MixedRequests \X Model |-> [a \in Auth |-> 0]]

(* All that the scheduler can do. *)
FullRotationNext ==
    /\ \/ OtherNext /\ CountMixed(NoRequest)
       \/ \E list \in MixedRequests, m \in Model, tried \in SUBSET Auth :
             PickMixed(list, m, tried) /\ CountMixed(<<list, m>>)
    /\ CountWaited

FullRotationSpec == RotationInit /\ [][FullRotationNext]_rotationVars

(* What TLC checks of it: mixed requests, pinned or not, and those of one  *)
(* provider, with retries, among upserts, removals and a clock; but no     *)
(* rebuild, which leaves nothing to wait for.                              *)
Tried == {tried \in SUBSET Auth : Cardinality(tried) <= MaxTried}

RotationNext ==
    /\ \/ /\ \/ Tick
             \/ \E how \in Strategies : SetSelector(how)
             \/ \E a \in Auth : RemoveAuth(a)
             \/ \E a \in Auth, s \in Snapshots : UpsertAuth(a, s)
             \/ \E p \in Provider \cap {Codex}, m \in Model, ws \in BOOLEAN, tried \in Tried :
                   PickSingle(p, m, ws, NoAuth, tried)
             \/ \E list \in MixedRequests, m \in Model, pinned \in Auth :
                   PickMixedPinned(list, m, pinned, {})
          /\ CountMixed(NoRequest)
       \/ \E list \in MixedRequests, m \in Model, tried \in Tried :
             PickMixed(list, m, tried) /\ CountMixed(<<list, m>>)
    /\ CountWaited

RotationSpec == RotationInit /\ [][RotationNext]_rotationVars

-----------------------------------------------------------------------------
(* The number of turns in which a rotation comes round to a: each in turn  *)
(* in a flat view; in a grouped one, a's group once per round of groups,   *)
(* and a once per round of the group.                                      *)
Turns(view, a) ==
    IF Grouped(view)
    THEN Cardinality(Parents(view)) * Cardinality(Members(view, view.parent[a]))
    ELSE Cardinality(view.flat)

(* As long as the ready credentials of its priority stay the same, a ready *)
(* credential is not passed over for longer than one full rotation.        *)
(* Retries that exclude others, requests that prefer websockets, and       *)
(* upserts that rebuild the shard without changing the pool (their cursors *)
(* are carried over) do not make it wait longer.                           *)
BoundedWait ==
    \A p \in Provider, m \in Model, a \in Auth :
        LET view == ViewOf(shards[p][m], auths[p], a)
        IN  a \in view.flat => waited[p][m][a] < Turns(view, a)

(* The same over several providers: a mixed request gives each provider as *)
(* many turns as it has ready credentials at the best priority, so none    *)
(* waits for longer than one turn of every credential of the pool, unless  *)
(* its provider has virtual ones.  Requests of one provider, pinned ones   *)
(* and those for the providers in another order, which turn the same views *)
(* between two turns of the rotation, do not make it wait longer.          *)
BoundedMixedWait ==
    \A list \in MixedRequests, m \in Model : Plain(list, auths) =>
        LET pool == MixedPool(list, m, shards)
        IN  \A x \in pool : waitedMixed[<<list, m>>][x[2]] < Cardinality(pool)
=============================================================================
