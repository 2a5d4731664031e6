---------------------------- MODULE CanvasScene ----------------------------
(* The retained scene of the canvas: a tree of bounding boxes over the      *)
(* items, kept in an array with a free list (SparseSpatialIndex), and the   *)
(* regions to redraw (BoundedInvalidation), changed together by CanvasScene.*)
(* An index of the array is a number from 1, Null is kNullNode.  Lengths    *)
(* are integers: the scaling of perimeters against overflow is left out.    *)
EXTENDS Integers, SequencesExt

CONSTANTS Items,      \* the identities of items
          Boxes,      \* the bounds a caller passes, the invalid ones too
          RegionCap   \* region_cap_

VARIABLES index,      \* SparseSpatialIndex::Impl
          regions,    \* BoundedInvalidation::regions_, which are kept sorted
          damage      \* every rectangle recorded since the last clear
sceneVars == <<index, regions, damage>>

Null == 0

IsValidBox(b) == b.w >= 0 /\ b.h >= 0
ToRect(b) == [left |-> b.x, top |-> b.y, right |-> b.x + b.w, bottom |-> b.y + b.h]

Intersects(r, s) == /\ r.left <= s.right  /\ s.left <= r.right
                    /\ r.top  <= s.bottom /\ s.top  <= r.bottom
Unite(r, s) == [left   |-> IF r.left   < s.left   THEN r.left   ELSE s.left,
                top    |-> IF r.top    < s.top    THEN r.top    ELSE s.top,
                right  |-> IF r.right  > s.right  THEN r.right  ELSE s.right,
                bottom |-> IF r.bottom > s.bottom THEN r.bottom ELSE s.bottom]
UniteAll(R) == LET r == CHOOSE r \in R : TRUE IN FoldSet(Unite, r, R)
Perimeter(r) == r.right - r.left + r.bottom - r.top

----------------------------------------------------------------------------
(* The array and its free list.                                             *)
BlankNode == [bounds |-> ToRect([x |-> 0, y |-> 0, w |-> 0, h |-> 0]), item |-> Null, parent |-> Null, left |-> Null,
              right |-> Null, height |-> 0, next |-> Null]
EmptyIndex == [nodes |-> <<>>, root |-> Null, free |-> Null,
               records |-> <<>>]

IsLeaf(t, n) == t.nodes[n].left = Null
Height(t, n) == t.nodes[n].height

\* The slot the next allocation takes, and the index once it is taken.
NextSlot(t) == IF t.free # Null THEN t.free ELSE Len(t.nodes) + 1
AllocateNode(t) ==
  IF t.free # Null
    THEN [t EXCEPT !.free = t.nodes[t.free].next, !.nodes[t.free] = BlankNode]
    ELSE [t EXCEPT !.nodes = Append(@, BlankNode)]
\* Mutant of ReleaseNode: the slot is blanked and never found again.
ReleaseNode_Forgets(t, n) == [t EXCEPT !.nodes[n] = BlankNode]

ReleaseNode(t, n) ==
  [t EXCEPT !.nodes[n] = [BlankNode EXCEPT !.next = t.free], !.free = n]

----------------------------------------------------------------------------
(* The tree.                                                                *)
InsertionCost(t, n, r) ==
  Perimeter(Unite(t.nodes[n].bounds, r)) - Perimeter(t.nodes[n].bounds)

\* The child a new leaf goes under: the cheaper, then the shallower, then the
\* one in the lower slot.
Cheaper(t, n, r) ==
  LET rank(c) == <<InsertionCost(t, c, r), Height(t, c), c>>
      l == t.nodes[n].left
      h == t.nodes[n].right
  IN  IF \E k \in 1..3 : /\ rank(l)[k] < rank(h)[k]
                         /\ \A j \in 1..(k - 1) : rank(l)[j] = rank(h)[j]
        THEN l ELSE h
RECURSIVE SiblingUnder(_, _, _)
SiblingUnder(t, n, r) ==
  IF IsLeaf(t, n) THEN n ELSE SiblingUnder(t, Cheaper(t, n, r), r)
ChooseSibling(t, r) == SiblingUnder(t, t.root, r)

UpdateBranch(t, n) ==
  LET l == t.nodes[n].left
      h == t.nodes[n].right
  IN  [t EXCEPT !.nodes[n].bounds = Unite(t.nodes[l].bounds, t.nodes[h].bounds),
                !.nodes[n].height = 1 + Max({Height(t, l), Height(t, h)})]

\* `new' takes the place of `old' under `parent', or as the root.
Replace(t, parent, old, new) ==
  IF parent = Null THEN [t EXCEPT !.root = new]
  ELSE IF t.nodes[parent].left = old THEN [t EXCEPT !.nodes[parent].left = new]
  ELSE [t EXCEPT !.nodes[parent].right = new]

\* The child of n on `side' rises, keeps its taller child, and gives n the other.
Rotate(t, n, side) ==
  LET up     == t.nodes[n][side]
      low    == t.nodes[up].left
      high   == t.nodes[up].right
      taller == IF Height(t, low) > Height(t, high) THEN low ELSE high
      other  == IF taller = low THEN high ELSE low
      turned == [Replace(t, t.nodes[n].parent, n, up) EXCEPT
                   !.nodes[up].left = n, !.nodes[up].right = taller,
                   !.nodes[up].parent = t.nodes[n].parent,
                   !.nodes[n].parent = up, !.nodes[n][side] = other,
                   !.nodes[other].parent = n]
  IN  UpdateBranch(UpdateBranch(turned, n), up)

Lean(t, n) == Height(t, t.nodes[n].right) - Height(t, t.nodes[n].left)
Balance(t, n) ==
  IF IsLeaf(t, n) THEN [tree |-> t, at |-> n]
  ELSE IF Lean(t, n) > 1 THEN [tree |-> Rotate(t, n, "right"), at |-> t.nodes[n].right]
  ELSE IF Lean(t, n) < -1 THEN [tree |-> Rotate(t, n, "left"), at |-> t.nodes[n].left]
  ELSE [tree |-> t, at |-> n]

RECURSIVE RefitFrom(_, _)
RefitFrom(t, n) ==
  IF n = Null THEN t
  ELSE LET b == Balance(t, n)
       IN  RefitFrom(UpdateBranch(b.tree, b.at), b.tree.nodes[b.at].parent)

InsertLeaf(t, leaf) ==
  IF t.root = Null THEN [t EXCEPT !.root = leaf]
  ELSE
    LET sibling == ChooseSibling(t, t.nodes[leaf].bounds)
        above   == t.nodes[sibling].parent
        branch  == NextSlot(t)
        joined  == [AllocateNode(t) EXCEPT
                      !.nodes[branch].parent = above,
                      !.nodes[branch].left = sibling, !.nodes[branch].right = leaf,
                      !.nodes[sibling].parent = branch, !.nodes[leaf].parent = branch]
    IN  RefitFrom(Replace(UpdateBranch(joined, branch), above, sibling, branch), above)

DetachLeaf(t, leaf) ==
  IF leaf = t.root THEN [t EXCEPT !.root = Null]
  ELSE
    LET branch  == t.nodes[leaf].parent
        above   == t.nodes[branch].parent
        sibling == IF t.nodes[branch].left = leaf THEN t.nodes[branch].right
                                                  ELSE t.nodes[branch].left
        joined  == [Replace(t, above, branch, sibling) EXCEPT
                      !.nodes[sibling].parent = above]
        alone   == [ReleaseNode(joined, branch) EXCEPT !.nodes[leaf].parent = Null]
    IN  RefitFrom(alone, above)

----------------------------------------------------------------------------
(* The operations of the index.                                             *)
Present(t, i) == i \in DOMAIN t.records

IndexInsert(t, i, b) ==
  LET leaf   == NextSlot(t)
      placed == [AllocateNode(t) EXCEPT !.nodes[leaf].bounds = ToRect(b),
                                        !.nodes[leaf].item = i]
  IN  [InsertLeaf(placed, leaf) EXCEPT !.records = (i :> [bounds |-> b, leaf |-> leaf]) @@ @]

IndexUpdate(t, i, b) ==
  LET leaf  == t.records[i].leaf
      moved == [DetachLeaf(t, leaf) EXCEPT !.nodes[leaf].bounds = ToRect(b)]
  IN  [InsertLeaf(moved, leaf) EXCEPT !.records[i].bounds = b]

IndexRemove(t, i) ==
  LET leaf == t.records[i].leaf
  IN  [ReleaseNode(DetachLeaf(t, leaf), leaf) EXCEPT !.records = Restrict(@, DOMAIN @ \ {i})]

RECURSIVE FoundUnder(_, _, _)
FoundUnder(t, n, r) ==
  IF ~Intersects(r, t.nodes[n].bounds) THEN {}
  ELSE IF IsLeaf(t, n) THEN {t.nodes[n].item}
  ELSE FoundUnder(t, t.nodes[n].left, r) \union FoundUnder(t, t.nodes[n].right, r)
Query(t, b) == IF t.root = Null THEN {} ELSE FoundUnder(t, t.root, ToRect(b))

----------------------------------------------------------------------------
(* The regions to redraw: those the new one touches are merged with it, one *)
(* region stands for all once there would be too many.                      *)
RECURSIVE Coalesced(_, _)
Coalesced(R, r) ==
  LET touched == {s \in R : Intersects(r, s)}
  IN  IF touched = {} THEN R \union {r}
      ELSE Coalesced(R \ touched, UniteAll(touched \union {r}))
AddBounds(R, b) ==
  LET merged == Coalesced(R, ToRect(b))
  IN  IF Cardinality(merged) > RegionCap THEN {UniteAll(merged)} ELSE merged

----------------------------------------------------------------------------
Redraw(B) == damage' = damage \union {ToRect(b) : b \in B}

SceneInsert(i, b) == /\ IsValidBox(b) /\ ~Present(index, i)
                     /\ index' = IndexInsert(index, i, b)
                     /\ regions' = AddBounds(regions, b)
                     /\ Redraw({b})
SceneUpdate(i, b) == /\ Present(index, i) /\ IsValidBox(b)
                     /\ index' = IndexUpdate(index, i, b)
                     /\ regions' = AddBounds(AddBounds(regions, index.records[i].bounds), b)
                     /\ Redraw({index.records[i].bounds, b})
SceneRemove(i) == /\ Present(index, i)
                  /\ index' = IndexRemove(index, i)
                  /\ regions' = AddBounds(regions, index.records[i].bounds)
                  /\ Redraw({index.records[i].bounds})
ClearInvalidation == /\ regions' = {} /\ damage' = {}
                     /\ UNCHANGED index

SceneInit == index = EmptyIndex /\ regions = {} /\ damage = {}
SceneNext == \/ \E i \in Items, b \in Boxes : SceneInsert(i, b) \/ SceneUpdate(i, b)
             \/ \E i \in Items : SceneRemove(i)
             \/ ClearInvalidation

----------------------------------------------------------------------------
RECURSIVE Under(_, _)
Under(t, n) == IF n = Null THEN {}
               ELSE {n} \union Under(t, t.nodes[n].left) \union Under(t, t.nodes[n].right)
RECURSIVE FreeFrom(_, _)
FreeFrom(t, n) == IF n = Null THEN {} ELSE {n} \union FreeFrom(t, t.nodes[n].next)

QueryIsExact ==
  \A b \in {x \in Boxes : IsValidBox(x)} :
    Query(index, b) = {i \in Items : /\ Present(index, i)
                                     /\ Intersects(ToRect(b), ToRect(index.records[i].bounds))}

TreeIsSound ==
  LET live == Under(index, index.root)
      free == FreeFrom(index, index.free)
      node(n) == index.nodes[n]
  IN  /\ live \union free = DOMAIN index.nodes /\ live \intersect free = {}
      /\ {n \in live : IsLeaf(index, n)}
           = {index.records[i].leaf : i \in {j \in Items : Present(index, j)}}
      /\ \A i \in Items : Present(index, i) =>
           /\ node(index.records[i].leaf).item = i
           /\ node(index.records[i].leaf).bounds = ToRect(index.records[i].bounds)
      /\ \A n \in live : ~IsLeaf(index, n) =>
           /\ UpdateBranch(index, n) = index
           /\ Lean(index, n) \in -1..1
           /\ \A c \in {node(n).left, node(n).right} : node(c).parent = n
      /\ live # {} => node(index.root).parent = Null

\* Every place an item was or is since the last clear is redrawn, by no more
\* regions than the cap, no two of which touch (add_bounds).
DamageIsCovered ==
  /\ \A d \in damage : \E r \in regions : Unite(r, d) = r
  /\ Cardinality(regions) <= RegionCap
  /\ \A r, s \in regions : Intersects(r, s) => r = s

(* However items came, moved and went, a query answers what a look at every *)
(* item would; the array holds one tree and the free list and nothing else, *)
(* and the tree has a leaf for each item, the bounds, heights and parents   *)
(* its shape implies, and no branch that leans by more than one (query,     *)
(* refit_from, balance); and the damage covers all that is to be redrawn.   *)
IndexIsSound == QueryIsExact /\ TreeIsSound /\ DamageIsCovered
=============================================================================
