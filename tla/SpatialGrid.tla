---------------------------- MODULE SpatialGrid -----------------------------
(***************************************************************************)
(* The spatial index of the server (core/spatial.rs, SpatialGrid): a hash  *)
(* of cells with a ceiling on each, a list for what a full cell cannot     *)
(* take, and the cell each id was last filed under.  Five such indices     *)
(* hold the entities the interest manager replicates.                      *)
(*                                                                         *)
(* One axis stands for the three, which the code treats alike; the order   *)
(* inside a cell or the list is not observable, so both are bags.          *)
(***************************************************************************)
EXTENDS Integers, FiniteSets, Bags

CONSTANTS
    Ids,             \* entity ids
    Extent,          \* bound: positions are 0..Extent
    CellSize,        \* SPATIAL_CELL_SIZE
    CellCap,         \* MAX_ENTITIES_PER_CELL
    Factor, Slack    \* a query scans when it would walk more than Factor * entities + Slack cells

ASSUME GridAssumption ==
    /\ Extent \in Nat /\ CellSize \in Nat \ {0} /\ CellCap \in Nat \ {0}
    /\ Factor \in Nat /\ Slack \in Nat

Positions == 0..Extent
Astray == -1  \* a position that is not finite
CellOf(p) == p \div CellSize
AllCells == {CellOf(p) : p \in Positions}
Unfiled == -1

VARIABLES
    index,  \* [cells, spilled, filed]: the index
    truth   \* history: the entities an exact map would hold, with their positions

gridVars == <<index, truth>>

Entry(id, p) == [id |-> id, at |-> p]
Empty == [cells |-> [c \in AllCells |-> EmptyBag], spilled |-> EmptyBag,
          filed |-> [i \in Ids |-> Unfiled]]

GridInit == index = Empty /\ truth = {}

Of(id, bag) == {e \in BagToSet(bag) : e.id = id}
Without(id, bag) == bag (-) SetToBag({CHOOSE e \in Of(id, bag) : TRUE})
Replaced(e, bag) == Without(e.id, bag) (+) SetToBag({e})

-----------------------------------------------------------------------------
(* remove: the cell the id is filed under, then the list of the spilled.   *)

RemovedFromCell(g, id) ==  \* mutant: the list is forgotten
    IF g.filed[id] = Unfiled THEN g
    ELSE IF Of(id, g.cells[g.filed[id]]) = {} THEN [g EXCEPT !.filed[id] = Unfiled]
    ELSE [g EXCEPT !.filed[id] = Unfiled, !.cells[g.filed[id]] = Without(id, @)]

Removed(g, id) ==
    LET c == g.filed[id]
        rest == [g EXCEPT !.filed[id] = Unfiled]
    IN  IF c = Unfiled THEN g
        ELSE IF Of(id, g.cells[c]) # {} THEN [rest EXCEPT !.cells[c] = Without(id, @)]
        ELSE IF Of(id, g.spilled) # {} THEN [rest EXCEPT !.spilled = Without(id, @)]
        ELSE rest

(* spill_cell and the placement that follows it.                           *)
Placed(g, e) ==
    LET c == CellOf(e.at)
        filed == [g EXCEPT !.filed[e.id] = c]
    IN  IF BagCardinality(g.cells[c]) < CellCap
        THEN [filed EXCEPT !.cells[c] = @ (+) SetToBag({e})]
        ELSE [filed EXCEPT !.spilled = @ (+) SetToBag({e})]

(* insert, which is also every update of a position.                       *)
Inserted(g, e) ==
    LET c == CellOf(e.at) IN
    IF e.at = Astray THEN g
    ELSE IF g.filed[e.id] \notin {Unfiled, c} THEN Placed(Removed(g, e.id), e)
    ELSE IF g.filed[e.id] = c /\ Of(e.id, g.cells[c]) # {}
         THEN [g EXCEPT !.cells[c] = Replaced(e, @)]
    ELSE IF g.filed[e.id] = c /\ Of(e.id, g.spilled) # {}
         THEN [g EXCEPT !.spilled = Replaced(e, @)]
    ELSE Placed(g, e)

SpilledAside(g) == [g EXCEPT !.cells = Empty.cells, !.filed = Empty.filed]  \* mutant: the list survives
Cleared(g) == Empty

-----------------------------------------------------------------------------
(* query_radius: walk the cells the range covers, or scan all of them when *)
(* that is cheaper; either way consider the spilled.  query_bounds, which  *)
(* asks what overlaps a box, is not modelled: it walks the cells of the    *)
(* box only, so that walk and scan may differ for what reaches in from     *)
(* outside.                                                                *)

Within(e, center, radius) == e.at - center \in -radius..radius
Kept(bag, center, radius) == [e \in {f \in BagToSet(bag) : Within(f, center, radius)} |-> bag[e]]

Walked(center, radius) == CellOf(center - radius)..CellOf(center + radius)
Filed(g) == {i \in Ids : g.filed[i] # Unfiled}
TooWide(g, center, radius) ==
    Cardinality(Walked(center, radius)) > Factor * Cardinality(Filed(g)) + Slack

Visited(g, center, radius) ==
    IF TooWide(g, center, radius) THEN AllCells ELSE Walked(center, radius) \cap AllCells

(* What is found is told apart by where it was found: the code puts it all *)
(* into one list, and an entity found in two places is in it twice.        *)
Aside == -1
Lists(g) == [q \in AllCells \cup {Aside} |-> IF q = Aside THEN g.spilled ELSE g.cells[q]]

Query(g, center, radius) ==
    [q \in Visited(g, center, radius) \cup {Aside} |-> Kept(Lists(g)[q], center, radius)]

AllEntities(g) == Lists(g)

-----------------------------------------------------------------------------
Insert(id, p) ==
    /\ index' = Inserted(index, Entry(id, p))
    /\ truth' = IF p = Astray THEN truth ELSE {e \in truth : e.id # id} \cup {Entry(id, p)}

Remove(id) ==
    /\ index' = Removed(index, id)
    /\ truth' = {e \in truth : e.id # id}

Clear == index' = Cleared(index) /\ truth' = {}

GridNext ==
    \/ \E id \in Ids, p \in Positions \cup {Astray} : Insert(id, p)
    \/ \E id \in Ids : Remove(id)
    \/ Clear

GridSpec == GridInit /\ [][GridNext]_gridVars

-----------------------------------------------------------------------------
(* The lists hold each entity of S, once, and no other.                    *)
Exactly(found, S) ==
    /\ UNION {BagToSet(found[q]) : q \in DOMAIN found} = S
    /\ \A q, r \in DOMAIN found : \A e \in BagToSet(found[q]) \cap BagToSet(found[r]) :
         q = r /\ found[q][e] = 1

(* However full its cells are, whatever was inserted, moved, removed or    *)
(* cleared, the index answers as an exact map does: every query returns    *)
(* each entity in its range once, with its latest position and no other,   *)
(* whether it walks or scans; so does all_entities (query_radius, insert,  *)
(* remove).                                                                *)
GridIsAMap ==
    /\ Exactly(AllEntities(index), truth)
    /\ \A center \in Positions, radius \in 0..Extent :
         Exactly(Query(index, center, radius), {e \in truth : Within(e, center, radius)})
=============================================================================
