----------------------------- MODULE XePageTable -----------------------------
(***************************************************************************)
(* XeMemory::PageTable (Mellow/XePageTable.cpp): page tables built in a    *)
(* private pool of table pages.  A virtual address is the sequence of its  *)
(* indices, one per level; an entry is 0, the child table, or at level 0   *)
(* the data page.  The entry encoders are injective, so that decoding an   *)
(* entry gives back what was encoded.  Calls are serialised; pages is the  *)
(* map the caller was told it has.                                         *)
(***************************************************************************)
EXTENDS Integers, FiniteSets, FiniteSetsExt

CONSTANTS
    TopLevel,       \* level of the root (3 in the code)
    EntryCount,     \* entries of a table (512 in the code)
    PoolSize,       \* count_
    DataPages       \* DMA pages of the caller, none of them in the pool

ASSUME TableAssumption == /\ TopLevel \in Nat \ {0} /\ EntryCount \in Nat \ {0}
                          /\ PoolSize \in Nat \ {0}
ASSUME DataAssumption == DataPages \subseteq Nat \ (0 .. PoolSize)

VARIABLES
    tree,       \* pool_ and nodes_: words and level of every table page
    mappings,   \* mappings_
    sealed,     \* sealed_
    pages       \* history: what every address maps to, 0 if nothing

tableVars == <<tree, mappings, sealed, pages>>

Nodes == 1 .. PoolSize
Root == 1
Unused == -1
NoNode == 0
Entries == 0 .. EntryCount - 1
Levels == 0 .. TopLevel
Va == [Levels -> Entries]
EmptyTable == [i \in Entries |-> 0]

\* initialize(): the root is the only table.
TableInit ==
    /\ tree = [words |-> [n \in Nodes |-> EmptyTable],
               level |-> [n \in Nodes |-> IF n = Root THEN TopLevel ELSE Unused]]
    /\ mappings = 0
    /\ sealed = FALSE
    /\ pages = [va \in Va |-> 0]

\* child() returns Ok: the entry is a table in use, one level down.
Linked(t, n, i) ==
    /\ t.words[n][i] \in Nodes
    /\ t.level[t.words[n][i]] # Unused
    /\ t.level[t.words[n][i]] + 1 = t.level[n]

FreeNodes(t) == {n \in Nodes : t.level[n] = Unused}

\* allocate() of a cleared table and its link from entry i of n.
Grown(t, n, i) ==
    LET c == Min(FreeNodes(t))
    IN  [words |-> [t.words EXCEPT ![c] = EmptyTable, ![n][i] = c],
         level |-> [t.level EXCEPT ![c] = t.level[n] - 1]]

\* Faulty variant: only the links are undone, the new tables stay in use.
RollbackLinks(t, edges) ==
    [t EXCEPT !.words = [n \in Nodes |-> [i \in Entries |->
        IF \E e \in edges : e.parent = n /\ e.index = i THEN 0 ELSE t.words[n][i]]]]

\* rollback() of the edges that this call added.
Rollback(t, edges) ==
    LET new == {e.child : e \in edges}
    IN  [words |-> [n \in Nodes |-> [i \in Entries |->
            IF n \in new \/ (\E e \in edges : e.parent = n /\ e.index = i)
            THEN 0 ELSE t.words[n][i]]],
         level |-> [n \in Nodes |-> IF n \in new THEN Unused ELSE t.level[n]]]

\* The descent of map4K() to the leaf table, which grows the tree on its way.
Descent(va) ==
    LET at[l \in Levels] ==
          IF l = TopLevel THEN [t |-> tree, node |-> Root, edges |-> {}]
          ELSE LET d == at[l + 1]
                   i == va[l + 1]
               IN  IF d.node = NoNode THEN d
                   ELSE IF Linked(d.t, d.node, i)
                        THEN [d EXCEPT !.node = d.t.words[d.node][i]]
                   ELSE IF d.t.words[d.node][i] # 0 \/ FreeNodes(d.t) = {}
                        THEN [d EXCEPT !.node = NoNode]
                   ELSE LET grown == Grown(d.t, d.node, i)
                            c == grown.words[d.node][i]
                        IN  [t |-> grown, node |-> c, edges |-> d.edges \cup
                                {[parent |-> d.node, child |-> c, index |-> i]}]
    IN  at[0]

\* map4K(): no table left, or the leaf entry taken, undoes the growth.
Map4K(va, dma) ==
    /\ ~sealed
    /\ LET d == Descent(va)
       IN  IF d.node = NoNode \/ d.t.words[d.node][va[0]] # 0
           THEN /\ tree' = Rollback(d.t, d.edges)
                /\ UNCHANGED <<mappings, pages>>
           ELSE /\ tree' = [d.t EXCEPT !.words[d.node][va[0]] = dma]
                /\ mappings' = mappings + 1
                /\ pages' = [pages EXCEPT ![va] = dma]
    /\ UNCHANGED sealed

\* The tables from the root to the leaf table of an address.
Path(va) ==
    LET at[l \in Levels] ==
          IF l = TopLevel THEN Root
          ELSE IF at[l + 1] # NoNode /\ Linked(tree, at[l + 1], va[l + 1])
               THEN tree.words[at[l + 1]][va[l + 1]] ELSE NoNode
    IN  at

\* lookup(), 0 for NotFound.
LookupPte(va) == IF Path(va)[0] = NoNode THEN 0 ELSE tree.words[Path(va)[0]][va[0]]

\* unmap4K(): the leaf entry goes, then every table that is left empty, up to
\* but not including the root.
Unmap4K(va) ==
    /\ ~sealed
    /\ LookupPte(va) # 0
    /\ LET path == Path(va)
           pruned[l \in Levels] ==
               IF l = 0 THEN [t |-> [tree EXCEPT !.words[path[0]][va[0]] = 0], on |-> TRUE]
               ELSE LET p == pruned[l - 1]
                    IN  IF p.on /\ p.t.words[path[l - 1]] = EmptyTable
                        THEN [t |-> [words |-> [p.t.words EXCEPT ![path[l]][va[l]] = 0],
                                     level |-> [p.t.level EXCEPT ![path[l - 1]] = Unused]],
                              on |-> TRUE]
                        ELSE [p EXCEPT !.on = FALSE]
       IN  tree' = pruned[TopLevel].t
    /\ mappings' = mappings - 1
    /\ pages' = [pages EXCEPT ![va] = 0]
    /\ UNCHANGED sealed

Seal == sealed' = TRUE /\ UNCHANGED <<tree, mappings, pages>>

TableNext ==
    \/ \E va \in Va : Unmap4K(va) \/ \E dma \in DataPages : Map4K(va, dma)
    \/ Seal

-----------------------------------------------------------------------------
\* Walking the tables finds for every address what the caller mapped there
\* and has not unmapped, and the tables in use are those such walks need:
\* a map4K() that runs out of tables after it grew the tree, and an unmap4K()
\* that empties tables, leave no dangling link and lose no table.
TablesAreExact ==
    LET live == {va \in Va : pages[va] # 0}
    IN  /\ \A va \in Va : LookupPte(va) = pages[va]
        /\ Nodes \ FreeNodes(tree) =
              {Root} \cup UNION {{Path(va)[l] : l \in Levels} : va \in live}
        /\ \A n \in FreeNodes(tree) : \A m \in Nodes, i \in Entries :
              tree.level[m] > 0 => tree.words[m][i] # n
        /\ mappings = Cardinality(live)
==============================================================================
