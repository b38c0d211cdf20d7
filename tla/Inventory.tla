------------------------------ MODULE Inventory ------------------------------
(***************************************************************************)
(* The custom inventory of the characters: the inventory-categories routes *)
(* of src/app/routers/characters.py over the tables inventory_categories   *)
(* and inventory_contents.                                                 *)
(*                                                                         *)
(* A request reads in one or more SELECTs, each of which sees the last     *)
(* committed state, and writes in one transaction: other requests commit   *)
(* at every await in between.  Nothing is claimed or locked before the     *)
(* write, which addresses rows by the ids that were read.  SQLite gives a  *)
(* new row the id after the highest one, so that ids are used again, and   *)
(* enforces UNIQUE but not the foreign keys.                               *)
(*                                                                         *)
(* An item's name stands for its name, quantity and notes: what PATCH      *)
(* writes and nothing reads.                                               *)
(***************************************************************************)
EXTENDS Integers, Functions, FiniteSetsExt

CONSTANTS
  Sessions,       \* requests in flight at the same time
  Characters,
  Targets,        \* the characters each session's user may write
  Deleters,       \* the sessions that delete categories
  Names,          \* names of categories
  Things,         \* what an item says
  MaxCategories,  \* bound: highest category id
  MaxItems,       \* bound: highest item id
  MaxOrder        \* bound: highest sort order

ASSUME TargetsAssumption == /\ Targets \in [Sessions -> SUBSET Characters]
                            /\ Deleters \subseteq Sessions
ASSUME BoundAssumption == {MaxCategories, MaxItems, MaxOrder} \subseteq Nat

VARIABLES
  categories,  \* the inventory_categories rows by id
  items,       \* the inventory_contents rows by id
  pc,          \* how far each session's request has come
  view         \* the rows each session has loaded

db == <<categories, items>>
vars == <<categories, items, pc, view>>

Orders == 0 .. MaxOrder
Category == [char : Characters, name : Names, order : Orders]
Item == [category : 1 .. MaxCategories, thing : Things, order : Orders]
Tables(Ids, Row) == UNION {[S -> Row] : S \in SUBSET Ids}

NoRows == [i \in {} |-> 0]
(* categories and items are the identity map, chosen the items a request   *)
(* names besides, and next the sort order of the row it will insert.       *)
EmptyView == [categories |-> NoRows, items |-> NoRows, chosen |-> {},
              char |-> {}, next |-> 0]
View == [categories : Tables(1 .. MaxCategories, Category),
         items : Tables(1 .. MaxItems, Item),
         chosen : SUBSET (1 .. MaxItems),
         char : SUBSET Characters,
         next : Nat]

TypeOK ==
  /\ categories \in Tables(1 .. MaxCategories, Category)
  /\ items \in Tables(1 .. MaxItems, Item)
  /\ pc \in [Sessions -> {"idle", "category", "contents", "item", "items",
                          "new item", "new category", "categories"}]
  /\ view \in [Sessions -> View]

Init == /\ categories = NoRows
        /\ items = NoRows
        /\ pc = [s \in Sessions |-> "idle"]
        /\ view = [s \in Sessions |-> EmptyView]

-----------------------------------------------------------------------------
(* Tables.                                                                 *)

Without(tbl, S) == Restrict(tbl, DOMAIN tbl \ S)
Merged(f, g) == [i \in DOMAIN f \cup DOMAIN g |->
                   IF i \in DOMAIN f THEN f[i] ELSE g[i]]
With(tbl, i, row) == Merged(tbl, [j \in {i} |-> row])

FreshId(tbl) == Max(DOMAIN tbl \cup {0}) + 1

(* Mutant: the number of rows, which is too low after a deletion.          *)
NextOrderCount(tbl, S) == Cardinality(S)

(* next_category_sort_order, next_content_sort_order.                      *)
NextOrder(tbl, S) == IF S = {} THEN 0 ELSE Max({tbl[i].order : i \in S}) + 1

OfCharacter(c) == {k \in DOMAIN categories : categories[k].char = c}
ContentsOf(S) == {i \in DOMAIN items : items[i].category \in S}

UniqueNames(tbl) ==
  \A j, k \in DOMAIN tbl :
    tbl[j].char = tbl[k].char /\ tbl[j].name = tbl[k].name => j = k

(***************************************************************************)
(* The ORM's UPDATE: of every row of new it writes the attributes that     *)
(* differ from the loaded ones.  A row without a difference is left alone, *)
(* and a row that is gone fails the whole request.                         *)
(***************************************************************************)
Flushable(tbl, loaded, new) ==
  {i \in DOMAIN new : new[i] # loaded[i]} \subseteq DOMAIN tbl

Flushed(tbl, loaded, new) ==
  [i \in DOMAIN tbl |->
     IF i \notin DOMAIN new THEN tbl[i]
     ELSE [f \in DOMAIN tbl[i] |-> IF new[i][f] = loaded[i][f]
                                   THEN tbl[i][f] ELSE new[i][f]]]

Reordered(rows, orders) ==
  [i \in DOMAIN orders |-> [rows[i] EXCEPT !.order = orders[i]]]

-----------------------------------------------------------------------------
(* The SELECTs.                                                            *)

Step(s, from, to, read) ==
  /\ pc[s] = from
  /\ pc' = [pc EXCEPT ![s] = to]
  /\ view' = [view EXCEPT ![s] = read]
  /\ UNCHANGED db

Loaded(s) == DOMAIN view[s].categories

(* Mutant: the WHERE does not name the character.                          *)
ReadAnyCategory(s) ==
  \E k \in DOMAIN categories :
    Step(s, "idle", "category",
         [EmptyView EXCEPT !.categories = Restrict(categories, {k})])

(***************************************************************************)
(* get_inventory_category_or_404, with the handler's                       *)
(* require_character_write, and the selectinload of its contents.          *)
(***************************************************************************)
ReadCategory(s) ==
  \E c \in Targets[s], k \in DOMAIN categories :
    /\ categories[k].char = c
    /\ Step(s, "idle", "category",
            [EmptyView EXCEPT !.categories = Restrict(categories, {k})])

ReadContents(s) ==
  Step(s, "category", "contents",
       [view[s] EXCEPT !.items = Restrict(items, ContentsOf(Loaded(s)))])

(* An item that the identity map already holds keeps what was loaded.      *)
Choose(s, S, to) ==
  Step(s, "contents", to,
       [view[s] EXCEPT !.items = Merged(view[s].items, Restrict(items, S)),
                       !.chosen = S])

(* get_inventory_content_or_404.                                           *)
ReadItem(s) == \E i \in ContentsOf(Loaded(s)) : Choose(s, {i}, "item")

(* reorder_inventory_content: every id must be found.                      *)
ReadItems(s) ==
  \E S \in SUBSET ContentsOf(Loaded(s)) \ {{}} : Choose(s, S, "items")

ReadNextItem(s) ==
  Step(s, "contents", "new item",
       [view[s] EXCEPT !.next = NextOrder(items, ContentsOf(Loaded(s)))])

ReadNextCategory(s) ==
  \E c \in Targets[s] :
    Step(s, "idle", "new category",
         [EmptyView EXCEPT !.char = {c},
                           !.next = NextOrder(categories, OfCharacter(c))])

(* reorder_inventory_categories.                                           *)
ReadCategories(s) ==
  \E c \in Targets[s] : \E S \in SUBSET OfCharacter(c) \ {{}} :
    Step(s, "idle", "categories",
         [EmptyView EXCEPT !.categories = Restrict(categories, S)])

-----------------------------------------------------------------------------
(* The write transactions.                                                 *)

Close(s) == /\ pc' = [pc EXCEPT ![s] = "idle"]
            /\ view' = [view EXCEPT ![s] = EmptyView]

(* An error answer, a lost connection or the end of the process.           *)
Fail(s) == pc[s] # "idle" /\ Close(s) /\ UNCHANGED db

CreateCategory(s) ==
  /\ pc[s] = "new category"
  /\ view[s].next \in Orders
  /\ FreshId(categories) <= MaxCategories
  /\ \E c \in view[s].char, n \in Names :
       categories' = With(categories, FreshId(categories),
                          [char |-> c, name |-> n, order |-> view[s].next])
  /\ UniqueNames(categories')
  /\ Close(s)
  /\ UNCHANGED items

(* Mutant: no UNIQUE constraint on the name.                               *)
PatchCategoryAnyName(s) ==
  \E k \in Loaded(s), n \in Names :
    /\ pc[s] = "contents"
    /\ categories' = [categories EXCEPT ![k].name = n]
    /\ Close(s)
    /\ UNCHANGED items

PatchCategory(s) ==
  /\ pc[s] = "contents"
  /\ \E k \in Loaded(s), n \in Names, o \in Orders :
       LET old == view[s].categories
           new == [old EXCEPT ![k].name = n, ![k].order = o]
       IN /\ Flushable(categories, old, new)
          /\ categories' = Flushed(categories, old, new)
  /\ UniqueNames(categories')
  /\ Close(s)
  /\ UNCHANGED items

(* Mutant: the ORM does not cascade.                                       *)
DeleteCategoryOnly(s) ==
  /\ pc[s] = "contents"
  /\ categories' = Without(categories, Loaded(s))
  /\ Close(s)
  /\ UNCHANGED items

(* delete_inventory_category: the ORM deletes the contents it has loaded.  *)
DeleteCategory(s) ==
  /\ s \in Deleters
  /\ pc[s] = "contents"
  /\ categories' = Without(categories, Loaded(s))
  /\ items' = Without(items, DOMAIN view[s].items)
  /\ Close(s)

ReorderCategories(s) ==
  /\ pc[s] = "categories"
  /\ \E orders \in [Loaded(s) -> Orders] :
       LET old == view[s].categories
           new == Reordered(old, orders)
       IN /\ Flushable(categories, old, new)
          /\ categories' = Flushed(categories, old, new)
  /\ Close(s)
  /\ UNCHANGED items

CreateItem(s) ==
  /\ pc[s] = "new item"
  /\ view[s].next \in Orders
  /\ FreshId(items) <= MaxItems
  /\ \E k \in Loaded(s), x \in Things :
       items' = With(items, FreshId(items),
                     [category |-> k, thing |-> x, order |-> view[s].next])
  /\ Close(s)
  /\ UNCHANGED categories

PatchItem(s) ==
  /\ pc[s] = "item"
  /\ \E i \in view[s].chosen, x \in Things, o \in Orders :
       LET old == view[s].items
           new == [old EXCEPT ![i].thing = x, ![i].order = o]
       IN /\ Flushable(items, old, new)
          /\ items' = Flushed(items, old, new)
  /\ Close(s)
  /\ UNCHANGED categories

DeleteItem(s) ==
  /\ pc[s] = "item"
  /\ items' = Without(items, view[s].chosen)
  /\ Close(s)
  /\ UNCHANGED categories

ReorderItems(s) ==
  /\ pc[s] = "items"
  /\ \E orders \in [view[s].chosen -> Orders] :
       LET old == view[s].items
           new == Reordered(old, orders)
       IN /\ Flushable(items, old, new)
          /\ items' = Flushed(items, old, new)
  /\ Close(s)
  /\ UNCHANGED categories

Next == \E s \in Sessions :
          \/ ReadCategory(s) \/ ReadContents(s) \/ ReadItem(s) \/ ReadItems(s)
          \/ ReadNextItem(s) \/ ReadNextCategory(s) \/ ReadCategories(s)
          \/ CreateCategory(s) \/ PatchCategory(s) \/ DeleteCategory(s)
          \/ ReorderCategories(s) \/ CreateItem(s) \/ PatchItem(s)
          \/ DeleteItem(s) \/ ReorderItems(s) \/ Fail(s)

Spec == Init /\ [][Next]_vars

-----------------------------------------------------------------------------
(* Properties.                                                             *)

(* Every item is in a category that exists: deleting a category takes its  *)
(* items along.                                                            *)
NoOrphanItems == \A i \in DOMAIN items : items[i].category \in DOMAIN categories

Belongings(c) ==
  [rows |-> Restrict(categories, OfCharacter(c)),
   contents |-> Restrict(items, ContentsOf(OfCharacter(c)))]

(* A step changes the inventory of at most the characters its session may  *)
(* write, although rows are addressed by ids that are used again.          *)
OwnInventoryOnly ==
  [][\A s \in Sessions : pc'[s] # pc[s] =>
       \A c \in Characters \ Targets[s] : Belongings(c)' = Belongings(c)]_vars

(* What create adds comes after all that it is displayed with.             *)
CreatedLast ==
  [][/\ \A k \in DOMAIN categories' \ DOMAIN categories :
          \A j \in OfCharacter(categories'[k].char) :
            categories[j].order < categories'[k].order
     /\ \A i \in DOMAIN items' \ DOMAIN items :
          \A j \in ContentsOf({items'[i].category}) :
            items[j].order < items'[i].order]_vars
-----------------------------------------------------------------------------
(* What the inventory promises: each character's categories by their       *)
(* names, with the number of every thing they contain.                     *)

CountOf(its, k) ==
  [t \in Things |->
     Cardinality({i \in DOMAIN its : its[i].category = k /\ its[i].thing = t})]

PageOf(cats, its, c) ==
  LET own == {k \in DOMAIN cats : cats[k].char = c}
  IN [n \in {cats[k].name : k \in own} |->
        CountOf(its, CHOOSE k \in own : cats[k].name = n)]

Book == INSTANCE InventoryBook
          WITH book <- [c \in Characters |-> PageOf(categories, items, c)]

(***************************************************************************)
(* Inventory implements InventoryBook: every request that commits has the  *)
(* effect of one change of one category, or none that shows.               *)
(***************************************************************************)
ImplementsBook == Book!BookSpec
=============================================================================
