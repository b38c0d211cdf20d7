-------------------------- MODULE InventoryProofs --------------------------
(***************************************************************************)
(* Proofs about Inventory for any number of sessions, characters,          *)
(* categories and items.  What holds however the sessions share characters *)
(* is proved of SharedInv, what needs each to have its own of IInv.        *)
(***************************************************************************)
EXTENDS Inventory, FiniteSetTheorems, WellFoundedInduction, TLAPS

CategoryIds == 1 .. MaxCategories
ItemIds == 1 .. MaxItems
CategoryTable == Tables(CategoryIds, Category)
ItemTable == Tables(ItemIds, Item)

-----------------------------------------------------------------------------
(* Extremes of sets of natural numbers.                                    *)

(* A set of natural numbers that is not empty has a least one.             *)
LEMMA Least ==
  ASSUME NEW T, T \subseteq Nat, T # {}
  PROVE  \E x \in T : \A y \in T : x <= y
<1> DEFINE R == OpToRel(<, Nat)
<1>1. IsWellFoundedOn(R, Nat)
  BY NatLessThanWellFounded
<1>2. \A x, y \in Nat : y < x => <<y, x>> \in R
  BY DEF OpToRel
<1> HIDE DEF R
<1>3. PICK x \in T : \A y \in T : ~(<<y, x>> \in R)
  BY <1>1, WFMin
<1>4. ASSUME NEW y \in T PROVE x <= y
  <2>1. x \in Nat /\ y \in Nat
    OBVIOUS
  <2>2. ~(y < x)
    BY <1>2, <1>3, <2>1
  <2>3. QED
    BY <2>1, <2>2
<1>5. QED
  BY <1>4

(* Bounded, it has a greatest.                                             *)
LEMMA Greatest ==
  ASSUME NEW b \in Nat, NEW T, T \subseteq 0 .. b, T # {}
  PROVE  /\ Max(T) \in T
         /\ \A y \in T : Max(T) >= y
<1> DEFINE U == {b - x : x \in T}
<1>1. \A x \in T : x \in Nat /\ x <= b
  OBVIOUS
<1>2. U \subseteq Nat
  BY <1>1
<1>3. PICK x \in T : TRUE
  OBVIOUS
<1>4. b - x \in U
  OBVIOUS
<1>5. PICK u \in U : \A v \in U : u <= v
  <2> HIDE DEF U
  <2>1. QED
    BY <1>2, <1>4, Least
<1>6. PICK m \in T : u = b - m
  BY <1>5
<1>7. \A y \in T : b - m <= b - y
  BY <1>5, <1>6
<1>8. \A y \in T : m >= y
  BY <1>1, <1>7
<1>9. QED
  BY <1>8 DEF Max

-----------------------------------------------------------------------------
(* Tables.                                                                 *)

LEMMA TableDomain ==
  ASSUME NEW t, NEW Ids, NEW Row
  PROVE  t \in Tables(Ids, Row) <=> DOMAIN t \subseteq Ids /\ t \in [DOMAIN t -> Row]
  BY DEF Tables

LEMMA RestrictTable ==
  ASSUME NEW Ids, NEW Row, NEW t \in Tables(Ids, Row), NEW S, S \subseteq DOMAIN t
  PROVE  /\ Restrict(t, S) \in Tables(Ids, Row)
         /\ DOMAIN Restrict(t, S) = S
         /\ \A i \in S : Restrict(t, S)[i] = t[i]
<1>1. DOMAIN t \subseteq Ids /\ t \in [DOMAIN t -> Row]
  BY TableDomain
<1>2. Restrict(t, S) \in [S -> Row]
  BY <1>1 DEF Restrict
<1>3. S \in SUBSET Ids
  BY <1>1
<1>4. QED
  BY <1>2, <1>3 DEF Restrict, Tables

LEMMA WithoutTable ==
  ASSUME NEW Ids, NEW Row, NEW t \in Tables(Ids, Row), NEW S
  PROVE  /\ Without(t, S) \in Tables(Ids, Row)
         /\ DOMAIN Without(t, S) = DOMAIN t \ S
         /\ \A i \in DOMAIN t \ S : Without(t, S)[i] = t[i]
  BY RestrictTable DEF Without

LEMMA MergedTable ==
  ASSUME NEW Ids, NEW Row, NEW f \in Tables(Ids, Row), NEW g \in Tables(Ids, Row)
  PROVE  /\ Merged(f, g) \in Tables(Ids, Row)
         /\ DOMAIN Merged(f, g) = DOMAIN f \cup DOMAIN g
         /\ \A i \in DOMAIN f : Merged(f, g)[i] = f[i]
         /\ \A i \in DOMAIN g \ DOMAIN f : Merged(f, g)[i] = g[i]
<1> DEFINE m == Merged(f, g)
<1>1. /\ DOMAIN f \subseteq Ids /\ f \in [DOMAIN f -> Row]
      /\ DOMAIN g \subseteq Ids /\ g \in [DOMAIN g -> Row]
  BY TableDomain
<1>2. m = [i \in DOMAIN f \cup DOMAIN g |-> IF i \in DOMAIN f THEN f[i] ELSE g[i]]
  BY DEF Merged
<1> HIDE DEF m
<1>3. /\ DOMAIN m = DOMAIN f \cup DOMAIN g
      /\ \A i \in DOMAIN f : m[i] = f[i]
      /\ \A i \in DOMAIN g \ DOMAIN f : m[i] = g[i]
  BY <1>2
<1>4. m \in [DOMAIN f \cup DOMAIN g -> Row]
  BY <1>1, <1>2
<1>5. m \in Tables(Ids, Row)
  BY <1>1, <1>3, <1>4, TableDomain
<1>6. QED
  BY <1>3, <1>5 DEF m

LEMMA WithTable ==
  ASSUME NEW Ids, NEW Row, NEW t \in Tables(Ids, Row),
         NEW k \in Ids \ DOMAIN t, NEW row \in Row
  PROVE  /\ With(t, k, row) \in Tables(Ids, Row)
         /\ DOMAIN With(t, k, row) = DOMAIN t \cup {k}
         /\ With(t, k, row)[k] = row
         /\ \A i \in DOMAIN t : With(t, k, row)[i] = t[i]
<1> DEFINE g == [j \in {k} |-> row]
<1>1. g \in [{k} -> Row] /\ DOMAIN g = {k} /\ g[k] = row
  OBVIOUS
<1>2. {k} \subseteq Ids
  OBVIOUS
<1> HIDE DEF g
<1>3. g \in Tables(Ids, Row)
  BY <1>1, <1>2, TableDomain
<1>4. With(t, k, row) = Merged(t, g)
  BY DEF With, g
<1>5. QED
  BY <1>1, <1>3, <1>4, MergedTable

(* A new row's id is not in use.                                           *)
LEMMA FreshIsNew ==
  ASSUME NEW b \in Nat, NEW t, DOMAIN t \subseteq 1 .. b
  PROVE  FreshId(t) \in Nat \ {0} /\ FreshId(t) \notin DOMAIN t
<1> DEFINE T == DOMAIN t \cup {0}
           m == Max(T)
<1>1. T \subseteq 0 .. b /\ 0 \in T
  OBVIOUS
<1>2. m \in T /\ \A y \in T : m >= y
  BY <1>1, Greatest
<1>3. FreshId(t) = m + 1
  BY DEF FreshId
<1> HIDE DEF m
<1>4. m \in Nat /\ (\A y \in DOMAIN t : y \in Nat /\ m >= y) /\ FreshId(t) = m + 1
  BY <1>1, <1>2, <1>3
<1>5. QED
  BY <1>4

(* The next sort order is after all the others.                            *)
LEMMA NextIsLast ==
  ASSUME NEW t, NEW S, \A i \in S : t[i].order \in Orders
  PROVE  /\ NextOrder(t, S) \in Nat
         /\ \A i \in S : t[i].order < NextOrder(t, S)
<1> DEFINE O == {t[i].order : i \in S}
           m == Max(O)
<1>1. O \subseteq 0 .. MaxOrder /\ MaxOrder \in Nat
  BY BoundAssumption DEF Orders
<1>2. CASE S = {}
  BY <1>2 DEF NextOrder
<1>3. CASE S # {}
  <2>1. PICK i \in S : TRUE
    BY <1>3
  <2>2. t[i].order \in O
    OBVIOUS
  <2>3. m \in O /\ \A y \in O : m >= y
    <3> HIDE DEF O
    <3>1. QED
      BY <1>1, <2>2, Greatest
  <2>4. NextOrder(t, S) = m + 1
    BY <1>3 DEF NextOrder
  <2> HIDE DEF m
  <2>5. m \in Nat /\ \A j \in S : t[j].order \in Nat /\ m >= t[j].order
    BY <1>1, <2>3
  <2>6. QED
    BY <2>4, <2>5
<1>4. QED
  BY <1>2, <1>3

(* The ORM's UPDATE leaves the rows and what they belong to.               *)
LEMMA FlushedCategories ==
  ASSUME NEW t \in CategoryTable, NEW old, NEW new,
         \A k \in DOMAIN new : new[k] \in Category /\ new[k].char = old[k].char
  PROVE  /\ Flushed(t, old, new) \in CategoryTable
         /\ DOMAIN Flushed(t, old, new) = DOMAIN t
         /\ \A k \in DOMAIN t : Flushed(t, old, new)[k].char = t[k].char
         /\ \A k \in DOMAIN t \ DOMAIN new : Flushed(t, old, new)[k] = t[k]
         /\ \A k \in DOMAIN t \cap DOMAIN new :
              new[k].name = old[k].name => Flushed(t, old, new)[k].name = t[k].name
<1> DEFINE u == Flushed(t, old, new)
           row(k) == [f \in DOMAIN t[k] |->
                        IF new[k][f] = old[k][f] THEN t[k][f] ELSE new[k][f]]
<1>1. DOMAIN t \subseteq CategoryIds /\ \A k \in DOMAIN t : t[k] \in Category
  BY TableDomain DEF CategoryTable
<1>2. u = [k \in DOMAIN t |-> IF k \notin DOMAIN new THEN t[k] ELSE row(k)]
  BY DEF Flushed
<1>3. ASSUME NEW k \in DOMAIN t, k \in DOMAIN new
      PROVE  /\ row(k) \in Category /\ row(k).char = t[k].char
             /\ new[k].name = old[k].name => row(k).name = t[k].name
  <2>1. t[k] \in Category /\ new[k] \in Category
    BY <1>1, <1>3
  <2>2. DOMAIN t[k] = {"char", "name", "order"}
    BY <2>1 DEF Category
  <2>3. row(k) = [char |-> row(k).char, name |-> row(k).name, order |-> row(k).order]
    BY <2>2
  <2>4. row(k).char = t[k].char
    BY <1>3, <2>2
  <2>5. /\ row(k).name = t[k].name \/ row(k).name = new[k].name
        /\ new[k].name = old[k].name => row(k).name = t[k].name
        /\ row(k).order = t[k].order \/ row(k).order = new[k].order
    BY <2>2
  <2> HIDE DEF row
  <2>6. row(k).char \in Characters /\ row(k).name \in Names /\ row(k).order \in Orders
    BY <2>1, <2>4, <2>5 DEF Category
  <2>7. QED
    BY <2>3, <2>4, <2>5, <2>6 DEF Category
<1> HIDE DEF row, u
<1>4. DOMAIN u = DOMAIN t
  BY <1>2
<1>5. \A k \in DOMAIN t :
        /\ u[k] \in Category /\ u[k].char = t[k].char
        /\ k \notin DOMAIN new => u[k] = t[k]
        /\ k \in DOMAIN new /\ new[k].name = old[k].name => u[k].name = t[k].name
  BY <1>1, <1>2, <1>3
<1>6. u \in [DOMAIN u -> Category]
  BY <1>2, <1>4, <1>5
<1>7. u \in CategoryTable
  BY <1>1, <1>4, <1>6, TableDomain DEF CategoryTable
<1>8. QED
  BY <1>4, <1>5, <1>7 DEF u

LEMMA FlushedItems ==
  ASSUME NEW t \in ItemTable, NEW old, NEW new,
         \A i \in DOMAIN new : new[i] \in Item /\ new[i].category = old[i].category
  PROVE  /\ Flushed(t, old, new) \in ItemTable
         /\ DOMAIN Flushed(t, old, new) = DOMAIN t
         /\ \A i \in DOMAIN t : Flushed(t, old, new)[i].category = t[i].category
         /\ \A i \in DOMAIN t \ DOMAIN new : Flushed(t, old, new)[i] = t[i]
         /\ \A i \in DOMAIN t \cap DOMAIN new :
              new[i].thing = old[i].thing => Flushed(t, old, new)[i].thing = t[i].thing
<1> DEFINE u == Flushed(t, old, new)
           row(i) == [f \in DOMAIN t[i] |->
                        IF new[i][f] = old[i][f] THEN t[i][f] ELSE new[i][f]]
<1>1. DOMAIN t \subseteq ItemIds /\ \A i \in DOMAIN t : t[i] \in Item
  BY TableDomain DEF ItemTable
<1>2. u = [i \in DOMAIN t |-> IF i \notin DOMAIN new THEN t[i] ELSE row(i)]
  BY DEF Flushed
<1>3. ASSUME NEW i \in DOMAIN t, i \in DOMAIN new
      PROVE  /\ row(i) \in Item /\ row(i).category = t[i].category
             /\ new[i].thing = old[i].thing => row(i).thing = t[i].thing
  <2>1. t[i] \in Item /\ new[i] \in Item
    BY <1>1, <1>3
  <2>2. DOMAIN t[i] = {"category", "thing", "order"}
    BY <2>1 DEF Item
  <2>3. row(i) = [category |-> row(i).category, thing |-> row(i).thing,
                  order |-> row(i).order]
    BY <2>2
  <2>4. row(i).category = t[i].category
    BY <1>3, <2>2
  <2>5. /\ row(i).thing = t[i].thing \/ row(i).thing = new[i].thing
        /\ new[i].thing = old[i].thing => row(i).thing = t[i].thing
        /\ row(i).order = t[i].order \/ row(i).order = new[i].order
    BY <2>2
  <2> HIDE DEF row
  <2>6. /\ row(i).category \in 1 .. MaxCategories
        /\ row(i).thing \in Things /\ row(i).order \in Orders
    BY <2>1, <2>4, <2>5 DEF Item
  <2>7. QED
    BY <2>3, <2>4, <2>5, <2>6 DEF Item
<1> HIDE DEF row, u
<1>4. DOMAIN u = DOMAIN t
  BY <1>2
<1>5. \A i \in DOMAIN t :
        /\ u[i] \in Item /\ u[i].category = t[i].category
        /\ i \notin DOMAIN new => u[i] = t[i]
        /\ i \in DOMAIN new /\ new[i].thing = old[i].thing => u[i].thing = t[i].thing
  BY <1>1, <1>2, <1>3
<1>6. u \in [DOMAIN u -> Item]
  BY <1>2, <1>4, <1>5
<1>7. u \in ItemTable
  BY <1>1, <1>4, <1>6, TableDomain DEF ItemTable
<1>8. QED
  BY <1>4, <1>5, <1>7 DEF u

-----------------------------------------------------------------------------
(* What the writes do to the rows, whatever other sessions do.             *)

(* What a write needs of its own view.                                     *)
Typed(s) == TypeOK /\ view[s].chosen \subseteq DOMAIN view[s].items

(* Only the categories of S may get another name, of those loaded.         *)
CategoriesEdited(s, S) ==
  /\ categories' \in CategoryTable
  /\ DOMAIN categories' = DOMAIN categories
  /\ \A k \in DOMAIN categories :
       /\ categories'[k].char = categories[k].char
       /\ k \notin Loaded(s) => categories'[k] = categories[k]
       /\ k \notin S => categories'[k].name = categories[k].name
  /\ S = {} \/ UniqueNames(categories')
  /\ items' = items

ItemsEdited(s, S) ==
  /\ items' \in ItemTable
  /\ DOMAIN items' = DOMAIN items
  /\ \A i \in DOMAIN items :
       /\ items'[i].category = items[i].category
       /\ i \notin DOMAIN view[s].items => items'[i] = items[i]
       /\ i \notin S => items'[i].thing = items[i].thing
  /\ categories' = categories

CategoryAdded(s, k) ==
  /\ pc[s] = "new category"
  /\ k \notin DOMAIN categories
  /\ categories' \in CategoryTable
  /\ DOMAIN categories' = DOMAIN categories \cup {k}
  /\ \A j \in DOMAIN categories : categories'[j] = categories[j]
  /\ categories'[k].char \in view[s].char
  /\ categories'[k].order = view[s].next
  /\ UniqueNames(categories')
  /\ items' = items

ItemAdded(s, i) ==
  /\ pc[s] = "new item"
  /\ i \notin DOMAIN items
  /\ items' \in ItemTable
  /\ DOMAIN items' = DOMAIN items \cup {i}
  /\ \A j \in DOMAIN items : items'[j] = items[j]
  /\ items'[i].category \in Loaded(s)
  /\ items'[i].order = view[s].next
  /\ categories' = categories

ItemsRemoved(S) ==
  /\ items' \in ItemTable
  /\ DOMAIN items' = DOMAIN items \ S
  /\ \A i \in DOMAIN items' : items'[i] = items[i]

CategoriesRemoved(S) ==
  /\ categories' \in CategoryTable
  /\ DOMAIN categories' = DOMAIN categories \ S
  /\ \A k \in DOMAIN categories' : categories'[k] = categories[k]

Effect(s) ==
  /\ pc[s] # "idle"
  /\ Close(s)
  /\ \/ CategoriesEdited(s, {})
     \/ \E k \in Loaded(s) : pc[s] = "contents" /\ CategoriesEdited(s, {k})
     \/ ItemsEdited(s, {})
     \/ \E i \in view[s].chosen : pc[s] = "item" /\ ItemsEdited(s, {i})
     \/ \E k \in CategoryIds : CategoryAdded(s, k)
     \/ \E i \in ItemIds : ItemAdded(s, i)
     \/ /\ pc[s] = "item"
        /\ ItemsRemoved(view[s].chosen)
        /\ categories' = categories
     \/ /\ s \in Deleters
        /\ pc[s] = "contents"
        /\ CategoriesRemoved(Loaded(s))
        /\ ItemsRemoved(DOMAIN view[s].items)
     \/ UNCHANGED db

LEMMA TypedTables ==
  ASSUME TypeOK
  PROVE  /\ categories \in CategoryTable /\ items \in ItemTable
         /\ DOMAIN categories \subseteq CategoryIds /\ DOMAIN items \subseteq ItemIds
         /\ \A k \in DOMAIN categories : categories[k] \in Category
         /\ \A i \in DOMAIN items : items[i] \in Item
<1>1. categories \in CategoryTable /\ items \in ItemTable
  BY DEF TypeOK, CategoryTable, ItemTable, CategoryIds, ItemIds
<1>2. QED
  BY <1>1, TableDomain DEF CategoryTable, ItemTable

LEMMA TypedViews ==
  ASSUME TypeOK, NEW s \in Sessions
  PROVE  /\ view[s] \in View
         /\ view[s].categories \in CategoryTable /\ view[s].items \in ItemTable
         /\ \A k \in Loaded(s) : view[s].categories[k] \in Category
         /\ \A i \in DOMAIN view[s].items : view[s].items[i] \in Item
         /\ Loaded(s) \subseteq CategoryIds
<1>1. view[s] \in View
  BY DEF TypeOK
<1>2. view[s].categories \in CategoryTable /\ view[s].items \in ItemTable
  BY <1>1 DEF View, CategoryTable, ItemTable, CategoryIds, ItemIds
<1>3. QED
  BY <1>1, <1>2, TableDomain DEF CategoryTable, ItemTable, Loaded

LEMMA PatchCategoryEffect ==
  ASSUME NEW s \in Sessions, Typed(s), PatchCategory(s)
  PROVE  Effect(s)
<1> DEFINE old == view[s].categories
<1>1. PICK k \in Loaded(s), n \in Names, o \in Orders :
        categories' = Flushed(categories, old, [old EXCEPT ![k].name = n, ![k].order = o])
  BY DEF PatchCategory
<1> DEFINE new == [old EXCEPT ![k].name = n, ![k].order = o]
<1>2. \A j \in DOMAIN old : old[j] \in Category
  BY TypedViews DEF Loaded, Typed
<1>3. DOMAIN new = DOMAIN old /\ \A j \in DOMAIN old \ {k} : new[j] = old[j]
  OBVIOUS
<1>4. new[k] = [char |-> old[k].char, name |-> n, order |-> o]
      /\ old[k].char \in Characters
  BY <1>2 DEF Category, Loaded
<1>5. categories' = Flushed(categories, old, new)
  BY <1>1
<1>6. items' = items /\ Close(s) /\ pc[s] = "contents" /\ UniqueNames(categories')
  BY DEF PatchCategory
<1> HIDE DEF new
<1>7. \A j \in DOMAIN new : new[j] \in Category /\ new[j].char = old[j].char
  BY <1>2, <1>3, <1>4 DEF Category
<1>8. /\ categories' \in CategoryTable
      /\ DOMAIN categories' = DOMAIN categories
      /\ \A j \in DOMAIN categories : categories'[j].char = categories[j].char
      /\ \A j \in DOMAIN categories \ DOMAIN new : categories'[j] = categories[j]
      /\ \A j \in DOMAIN categories \cap DOMAIN new :
           new[j].name = old[j].name => categories'[j].name = categories[j].name
  <2>1. categories \in CategoryTable
    BY TypedTables DEF Typed
  <2> HIDE DEF old
  <2>2. QED
    BY <1>5, <1>7, <2>1, FlushedCategories
<1>9. CategoriesEdited(s, {k})
  BY <1>3, <1>6, <1>8 DEF CategoriesEdited, Loaded
<1>10. QED
  BY <1>6, <1>9 DEF Effect

LEMMA ReorderCategoriesEffect ==
  ASSUME NEW s \in Sessions, Typed(s), ReorderCategories(s)
  PROVE  Effect(s)
<1> DEFINE old == view[s].categories
<1>1. PICK orders \in [Loaded(s) -> Orders] :
        categories' = Flushed(categories, old, Reordered(old, orders))
  BY DEF ReorderCategories
<1> DEFINE new == Reordered(old, orders)
<1>2. \A j \in DOMAIN old : old[j] \in Category
  BY TypedViews DEF Loaded, Typed
<1>3. DOMAIN new = DOMAIN old
      /\ \A j \in DOMAIN old : new[j] = [old[j] EXCEPT !.order = orders[j]]
  BY DEF Reordered, Loaded
<1>4. categories' = Flushed(categories, old, new)
  BY <1>1
<1>5. items' = items /\ Close(s) /\ pc[s] # "idle"
  BY DEF ReorderCategories
<1> HIDE DEF new
<1>6. \A j \in DOMAIN new : /\ new[j] \in Category /\ new[j].char = old[j].char
                            /\ new[j].name = old[j].name
  <2>1. SUFFICES ASSUME NEW j \in DOMAIN old
                 PROVE  /\ new[j] \in Category /\ new[j].char = old[j].char
                        /\ new[j].name = old[j].name
    BY <1>3
  <2>2. old[j] \in Category /\ orders[j] \in Orders
    BY <1>2 DEF Loaded
  <2>3. new[j] = [old[j] EXCEPT !.order = orders[j]]
    BY <1>3
  <2>4. QED
    BY <2>2, <2>3 DEF Category
<1>7. /\ categories' \in CategoryTable
      /\ DOMAIN categories' = DOMAIN categories
      /\ \A j \in DOMAIN categories : categories'[j].char = categories[j].char
      /\ \A j \in DOMAIN categories \ DOMAIN new : categories'[j] = categories[j]
      /\ \A j \in DOMAIN categories \cap DOMAIN new :
           new[j].name = old[j].name => categories'[j].name = categories[j].name
  <2>1. categories \in CategoryTable
    BY TypedTables DEF Typed
  <2> HIDE DEF old
  <2>2. QED
    BY <1>4, <1>6, <2>1, FlushedCategories
<1>8. CategoriesEdited(s, {})
  BY <1>3, <1>5, <1>6, <1>7 DEF CategoriesEdited, Loaded
<1>9. QED
  BY <1>5, <1>8 DEF Effect

LEMMA PatchItemEffect ==
  ASSUME NEW s \in Sessions, Typed(s), PatchItem(s)
  PROVE  Effect(s)
<1> DEFINE old == view[s].items
<1>1. PICK k \in view[s].chosen, x \in Things, o \in Orders :
        items' = Flushed(items, old, [old EXCEPT ![k].thing = x, ![k].order = o])
  BY DEF PatchItem
<1> DEFINE new == [old EXCEPT ![k].thing = x, ![k].order = o]
<1>2. \A j \in DOMAIN old : old[j] \in Item
  BY TypedViews DEF Typed
<1>3. k \in DOMAIN old
  BY DEF Typed
<1>4. DOMAIN new = DOMAIN old /\ \A j \in DOMAIN old \ {k} : new[j] = old[j]
  OBVIOUS
<1>5. new[k] = [category |-> old[k].category, thing |-> x, order |-> o]
      /\ old[k].category \in 1 .. MaxCategories
  BY <1>2, <1>3 DEF Item
<1>6. items' = Flushed(items, old, new)
  BY <1>1
<1>7. categories' = categories /\ Close(s) /\ pc[s] = "item"
  BY DEF PatchItem
<1> HIDE DEF new
<1>8. \A j \in DOMAIN new : new[j] \in Item /\ new[j].category = old[j].category
  BY <1>2, <1>4, <1>5 DEF Item
<1>9. /\ items' \in ItemTable
      /\ DOMAIN items' = DOMAIN items
      /\ \A j \in DOMAIN items : items'[j].category = items[j].category
      /\ \A j \in DOMAIN items \ DOMAIN new : items'[j] = items[j]
      /\ \A j \in DOMAIN items \cap DOMAIN new :
           new[j].thing = old[j].thing => items'[j].thing = items[j].thing
  <2>1. items \in ItemTable
    BY TypedTables DEF Typed
  <2> HIDE DEF old
  <2>2. QED
    BY <1>6, <1>8, <2>1, FlushedItems
<1>10. ItemsEdited(s, {k})
  BY <1>4, <1>7, <1>9 DEF ItemsEdited
<1>11. QED
  BY <1>7, <1>10 DEF Effect

LEMMA ReorderItemsEffect ==
  ASSUME NEW s \in Sessions, Typed(s), ReorderItems(s)
  PROVE  Effect(s)
<1> DEFINE old == view[s].items
<1>1. PICK orders \in [view[s].chosen -> Orders] :
        items' = Flushed(items, old, Reordered(old, orders))
  BY DEF ReorderItems
<1> DEFINE new == Reordered(old, orders)
<1>2. \A j \in DOMAIN old : old[j] \in Item
  BY TypedViews DEF Typed
<1>3. view[s].chosen \subseteq DOMAIN old
  BY DEF Typed
<1>4. DOMAIN new = view[s].chosen
      /\ \A j \in view[s].chosen : new[j] = [old[j] EXCEPT !.order = orders[j]]
  BY DEF Reordered
<1>5. items' = Flushed(items, old, new)
  BY <1>1
<1>6. categories' = categories /\ Close(s) /\ pc[s] # "idle"
  BY DEF ReorderItems
<1> HIDE DEF new
<1>7. \A j \in DOMAIN new : /\ new[j] \in Item /\ new[j].category = old[j].category
                            /\ new[j].thing = old[j].thing
  <2>1. SUFFICES ASSUME NEW j \in view[s].chosen
                 PROVE  /\ new[j] \in Item /\ new[j].category = old[j].category
                        /\ new[j].thing = old[j].thing
    BY <1>4
  <2>2. old[j] \in Item /\ orders[j] \in Orders
    BY <1>2, <1>3
  <2>3. new[j] = [old[j] EXCEPT !.order = orders[j]]
    BY <1>4
  <2>4. QED
    BY <2>2, <2>3 DEF Item
<1>8. /\ items' \in ItemTable
      /\ DOMAIN items' = DOMAIN items
      /\ \A j \in DOMAIN items : items'[j].category = items[j].category
      /\ \A j \in DOMAIN items \ DOMAIN new : items'[j] = items[j]
      /\ \A j \in DOMAIN items \cap DOMAIN new :
           new[j].thing = old[j].thing => items'[j].thing = items[j].thing
  <2>1. items \in ItemTable
    BY TypedTables DEF Typed
  <2> HIDE DEF old
  <2>2. QED
    BY <1>5, <1>7, <2>1, FlushedItems
<1>9. ItemsEdited(s, {})
  BY <1>3, <1>4, <1>6, <1>7, <1>8 DEF ItemsEdited
<1>10. QED
  BY <1>6, <1>9 DEF Effect

LEMMA CreateCategoryEffect ==
  ASSUME NEW s \in Sessions, Typed(s), CreateCategory(s)
  PROVE  Effect(s)
<1>0. PICK k : k = FreshId(categories)
  OBVIOUS
<1>1. PICK c \in view[s].char, n \in Names :
        categories' = With(categories, k, [char |-> c, name |-> n, order |-> view[s].next])
  BY <1>0 DEF CreateCategory
<1> DEFINE row == [char |-> c, name |-> n, order |-> view[s].next]
<1>2. c \in Characters
  BY DEF Typed, TypeOK, View
<1>3. view[s].next \in Orders /\ pc[s] = "new category" /\ items' = items /\ Close(s)
      /\ UniqueNames(categories') /\ k <= MaxCategories
  BY <1>0 DEF CreateCategory
<1>4. row \in Category /\ row.char = c /\ row.order = view[s].next
  BY <1>2, <1>3 DEF Category
<1>5. k \in CategoryIds \ DOMAIN categories
  <2>1. MaxCategories \in Nat /\ DOMAIN categories \subseteq 1 .. MaxCategories
    BY TypedTables, BoundAssumption DEF CategoryIds, Typed
  <2>2. k \in Nat \ {0} /\ k \notin DOMAIN categories
    BY <1>0, <2>1, FreshIsNew
  <2>3. k <= MaxCategories
    BY <1>3
  <2>4. k \in 1 .. MaxCategories
    BY <2>1, <2>2, <2>3
  <2>5. QED
    BY <2>2, <2>4 DEF CategoryIds
<1> HIDE DEF row
<1>6. categories' = With(categories, k, row)
  BY <1>1 DEF row
<1>7. /\ categories' \in CategoryTable
      /\ DOMAIN categories' = DOMAIN categories \cup {k}
      /\ categories'[k] = row
      /\ \A j \in DOMAIN categories : categories'[j] = categories[j]
  BY <1>4, <1>5, <1>6, TypedTables, WithTable DEF CategoryTable, Typed
<1>8. CategoryAdded(s, k)
  BY <1>3, <1>4, <1>5, <1>7 DEF CategoryAdded
<1>9. QED
  BY <1>3, <1>5, <1>8 DEF Effect

LEMMA CreateItemEffect ==
  ASSUME NEW s \in Sessions, Typed(s), CreateItem(s)
  PROVE  Effect(s)
<1>0. PICK i : i = FreshId(items)
  OBVIOUS
<1>1. PICK k \in Loaded(s), x \in Things :
        items' = With(items, i, [category |-> k, thing |-> x, order |-> view[s].next])
  BY <1>0 DEF CreateItem
<1> DEFINE row == [category |-> k, thing |-> x, order |-> view[s].next]
<1>2. k \in CategoryIds
  BY TypedViews DEF Typed
<1>3. view[s].next \in Orders /\ pc[s] = "new item" /\ categories' = categories
      /\ Close(s) /\ i <= MaxItems
  BY <1>0 DEF CreateItem
<1>4. row \in Item /\ row.category = k /\ row.order = view[s].next
  BY <1>2, <1>3 DEF Item, CategoryIds
<1>5. i \in ItemIds \ DOMAIN items
  <2>1. MaxItems \in Nat /\ DOMAIN items \subseteq 1 .. MaxItems
    BY TypedTables, BoundAssumption DEF ItemIds, Typed
  <2>2. i \in Nat \ {0} /\ i \notin DOMAIN items
    BY <1>0, <2>1, FreshIsNew
  <2>3. i <= MaxItems
    BY <1>3
  <2>4. i \in 1 .. MaxItems
    BY <2>1, <2>2, <2>3
  <2>5. QED
    BY <2>2, <2>4 DEF ItemIds
<1> HIDE DEF row
<1>6. items' = With(items, i, row)
  BY <1>1 DEF row
<1>7. /\ items' \in ItemTable
      /\ DOMAIN items' = DOMAIN items \cup {i}
      /\ items'[i] = row
      /\ \A j \in DOMAIN items : items'[j] = items[j]
  BY <1>4, <1>5, <1>6, TypedTables, WithTable DEF ItemTable, Typed
<1>8. ItemAdded(s, i)
  BY <1>3, <1>4, <1>5, <1>7 DEF ItemAdded
<1>9. QED
  BY <1>3, <1>5, <1>8 DEF Effect

LEMMA ItemsWithout ==
  ASSUME TypeOK, NEW S, items' = Without(items, S)
  PROVE  ItemsRemoved(S)
<1>1. items \in Tables(ItemIds, Item)
  BY TypedTables DEF ItemTable
<1>2. /\ Without(items, S) \in Tables(ItemIds, Item)
      /\ DOMAIN Without(items, S) = DOMAIN items \ S
      /\ \A i \in DOMAIN items \ S : Without(items, S)[i] = items[i]
  BY ONLY <1>1, WithoutTable
<1>3. QED
  BY <1>2 DEF ItemsRemoved, ItemTable

LEMMA CategoriesWithout ==
  ASSUME TypeOK, NEW S, categories' = Without(categories, S)
  PROVE  CategoriesRemoved(S)
<1>1. categories \in Tables(CategoryIds, Category)
  BY TypedTables DEF CategoryTable
<1>2. /\ Without(categories, S) \in Tables(CategoryIds, Category)
      /\ DOMAIN Without(categories, S) = DOMAIN categories \ S
      /\ \A k \in DOMAIN categories \ S : Without(categories, S)[k] = categories[k]
  BY ONLY <1>1, WithoutTable
<1>3. QED
  BY <1>2 DEF CategoriesRemoved, CategoryTable

(* The steps that write on behalf of a session.                            *)
Write(s) == \/ CreateCategory(s) \/ PatchCategory(s) \/ DeleteCategory(s)
            \/ ReorderCategories(s) \/ CreateItem(s) \/ PatchItem(s)
            \/ DeleteItem(s) \/ ReorderItems(s) \/ Fail(s)

LEMMA WriteEffect ==
  ASSUME NEW s \in Sessions, Typed(s), Write(s)
  PROVE  Effect(s)
<1>1. CASE DeleteItem(s)
  <2>1. items' = Without(items, view[s].chosen) /\ categories' = categories
        /\ pc[s] = "item" /\ Close(s)
    BY <1>1 DEF DeleteItem
  <2>2. PICK S : S = view[s].chosen
    OBVIOUS
  <2>3. ItemsRemoved(S)
    BY <2>1, <2>2, ItemsWithout DEF Typed
  <2>4. QED
    BY <2>1, <2>2, <2>3 DEF Effect
<1>2. CASE DeleteCategory(s)
  <2>1. /\ categories' = Without(categories, Loaded(s))
        /\ items' = Without(items, DOMAIN view[s].items)
        /\ s \in Deleters /\ pc[s] = "contents" /\ Close(s)
    BY <1>2 DEF DeleteCategory
  <2>2. PICK S, T : S = Loaded(s) /\ T = DOMAIN view[s].items
    OBVIOUS
  <2>3. CategoriesRemoved(S) /\ ItemsRemoved(T)
    BY <2>1, <2>2, ItemsWithout, CategoriesWithout DEF Typed
  <2>4. QED
    BY <2>1, <2>2, <2>3 DEF Effect
<1>3. CASE Fail(s)
  BY <1>3 DEF Fail, Effect
<1>4. QED
  BY <1>1, <1>2, <1>3, CreateCategoryEffect, PatchCategoryEffect,
     ReorderCategoriesEffect, CreateItemEffect, PatchItemEffect,
     ReorderItemsEffect DEF Write

-----------------------------------------------------------------------------
(* The invariant for characters with one writer each.                      *)

(* No character is written by two sessions: each has its own player.       *)
OneWriter ==
  \A r, s \in Sessions : r # s => Targets[r] \cap Targets[s] = {}

(* The categories a session may write.                                     *)
Reach(s) == {k \in DOMAIN categories : categories[k].char \in Targets[s]}
Beyond(s) == DOMAIN categories \ Reach(s)

(* What a request has read is still there when it writes, and no more.     *)
Holds(s) ==
  /\ Loaded(s) \subseteq Reach(s)
  /\ view[s].char \subseteq Targets[s]
  /\ view[s].chosen \subseteq DOMAIN view[s].items
  /\ DOMAIN view[s].items \subseteq ContentsOf(Loaded(s))
  /\ pc[s] = "contents" => DOMAIN view[s].items = ContentsOf(Loaded(s))
  /\ pc[s] = "new item" =>
       \A i \in ContentsOf(Loaded(s)) : items[i].order < view[s].next
  /\ pc[s] = "new category" =>
       \A c \in view[s].char : \A k \in OfCharacter(c) :
         categories[k].order < view[s].next

IInv == TypeOK /\ NoOrphanItems /\ \A s \in Sessions : Holds(s)

(* A write of s leaves alone what is beyond its reach.                     *)
Confined(s) ==
  /\ categories' \in CategoryTable /\ items' \in ItemTable
  /\ \A k \in Beyond(s) : k \in DOMAIN categories' /\ categories'[k] = categories[k]
  /\ \A k \in DOMAIN categories' :
       categories'[k].char \notin Targets[s] => k \in Beyond(s)
  /\ \A i \in DOMAIN items : items[i].category \in Beyond(s) =>
       i \in DOMAIN items' /\ items'[i] = items[i]
  /\ \A i \in DOMAIN items' : items'[i].category \in Beyond(s) =>
       i \in DOMAIN items /\ items'[i] = items[i]

Written(s) ==
  /\ pc[s] # "idle"
  /\ Confined(s)
  /\ NoOrphanItems'
  /\ Close(s)

LEMMA Elsewhere ==
  ASSUME NEW s \in Sessions, Confined(s), NEW c, c \notin Targets[s]
  PROVE  OfCharacter(c)' = OfCharacter(c)
<1>1. OfCharacter(c) \subseteq Beyond(s)
  BY DEF OfCharacter, Beyond, Reach
<1>2. QED
  BY <1>1 DEF Confined, OfCharacter, Beyond, Reach

(* What is written is within reach, for what was loaded is still there;    *)
(* the items of a deleted category are those that were loaded.             *)
LEMMA WriteWritten ==
  ASSUME IInv, NEW s \in Sessions, Write(s)
  PROVE  Written(s)
<1>1. Typed(s) /\ Holds(s) /\ NoOrphanItems /\ TypeOK
  BY DEF IInv, Holds, Typed
<1>2. Effect(s)
  BY <1>1, WriteEffect
<1>3. Close(s) /\ pc[s] # "idle"
  BY <1>2 DEF Effect
<1>4. /\ categories \in CategoryTable /\ items \in ItemTable
      /\ Loaded(s) \subseteq Reach(s)
      /\ \A i \in DOMAIN view[s].items :
           i \in DOMAIN items /\ items[i].category \in Loaded(s)
      /\ view[s].chosen \subseteq DOMAIN view[s].items
  BY <1>1, TypedTables DEF Holds, ContentsOf
<1>5. ASSUME NEW S, CategoriesEdited(s, S) PROVE Written(s)
  <2>1. Confined(s)
    BY <1>4, <1>5 DEF CategoriesEdited, Confined, Beyond, Reach
  <2>2. NoOrphanItems'
    BY <1>1, <1>5 DEF CategoriesEdited, NoOrphanItems
  <2>3. QED
    BY <1>3, <2>1, <2>2 DEF Written
<1>6. ASSUME NEW S, ItemsEdited(s, S) PROVE Written(s)
  <2>1. Confined(s)
    BY <1>4, <1>6 DEF ItemsEdited, Confined, Beyond, Reach
  <2>2. NoOrphanItems'
    BY <1>1, <1>6 DEF ItemsEdited, NoOrphanItems
  <2>3. QED
    BY <1>3, <2>1, <2>2 DEF Written
<1>7. ASSUME NEW k \in CategoryIds, CategoryAdded(s, k) PROVE Written(s)
  <2>1. Confined(s)
    BY <1>1, <1>4, <1>7 DEF CategoryAdded, Confined, Beyond, Reach, Holds
  <2>2. NoOrphanItems'
    BY <1>1, <1>7 DEF CategoryAdded, NoOrphanItems
  <2>3. QED
    BY <1>3, <2>1, <2>2 DEF Written
<1>8. ASSUME NEW i \in ItemIds, ItemAdded(s, i) PROVE Written(s)
  <2>1. Confined(s)
    BY <1>4, <1>8 DEF ItemAdded, Confined, Beyond, Reach
  <2>2. NoOrphanItems'
    BY <1>1, <1>4, <1>8 DEF ItemAdded, NoOrphanItems, Reach
  <2>3. QED
    BY <1>3, <2>1, <2>2 DEF Written
<1>9. ASSUME ItemsRemoved(view[s].chosen), categories' = categories
      PROVE  Written(s)
  <2>1. Confined(s)
    BY <1>4, <1>9 DEF ItemsRemoved, Confined, Beyond, Reach
  <2>2. NoOrphanItems'
    BY <1>1, <1>9 DEF ItemsRemoved, NoOrphanItems
  <2>3. QED
    BY <1>3, <2>1, <2>2 DEF Written
<1>10. ASSUME pc[s] = "contents", CategoriesRemoved(Loaded(s)),
              ItemsRemoved(DOMAIN view[s].items)
       PROVE  Written(s)
  <2>1. \A i \in DOMAIN items :
          i \in DOMAIN view[s].items <=> items[i].category \in Loaded(s)
    BY <1>1, <1>10 DEF Holds, ContentsOf
  <2>2. Confined(s)
    BY <1>4, <1>10, <2>1 DEF CategoriesRemoved, ItemsRemoved, Confined, Beyond, Reach
  <2>3. NoOrphanItems'
    BY <1>1, <1>10, <2>1 DEF CategoriesRemoved, ItemsRemoved, NoOrphanItems
  <2>4. QED
    BY <1>3, <2>2, <2>3 DEF Written
<1>11. CASE UNCHANGED db
  <2>1. categories' = categories /\ items' = items
    BY <1>11 DEF db
  <2>2. Confined(s)
    BY <1>4, <2>1 DEF Confined, Beyond, Reach
  <2>3. NoOrphanItems'
    BY <1>1, <2>1 DEF NoOrphanItems
  <2>4. QED
    BY <1>3, <2>2, <2>3 DEF Written
<1>12. QED
  BY <1>2, <1>5, <1>6, <1>7, <1>8, <1>9, <1>10, <1>11 DEF Effect

-----------------------------------------------------------------------------
(* The steps.                                                              *)

Stages == {"idle", "category", "contents", "item", "items", "new item",
           "new category", "categories"}

LEMMA EmptyTable == /\ \A Ids, Row : NoRows \in Tables(Ids, Row)
                    /\ DOMAIN NoRows = {}
<1>1. DOMAIN NoRows = {}
  BY DEF NoRows
<1>2. \A Row : NoRows \in [{} -> Row]
  BY DEF NoRows
<1> HIDE DEF NoRows
<1>3. QED
  BY <1>1, <1>2, TableDomain

LEMMA EmptyViewTyped ==
  /\ EmptyView \in View
  /\ EmptyView.categories = NoRows /\ EmptyView.items = NoRows
  /\ EmptyView.chosen = {} /\ EmptyView.char = {}
<1> HIDE DEF NoRows
<1>1. QED
  BY EmptyTable DEF EmptyView, View

(* A session whose view is empty and that is idle.                         *)
LEMMA IdleHolds ==
  ASSUME NEW s \in Sessions, view[s] = EmptyView, pc[s] = "idle"
  PROVE  Holds(s)
<1>1. Loaded(s) = {} /\ DOMAIN view[s].items = {} /\ view[s].chosen = {}
      /\ view[s].char = {}
  BY EmptyTable, EmptyViewTyped DEF Loaded
<1>2. QED
  BY <1>1 DEF Holds

LEMMA InitHolds == Init => IInv
<1> SUFFICES ASSUME Init PROVE IInv
  OBVIOUS
<1>1. categories = NoRows /\ items = NoRows
  BY DEF Init
<1>2. TypeOK
  BY <1>1, EmptyTable, EmptyViewTyped DEF Init, TypeOK
<1>3. \A s \in Sessions : view[s] = EmptyView /\ pc[s] = "idle"
  BY DEF Init
<1>4. \A s \in Sessions : Holds(s)
  BY <1>3, IdleHolds
<1>5. NoOrphanItems
  BY <1>1, EmptyTable DEF NoOrphanItems
<1>6. QED
  BY <1>2, <1>4, <1>5 DEF IInv

(* What a request of another session has read is not touched.              *)
LEMMA OthersHold ==
  ASSUME IInv, OneWriter, NEW s \in Sessions, NEW r \in Sessions, r # s,
         Confined(s), view'[r] = view[r], pc'[r] = pc[r]
  PROVE  Holds(r)'
<1>1. Holds(r)
  BY DEF IInv
<1>2. Targets[r] \cap Targets[s] = {}
  BY DEF OneWriter
<1>3. Reach(r) \subseteq Beyond(s)
  BY <1>2 DEF Reach, Beyond
<1>4. Reach(r) \subseteq Reach(r)'
  BY <1>3 DEF Confined, Reach
<1>5. Loaded(r)' = Loaded(r)
  BY DEF Loaded
<1> DEFINE L == Loaded(r)
<1>6. L \subseteq Beyond(s)
  BY <1>1, <1>3 DEF Holds
<1>7. ContentsOf(L)' = ContentsOf(L) /\ \A i \in ContentsOf(L) : items'[i] = items[i]
  <2> HIDE DEF L
  <2>1. L' = L
    BY <1>5 DEF L
  <2>2. QED
    BY <1>6, <2>1 DEF ContentsOf, Confined
<1>8. \A c \in view[r].char : c \notin Targets[s]
  BY <1>1, <1>2 DEF Holds
<1>9. \A c \in view[r].char : OfCharacter(c)' = OfCharacter(c)
  BY <1>8, Elsewhere
<1>10. \A c \in view[r].char : \A k \in OfCharacter(c) : categories'[k] = categories[k]
  BY <1>8 DEF OfCharacter, Confined, Beyond, Reach
<1>11. pc'[r] = "new category" =>
         \A c \in view'[r].char : \A k \in OfCharacter(c)' :
           categories'[k].order < view'[r].next
  BY <1>1, <1>9, <1>10 DEF Holds
<1>12. pc'[r] = "new item" =>
         \A i \in ContentsOf(L)' : items'[i].order < view'[r].next
  BY <1>1, <1>7 DEF Holds
<1>13. /\ DOMAIN view'[r].items \subseteq ContentsOf(L)'
       /\ pc'[r] = "contents" => DOMAIN view'[r].items = ContentsOf(L)'
  BY <1>1, <1>7 DEF Holds
<1>14. /\ Loaded(r)' \subseteq Reach(r)'
       /\ view'[r].char \subseteq Targets[r]
       /\ view'[r].chosen \subseteq DOMAIN view'[r].items
  BY <1>1, <1>4, <1>5 DEF Holds
<1>15. QED
  BY <1>11, <1>12, <1>13, <1>14 DEF Holds

LEMMA AfterWrite ==
  ASSUME IInv, OneWriter, NEW s \in Sessions, Written(s)
  PROVE  IInv'
<1>1. pc' = [pc EXCEPT ![s] = "idle"] /\ view' = [view EXCEPT ![s] = EmptyView]
  BY DEF Written, Close
<1>2. view \in [Sessions -> View] /\ pc \in [Sessions -> Stages]
  BY DEF IInv, TypeOK, Stages
<1>3. TypeOK'
  <2>1. view' \in [Sessions -> View]
    BY <1>1, <1>2, EmptyViewTyped
  <2>2. pc' \in [Sessions -> Stages]
    BY <1>1, <1>2 DEF Stages
  <2>3. QED
    BY <2>1, <2>2 DEF TypeOK, Stages, Written, Confined, CategoryTable,
                      ItemTable, CategoryIds, ItemIds
<1>4. ASSUME NEW r \in Sessions PROVE Holds(r)'
  <2>1. CASE r = s
    <3>1. view'[s] = EmptyView /\ pc'[s] = "idle"
      BY <1>1, <1>2
    <3>2. Loaded(s)' = {} /\ DOMAIN view'[s].items = {} /\ view'[s].chosen = {}
          /\ view'[s].char = {}
      BY <3>1, EmptyTable, EmptyViewTyped DEF Loaded
    <3>3. QED
      BY <2>1, <3>1, <3>2 DEF Holds
  <2>2. CASE r # s
    <3>1. view'[r] = view[r] /\ pc'[r] = pc[r]
      BY <1>1, <1>2, <2>2
    <3>2. QED
      BY <2>2, <3>1, OthersHold DEF Written
  <2>3. QED
    BY <2>1, <2>2
<1>5. QED
  BY <1>3, <1>4 DEF IInv, Written

LEMMA AfterRead ==
  ASSUME IInv, OneWriter, NEW s \in Sessions, NEW from, NEW to \in Stages,
         NEW v \in View, Step(s, from, to, v),
         NEW L, L = DOMAIN v.categories, L \subseteq Reach(s),
         v.char \subseteq Targets[s],
         v.chosen \subseteq DOMAIN v.items,
         DOMAIN v.items \subseteq ContentsOf(L),
         to = "contents" => DOMAIN v.items = ContentsOf(L),
         to = "new item" => \A i \in ContentsOf(L) : items[i].order < v.next,
         to = "new category" =>
           \A c \in v.char : \A k \in OfCharacter(c) : categories[k].order < v.next
  PROVE  IInv'
<1>1. /\ pc' = [pc EXCEPT ![s] = to] /\ view' = [view EXCEPT ![s] = v]
      /\ categories' = categories /\ items' = items
  BY DEF Step, db
<1>2. view \in [Sessions -> View] /\ pc \in [Sessions -> Stages]
  BY DEF IInv, TypeOK, Stages
<1>3. view' \in [Sessions -> View] /\ pc' \in [Sessions -> Stages]
  BY <1>1, <1>2
<1>4. TypeOK'
  BY <1>1, <1>3 DEF IInv, TypeOK, Stages
<1>5. NoOrphanItems'
  BY <1>1 DEF IInv, NoOrphanItems
<1>6. ASSUME NEW r \in Sessions PROVE Holds(r)'
  <2>1. CASE r = s
    <3>1. view'[s] = v /\ pc'[s] = to
      BY <1>1, <1>2
    <3>2. Loaded(s)' = L /\ Reach(s)' = Reach(s) /\ ContentsOf(L)' = ContentsOf(L)
      BY <1>1, <3>1 DEF Loaded, Reach, ContentsOf
    <3>3. ContentsOf(Loaded(s))' = ContentsOf(L)
      BY <1>1, <3>2 DEF ContentsOf
    <3>4. \A c : OfCharacter(c)' = OfCharacter(c)
      BY <1>1 DEF OfCharacter
    <3>5. /\ Loaded(s)' \subseteq Reach(s)'
          /\ view'[s].char \subseteq Targets[s]
          /\ view'[s].chosen \subseteq DOMAIN view'[s].items
      BY <3>1, <3>2
    <3>6. /\ DOMAIN view'[s].items \subseteq ContentsOf(Loaded(s))'
          /\ pc'[s] = "contents" => DOMAIN view'[s].items = ContentsOf(Loaded(s))'
          /\ pc'[s] = "new item" =>
               \A i \in ContentsOf(Loaded(s))' : items'[i].order < view'[s].next
      BY <1>1, <3>1, <3>3
    <3>7. pc'[s] = "new category" =>
            \A c \in view'[s].char : \A k \in OfCharacter(c)' :
              categories'[k].order < view'[s].next
      BY <1>1, <3>1, <3>4
    <3>8. QED
      BY <2>1, <3>5, <3>6, <3>7 DEF Holds
  <2>2. CASE r # s
    <3>1. view'[r] = view[r] /\ pc'[r] = pc[r]
      BY <1>1, <1>2, <2>2
    <3>2. Confined(s)
      BY <1>1, TypedTables DEF IInv, Confined, Beyond, Reach
    <3>3. QED
      BY <2>2, <3>1, <3>2, OthersHold
  <2>3. QED
    BY <2>1, <2>2
<1>7. QED
  BY <1>4, <1>5, <1>6 DEF IInv

(* A request that begins by loading categories it may write.               *)
LEMMA LoadHolds ==
  ASSUME IInv, OneWriter, NEW s \in Sessions, NEW S, S \subseteq Reach(s),
         NEW to \in {"category", "categories"},
         Step(s, "idle", to, [EmptyView EXCEPT !.categories = Restrict(categories, S)])
  PROVE  IInv'
<1> DEFINE R == Restrict(categories, S)
           v == [EmptyView EXCEPT !.categories = R]
<1>1. S \subseteq DOMAIN categories /\ categories \in CategoryTable
  BY TypedTables DEF IInv, Reach
<1>2. R \in CategoryTable /\ DOMAIN R = S
  BY <1>1, RestrictTable DEF CategoryTable
<1>3. Step(s, "idle", to, v)
  OBVIOUS
<1> HIDE DEF R
<1>4. R \in Tables(1 .. MaxCategories, Category)
  BY <1>2 DEF CategoryTable, CategoryIds
<1>5. /\ v \in View /\ v.categories = R /\ v.items = NoRows
      /\ v.chosen = {} /\ v.char = {}
  BY <1>4, EmptyViewTyped DEF View
<1> HIDE DEF v
<1>6. /\ S = DOMAIN v.categories /\ v.char \subseteq Targets[s]
      /\ v.chosen \subseteq DOMAIN v.items
      /\ DOMAIN v.items \subseteq ContentsOf(S)
  BY <1>2, <1>5, EmptyTable
<1>7. to \in Stages /\ to \notin {"contents", "new item", "new category"}
  BY DEF Stages
<1>8. QED
  BY <1>3, <1>5, <1>6, <1>7, AfterRead

LEMMA ReadNextCategoryHolds ==
  ASSUME IInv, OneWriter, NEW s \in Sessions, ReadNextCategory(s)
  PROVE  IInv'
<1>1. PICK c \in Targets[s] :
        Step(s, "idle", "new category",
             [EmptyView EXCEPT !.char = {c},
                               !.next = NextOrder(categories, OfCharacter(c))])
  BY DEF ReadNextCategory
<1>2. c \in Characters
  BY TargetsAssumption
<1>3. \A k \in OfCharacter(c) : categories[k].order \in Orders
  BY TypedTables DEF IInv, OfCharacter, Category
<1>4. PICK n \in Nat : /\ n = NextOrder(categories, OfCharacter(c))
                       /\ \A k \in OfCharacter(c) : categories[k].order < n
  BY <1>3, NextIsLast
<1> DEFINE v == [EmptyView EXCEPT !.char = {c}, !.next = n]
<1>5. Step(s, "idle", "new category", v)
  BY <1>1, <1>4
<1>6. /\ v \in View /\ v.categories = NoRows /\ v.items = NoRows
      /\ v.chosen = {} /\ v.char = {c} /\ v.next = n
  BY <1>2, EmptyViewTyped DEF View
<1> HIDE DEF v
<1>7. /\ {} = DOMAIN v.categories /\ {} \subseteq Reach(s)
      /\ v.char \subseteq Targets[s]
      /\ v.chosen \subseteq DOMAIN v.items
      /\ DOMAIN v.items \subseteq ContentsOf({})
  BY <1>6, EmptyTable
<1>8. \A d \in v.char : \A k \in OfCharacter(d) : categories[k].order < v.next
  BY <1>4, <1>6
<1>9. "new category" \in Stages /\ "new category" \notin {"contents", "new item"}
  BY DEF Stages
<1>10. QED
  BY <1>5, <1>6, <1>7, <1>8, <1>9, AfterRead

(* What the view of a request that goes on has in common with the old one. *)
LEMMA ViewFacts ==
  ASSUME IInv, NEW s \in Sessions
  PROVE  /\ view[s] \in View
         /\ Loaded(s) = DOMAIN view[s].categories /\ Loaded(s) \subseteq Reach(s)
         /\ view[s].char \subseteq Targets[s]
         /\ view[s].chosen \subseteq DOMAIN view[s].items
         /\ DOMAIN view[s].items \subseteq ContentsOf(Loaded(s))
         /\ ContentsOf(Loaded(s)) \subseteq DOMAIN items
  BY DEF IInv, TypeOK, Holds, Loaded, ContentsOf

LEMMA ReadContentsHolds ==
  ASSUME IInv, OneWriter, NEW s \in Sessions, ReadContents(s)
  PROVE  IInv'
<1> DEFINE S == ContentsOf(Loaded(s))
           R == Restrict(items, S)
           v == [view[s] EXCEPT !.items = R]
<1>1. Step(s, "category", "contents", v) /\ pc[s] = "category"
  BY DEF ReadContents, Step
<1>2. S \subseteq DOMAIN items /\ items \in ItemTable
  BY ViewFacts, TypedTables DEF IInv
<1> HIDE DEF S
<1>3. R \in Tables(1 .. MaxItems, Item) /\ DOMAIN R = S
  BY <1>2, RestrictTable DEF ItemTable, ItemIds
<1> HIDE DEF R
<1>4. /\ v \in View /\ v.categories = view[s].categories /\ v.items = R
      /\ v.chosen = view[s].chosen /\ v.char = view[s].char
  BY <1>3, ViewFacts DEF View
<1> HIDE DEF v
<1>5. /\ Loaded(s) = DOMAIN v.categories /\ Loaded(s) \subseteq Reach(s)
      /\ v.char \subseteq Targets[s]
  BY <1>4, ViewFacts
<1>6. v.chosen \subseteq DOMAIN v.items /\ DOMAIN v.items = ContentsOf(Loaded(s))
  BY <1>3, <1>4, ViewFacts DEF S
<1>7. "contents" \in Stages /\ "contents" \notin {"new item", "new category"}
  BY DEF Stages
<1>8. QED
  BY <1>1, <1>4, <1>5, <1>6, <1>7, AfterRead

LEMMA ReadNextItemHolds ==
  ASSUME IInv, OneWriter, NEW s \in Sessions, ReadNextItem(s)
  PROVE  IInv'
<1> DEFINE S == ContentsOf(Loaded(s))
<1>1. \A i \in S : items[i].order \in Orders
  BY ViewFacts, TypedTables DEF IInv, Item
<1>2. PICK n \in Nat : n = NextOrder(items, S) /\ \A i \in S : items[i].order < n
  BY <1>1, NextIsLast
<1> DEFINE v == [view[s] EXCEPT !.next = n]
<1>3. Step(s, "contents", "new item", v)
  BY <1>2 DEF ReadNextItem
<1>4. /\ v \in View /\ v.categories = view[s].categories /\ v.items = view[s].items
      /\ v.chosen = view[s].chosen /\ v.char = view[s].char /\ v.next = n
  BY ViewFacts DEF View
<1> HIDE DEF v
<1>5. /\ Loaded(s) = DOMAIN v.categories /\ Loaded(s) \subseteq Reach(s)
      /\ v.char \subseteq Targets[s]
      /\ v.chosen \subseteq DOMAIN v.items
      /\ DOMAIN v.items \subseteq ContentsOf(Loaded(s))
  BY <1>4, ViewFacts
<1>6. \A i \in ContentsOf(Loaded(s)) : items[i].order < v.next
  BY <1>2, <1>4
<1>7. "new item" \in Stages /\ "new item" \notin {"contents", "new category"}
  BY DEF Stages
<1>8. QED
  BY <1>3, <1>4, <1>5, <1>6, <1>7, AfterRead

LEMMA MergedItems ==
  ASSUME NEW f \in ItemTable, NEW g \in ItemTable
  PROVE  Merged(f, g) \in ItemTable /\ DOMAIN Merged(f, g) = DOMAIN f \cup DOMAIN g
<1> DEFINE m == Merged(f, g)
<1>1. /\ DOMAIN f \subseteq ItemIds /\ f \in [DOMAIN f -> Item]
      /\ DOMAIN g \subseteq ItemIds /\ g \in [DOMAIN g -> Item]
  BY TableDomain DEF ItemTable
<1>2. m = [i \in DOMAIN f \cup DOMAIN g |-> IF i \in DOMAIN f THEN f[i] ELSE g[i]]
  BY DEF Merged
<1> HIDE DEF m
<1>3. DOMAIN m = DOMAIN f \cup DOMAIN g
  BY <1>2
<1>4. m \in [DOMAIN f \cup DOMAIN g -> Item]
  BY <1>1, <1>2
<1>5. m \in ItemTable
  BY <1>1, <1>3, <1>4, TableDomain DEF ItemTable
<1>6. QED
  BY <1>3, <1>5 DEF m

LEMMA ChooseHolds ==
  ASSUME IInv, OneWriter, NEW s \in Sessions, NEW S, S \subseteq ContentsOf(Loaded(s)),
         NEW to \in {"item", "items"}, Choose(s, S, to)
  PROVE  IInv'
<1> DEFINE R == Restrict(items, S)
           m == Merged(view[s].items, R)
           v == [view[s] EXCEPT !.items = m, !.chosen = S]
<1>1. Step(s, "contents", to, v)
  BY DEF Choose
<1>2. S \subseteq DOMAIN items /\ items \in ItemTable /\ view[s].items \in ItemTable
  BY ViewFacts, TypedTables, TypedViews DEF IInv
<1>3. R \in ItemTable /\ DOMAIN R = S
  BY <1>2, RestrictTable DEF ItemTable
<1> HIDE DEF R
<1>4. m \in ItemTable /\ DOMAIN m = DOMAIN view[s].items \cup S
  BY <1>2, <1>3, MergedItems
<1> HIDE DEF m
<1>5. S \subseteq 1 .. MaxItems /\ m \in Tables(1 .. MaxItems, Item)
  BY <1>2, <1>4, TypedTables DEF IInv, ItemTable, ItemIds
<1>6. /\ v \in View /\ v.categories = view[s].categories /\ v.items = m
      /\ v.chosen = S /\ v.char = view[s].char
  BY <1>5, ViewFacts DEF View
<1> HIDE DEF v
<1>7. /\ Loaded(s) = DOMAIN v.categories /\ Loaded(s) \subseteq Reach(s)
      /\ v.char \subseteq Targets[s]
      /\ v.chosen \subseteq DOMAIN v.items
      /\ DOMAIN v.items \subseteq ContentsOf(Loaded(s))
  BY <1>4, <1>6, ViewFacts
<1>8. to \in Stages /\ to \notin {"contents", "new item", "new category"}
  BY DEF Stages
<1>9. QED
  BY <1>1, <1>6, <1>7, <1>8, AfterRead

LEMMA StepHolds ==
  ASSUME IInv, OneWriter, [Next]_vars
  PROVE  IInv'
<1>1. CASE UNCHANGED vars
  <2>1. UNCHANGED <<categories, items, pc, view>>
    BY <1>1 DEF vars
  <2>2. TypeOK' /\ NoOrphanItems'
    BY <2>1 DEF IInv, TypeOK, NoOrphanItems
  <2>3. ASSUME NEW r \in Sessions PROVE Holds(r)'
    <3>1. Loaded(r)' = Loaded(r) /\ Reach(r)' = Reach(r)
          /\ ContentsOf(Loaded(r))' = ContentsOf(Loaded(r))
          /\ \A c : OfCharacter(c)' = OfCharacter(c)
      BY <2>1 DEF Loaded, Reach, ContentsOf, OfCharacter
    <3>2. QED
      BY <2>1, <3>1 DEF IInv, Holds
  <2>4. QED
    BY <2>2, <2>3 DEF IInv
<1>2. ASSUME NEW s \in Sessions, ReadCategory(s) PROVE IInv'
  <2>1. PICK c \in Targets[s], k \in DOMAIN categories :
          /\ categories[k].char = c
          /\ Step(s, "idle", "category",
                  [EmptyView EXCEPT !.categories = Restrict(categories, {k})])
    BY <1>2 DEF ReadCategory
  <2>2. {k} \subseteq Reach(s)
    BY <2>1 DEF Reach
  <2>3. QED
    BY <2>1, <2>2, LoadHolds
<1>3. ASSUME NEW s \in Sessions, ReadCategories(s) PROVE IInv'
  <2>1. PICK c \in Targets[s] : \E S \in SUBSET OfCharacter(c) :
          Step(s, "idle", "categories",
               [EmptyView EXCEPT !.categories = Restrict(categories, S)])
    BY <1>3 DEF ReadCategories
  <2>2. PICK S \in SUBSET OfCharacter(c) :
          Step(s, "idle", "categories",
               [EmptyView EXCEPT !.categories = Restrict(categories, S)])
    BY <2>1
  <2>3. S \subseteq Reach(s)
    BY <2>1 DEF Reach, OfCharacter
  <2>4. QED
    BY <2>2, <2>3, LoadHolds
<1>4. ASSUME NEW s \in Sessions, ReadContents(s) PROVE IInv'
  BY <1>4, ReadContentsHolds
<1>5. ASSUME NEW s \in Sessions, ReadNextItem(s) PROVE IInv'
  BY <1>5, ReadNextItemHolds
<1>6. ASSUME NEW s \in Sessions, ReadNextCategory(s) PROVE IInv'
  BY <1>6, ReadNextCategoryHolds
<1>7. ASSUME NEW s \in Sessions, ReadItem(s) PROVE IInv'
  <2>1. PICK i \in ContentsOf(Loaded(s)) : Choose(s, {i}, "item")
    BY <1>7 DEF ReadItem
  <2>2. QED
    BY <2>1, ChooseHolds
<1>8. ASSUME NEW s \in Sessions, ReadItems(s) PROVE IInv'
  <2>1. PICK S \in SUBSET ContentsOf(Loaded(s)) : Choose(s, S, "items")
    BY <1>8 DEF ReadItems
  <2>2. QED
    BY <2>1, ChooseHolds
<1>9. ASSUME NEW s \in Sessions, Write(s) PROVE IInv'
  BY <1>9, WriteWritten, AfterWrite
<1>10. QED
  BY <1>1, <1>2, <1>3, <1>4, <1>5, <1>6, <1>7, <1>8, <1>9 DEF Next, Write

(* A step that does not write leaves the tables as they are.               *)
LEMMA StepKinds ==
  ASSUME [Next]_vars
  PROVE  (categories' = categories /\ items' = items) \/ \E s \in Sessions : Write(s)
  BY DEF Next, Write, vars, db, ReadCategory, ReadContents, ReadItem, ReadItems,
         ReadNextItem, ReadNextCategory, ReadCategories, Choose, Step

-----------------------------------------------------------------------------
(* Sessions that share characters.                                         *)

(* A request that is about one category, or one item, has that one.        *)
Single(s) ==
  /\ view[s].chosen \subseteq DOMAIN view[s].items
  /\ pc[s] = "category" => view[s].chosen = {}
  /\ pc[s] \in {"category", "contents"} => \E k \in Loaded(s) : Loaded(s) = {k}
  /\ pc[s] = "item" => \E i \in view[s].chosen : view[s].chosen = {i}

SharedInv ==
  TypeOK /\ UniqueNames(categories) /\ \A s \in Sessions : Single(s)

(* What requests have loaded stays, as long as no category is deleted.     *)
Kept == NoOrphanItems /\ \A s \in Sessions : Loaded(s) \subseteq DOMAIN categories

LEMMA SharedInit == Init => SharedInv /\ Kept
<1> SUFFICES ASSUME Init PROVE SharedInv /\ Kept
  OBVIOUS
<1>1. categories = NoRows /\ items = NoRows
  BY DEF Init
<1>2. TypeOK
  BY <1>1, EmptyTable, EmptyViewTyped DEF Init, TypeOK
<1>3. \A s \in Sessions : view[s] = EmptyView /\ pc[s] = "idle"
  BY DEF Init
<1>4. \A s \in Sessions : Single(s) /\ Loaded(s) = {}
  BY <1>3, EmptyTable, EmptyViewTyped DEF Single, Loaded
<1>5. UniqueNames(categories) /\ NoOrphanItems
  BY <1>1, EmptyTable DEF UniqueNames, NoOrphanItems
<1>6. QED
  BY <1>2, <1>4, <1>5 DEF SharedInv, Kept

LEMMA SharedRead ==
  ASSUME SharedInv, NEW s \in Sessions, NEW from, NEW to \in Stages,
         NEW v \in View, Step(s, from, to, v),
         v.chosen \subseteq DOMAIN v.items,
         to = "category" => v.chosen = {},
         to \in {"category", "contents"} =>
           \E k \in DOMAIN v.categories : DOMAIN v.categories = {k},
         to = "item" => \E i \in v.chosen : v.chosen = {i},
         DOMAIN v.categories \subseteq DOMAIN categories \cup Loaded(s)
  PROVE  SharedInv' /\ (Kept => Kept')
<1>1. /\ pc' = [pc EXCEPT ![s] = to] /\ view' = [view EXCEPT ![s] = v]
      /\ categories' = categories /\ items' = items
  BY DEF Step, db
<1>2. view \in [Sessions -> View] /\ pc \in [Sessions -> Stages]
  BY DEF SharedInv, TypeOK, Stages
<1>3. view' \in [Sessions -> View] /\ pc' \in [Sessions -> Stages]
  BY <1>1, <1>2
<1>4. TypeOK'
  BY <1>1, <1>3 DEF SharedInv, TypeOK, Stages
<1>5. /\ view'[s] = v /\ pc'[s] = to
      /\ \A r \in Sessions \ {s} : view'[r] = view[r] /\ pc'[r] = pc[r]
  BY <1>1, <1>2
<1>6. ASSUME NEW r \in Sessions PROVE Single(r)'
  <2>1. CASE r = s
    BY <1>5, <2>1 DEF Single, Loaded
  <2>2. CASE r # s
    BY <1>5, <2>2 DEF SharedInv, Single, Loaded
  <2>3. QED
    BY <2>1, <2>2
<1>7. UniqueNames(categories)'
  BY <1>1 DEF SharedInv, UniqueNames
<1>8. ASSUME Kept PROVE Kept'
  <2>1. NoOrphanItems'
    BY <1>1, <1>8 DEF Kept, NoOrphanItems
  <2>2. ASSUME NEW r \in Sessions PROVE Loaded(r)' \subseteq DOMAIN categories'
    BY <1>1, <1>5, <1>8 DEF Kept, Loaded
  <2>3. QED
    BY <2>1, <2>2 DEF Kept
<1>9. QED
  BY <1>4, <1>6, <1>7, <1>8 DEF SharedInv

LEMMA SharedLoad ==
  ASSUME SharedInv, NEW s \in Sessions, NEW S, S \subseteq DOMAIN categories,
         NEW to \in {"category", "categories"},
         to = "category" => \E k \in S : S = {k},
         Step(s, "idle", to, [EmptyView EXCEPT !.categories = Restrict(categories, S)])
  PROVE  SharedInv' /\ (Kept => Kept')
<1> DEFINE R == Restrict(categories, S)
           v == [EmptyView EXCEPT !.categories = R]
<1>1. R \in CategoryTable /\ DOMAIN R = S
  BY TypedTables, RestrictTable DEF CategoryTable, SharedInv
<1>2. Step(s, "idle", to, v)
  OBVIOUS
<1> HIDE DEF R
<1>3. R \in Tables(1 .. MaxCategories, Category)
  BY <1>1 DEF CategoryTable, CategoryIds
<1>4. v \in View /\ v.categories = R /\ v.chosen = {}
  BY <1>3, EmptyViewTyped DEF View
<1> HIDE DEF v
<1>5. to \in Stages /\ to \notin {"contents", "item"}
  BY DEF Stages
<1>6. QED
  BY <1>1, <1>2, <1>4, <1>5, SharedRead

LEMMA SharedReadContents ==
  ASSUME SharedInv, NEW s \in Sessions, ReadContents(s)
  PROVE  SharedInv' /\ (Kept => Kept')
<1> DEFINE S == ContentsOf(Loaded(s))
           R == Restrict(items, S)
           v == [view[s] EXCEPT !.items = R]
<1>1. Step(s, "category", "contents", v) /\ pc[s] = "category"
  BY DEF ReadContents, Step
<1>2. S \subseteq DOMAIN items /\ items \in ItemTable
  BY TypedTables DEF SharedInv, ContentsOf
<1> HIDE DEF S
<1>3. R \in Tables(1 .. MaxItems, Item)
  BY <1>2, RestrictTable DEF ItemTable, ItemIds
<1> HIDE DEF R
<1>4. view[s] \in View /\ Single(s)
  BY DEF SharedInv, TypeOK
<1>5. /\ v \in View /\ v.categories = view[s].categories
      /\ v.chosen = view[s].chosen
  BY <1>3, <1>4 DEF View
<1> HIDE DEF v
<1>6. /\ v.chosen = {}
      /\ \E k \in DOMAIN v.categories : DOMAIN v.categories = {k}
      /\ DOMAIN v.categories = Loaded(s)
  BY <1>1, <1>4, <1>5 DEF Single, Loaded
<1>7. "contents" \in Stages /\ "contents" \notin {"category", "item"}
  BY DEF Stages
<1>8. QED
  BY <1>1, <1>5, <1>6, <1>7, SharedRead

LEMMA SharedChoose ==
  ASSUME SharedInv, NEW s \in Sessions, NEW S, S \subseteq ContentsOf(Loaded(s)),
         NEW to \in {"item", "items"}, to = "item" => \E i \in S : S = {i},
         Choose(s, S, to)
  PROVE  SharedInv' /\ (Kept => Kept')
<1> DEFINE R == Restrict(items, S)
           m == Merged(view[s].items, R)
           v == [view[s] EXCEPT !.items = m, !.chosen = S]
<1>1. Step(s, "contents", to, v)
  BY DEF Choose
<1>2. /\ S \subseteq DOMAIN items /\ items \in ItemTable
      /\ view[s].items \in ItemTable /\ view[s] \in View
  BY TypedTables, TypedViews DEF SharedInv, ContentsOf
<1>3. R \in ItemTable /\ DOMAIN R = S
  BY <1>2, RestrictTable DEF ItemTable
<1> HIDE DEF R
<1>4. m \in ItemTable /\ DOMAIN m = DOMAIN view[s].items \cup S
  BY <1>2, <1>3, MergedItems
<1> HIDE DEF m
<1>5. S \subseteq 1 .. MaxItems /\ m \in Tables(1 .. MaxItems, Item)
  BY <1>2, <1>4, TypedTables DEF SharedInv, ItemTable, ItemIds
<1>6. /\ v \in View /\ v.categories = view[s].categories /\ v.items = m
      /\ v.chosen = S
  BY <1>2, <1>5 DEF View
<1> HIDE DEF v
<1>7. v.chosen \subseteq DOMAIN v.items /\ DOMAIN v.categories = Loaded(s)
  BY <1>4, <1>6 DEF Loaded
<1>8. to \in Stages /\ to \notin {"contents", "category"}
  BY DEF Stages
<1>9. QED
  BY <1>1, <1>6, <1>7, <1>8, SharedRead

LEMMA SharedReadNext ==
  ASSUME SharedInv, NEW s \in Sessions, ReadNextItem(s) \/ ReadNextCategory(s)
  PROVE  SharedInv' /\ (Kept => Kept')
<1>1. CASE ReadNextItem(s)
  <2>1. \A i \in ContentsOf(Loaded(s)) : items[i].order \in Orders
    BY TypedTables DEF SharedInv, ContentsOf, Item
  <2>2. PICK n \in Nat : n = NextOrder(items, ContentsOf(Loaded(s)))
    BY <2>1, NextIsLast
  <2> DEFINE v == [view[s] EXCEPT !.next = n]
  <2>3. Step(s, "contents", "new item", v)
    BY <1>1, <2>2 DEF ReadNextItem
  <2>4. view[s] \in View /\ Single(s)
    BY DEF SharedInv, TypeOK
  <2>5. /\ v \in View /\ v.categories = view[s].categories
        /\ v.items = view[s].items /\ v.chosen = view[s].chosen
    BY <2>4 DEF View
  <2> HIDE DEF v
  <2>6. v.chosen \subseteq DOMAIN v.items /\ DOMAIN v.categories = Loaded(s)
    BY <2>4, <2>5 DEF Single, Loaded
  <2>7. "new item" \in Stages /\ "new item" \notin {"category", "contents", "item"}
    BY DEF Stages
  <2>8. QED
    BY <2>3, <2>5, <2>6, <2>7, SharedRead
<1>2. CASE ReadNextCategory(s)
  <2>1. PICK c \in Targets[s] :
          Step(s, "idle", "new category",
               [EmptyView EXCEPT !.char = {c},
                                 !.next = NextOrder(categories, OfCharacter(c))])
    BY <1>2 DEF ReadNextCategory
  <2>2. c \in Characters
    BY TargetsAssumption
  <2>3. \A k \in OfCharacter(c) : categories[k].order \in Orders
    BY TypedTables DEF SharedInv, OfCharacter, Category
  <2>4. PICK n \in Nat : n = NextOrder(categories, OfCharacter(c))
    BY <2>3, NextIsLast
  <2> DEFINE v == [EmptyView EXCEPT !.char = {c}, !.next = n]
  <2>5. Step(s, "idle", "new category", v)
    BY <2>1, <2>4
  <2>6. v \in View /\ v.categories = NoRows /\ v.chosen = {}
    BY <2>2, EmptyViewTyped DEF View
  <2> HIDE DEF v
  <2>7. v.chosen \subseteq DOMAIN v.items /\ DOMAIN v.categories = {}
    BY <2>6, EmptyTable
  <2>8. /\ "new category" \in Stages
        /\ "new category" \notin {"category", "contents", "item"}
    BY DEF Stages
  <2>9. QED
    BY <2>5, <2>6, <2>7, <2>8, SharedRead
<1>3. QED
  BY <1>1, <1>2

LEMMA EffectShared ==
  ASSUME SharedInv, NEW s \in Sessions, Effect(s)
  PROVE  SharedInv'
<1>1. pc' = [pc EXCEPT ![s] = "idle"] /\ view' = [view EXCEPT ![s] = EmptyView]
  BY DEF Effect, Close
<1>2. view \in [Sessions -> View] /\ pc \in [Sessions -> Stages]
  BY DEF SharedInv, TypeOK, Stages
<1>3. /\ view' \in [Sessions -> View] /\ pc' \in [Sessions -> Stages]
      /\ view'[s] = EmptyView /\ pc'[s] = "idle"
      /\ \A r \in Sessions \ {s} : view'[r] = view[r] /\ pc'[r] = pc[r]
  BY <1>1, <1>2, EmptyViewTyped DEF Stages
<1>4. categories \in CategoryTable /\ items \in ItemTable /\ UniqueNames(categories)
  BY TypedTables DEF SharedInv
<1>5. categories' \in CategoryTable /\ items' \in ItemTable
  BY <1>4 DEF Effect, CategoriesEdited, ItemsEdited, CategoryAdded, ItemAdded,
              ItemsRemoved, CategoriesRemoved, db
<1>6. UniqueNames(categories')
  <2>1. CASE CategoriesEdited(s, {})
    BY <1>4, <2>1 DEF CategoriesEdited, UniqueNames
  <2>2. CASE \E k \in Loaded(s) : CategoriesEdited(s, {k})
    BY <2>2 DEF CategoriesEdited
  <2>3. CASE \E k \in CategoryIds : CategoryAdded(s, k)
    BY <2>3 DEF CategoryAdded
  <2>4. CASE CategoriesRemoved(Loaded(s))
    BY <1>4, <2>4 DEF CategoriesRemoved, UniqueNames
  <2>5. CASE categories' = categories
    BY <1>4, <2>5
  <2>6. QED
    BY <2>1, <2>2, <2>3, <2>4, <2>5 DEF Effect, ItemsEdited, ItemAdded, db
<1>7. TypeOK'
  BY <1>3, <1>5 DEF TypeOK, Stages, CategoryTable, ItemTable, CategoryIds, ItemIds
<1>8. ASSUME NEW r \in Sessions PROVE Single(r)'
  <2>1. CASE r = s
    BY <1>3, <2>1, EmptyTable, EmptyViewTyped DEF Single
  <2>2. CASE r # s
    BY <1>3, <2>2 DEF SharedInv, Single, Loaded
  <2>3. QED
    BY <2>1, <2>2
<1>9. QED
  BY <1>6, <1>7, <1>8 DEF SharedInv

LEMMA EffectKept ==
  ASSUME SharedInv, Kept, Deleters = {}, NEW s \in Sessions, Effect(s)
  PROVE  Kept'
<1>1. pc' = [pc EXCEPT ![s] = "idle"] /\ view' = [view EXCEPT ![s] = EmptyView]
  BY DEF Effect, Close
<1>2. view \in [Sessions -> View]
  BY DEF SharedInv, TypeOK
<1>3. \A r \in Sessions : Loaded(r)' \subseteq Loaded(r)
  BY <1>1, <1>2, EmptyTable, EmptyViewTyped DEF Loaded
<1>4. DOMAIN categories \subseteq DOMAIN categories'
  BY DEF Effect, CategoriesEdited, ItemsEdited, CategoryAdded, ItemAdded, db
<1>5. \A i \in DOMAIN items' :
        \/ i \in DOMAIN items /\ items'[i].category = items[i].category
        \/ items'[i].category \in Loaded(s)
  BY DEF Effect, CategoriesEdited, ItemsEdited, CategoryAdded, ItemAdded,
         ItemsRemoved, db
<1>6. NoOrphanItems'
  BY <1>4, <1>5 DEF Kept, NoOrphanItems
<1>7. QED
  BY <1>3, <1>4, <1>6 DEF Kept

LEMMA SharedStep ==
  ASSUME SharedInv, [Next]_vars
  PROVE  SharedInv' /\ (Kept /\ Deleters = {} => Kept')
<1>1. CASE UNCHANGED vars
  <2>1. UNCHANGED <<categories, items, pc, view>>
    BY <1>1 DEF vars
  <2>2. TypeOK' /\ UniqueNames(categories)' /\ \A s \in Sessions : Single(s)'
    BY <2>1 DEF SharedInv, TypeOK, UniqueNames, Single, Loaded
  <2>3. Kept => Kept'
    BY <2>1 DEF Kept, NoOrphanItems, Loaded
  <2>4. QED
    BY <2>2, <2>3 DEF SharedInv
<1>2. ASSUME NEW s \in Sessions, ReadCategory(s)
      PROVE  SharedInv' /\ (Kept => Kept')
  <2>1. PICK k \in DOMAIN categories :
          Step(s, "idle", "category",
               [EmptyView EXCEPT !.categories = Restrict(categories, {k})])
    BY <1>2 DEF ReadCategory
  <2>2. PICK S : S = {k}
    OBVIOUS
  <2>3. /\ S \subseteq DOMAIN categories /\ \E j \in S : S = {j}
        /\ Step(s, "idle", "category",
                [EmptyView EXCEPT !.categories = Restrict(categories, S)])
    BY <2>1, <2>2
  <2>4. QED
    BY <2>3, SharedLoad
<1>3. ASSUME NEW s \in Sessions, ReadCategories(s)
      PROVE  SharedInv' /\ (Kept => Kept')
  <2>1. PICK c \in Targets[s] : \E S \in SUBSET OfCharacter(c) :
          Step(s, "idle", "categories",
               [EmptyView EXCEPT !.categories = Restrict(categories, S)])
    BY <1>3 DEF ReadCategories
  <2>2. PICK S \in SUBSET OfCharacter(c) :
          Step(s, "idle", "categories",
               [EmptyView EXCEPT !.categories = Restrict(categories, S)])
    BY <2>1
  <2>3. S \subseteq DOMAIN categories
    BY DEF OfCharacter
  <2>4. QED
    BY <2>2, <2>3, SharedLoad
<1>4. ASSUME NEW s \in Sessions, ReadItem(s)
      PROVE  SharedInv' /\ (Kept => Kept')
  <2>1. PICK i \in ContentsOf(Loaded(s)) : Choose(s, {i}, "item")
    BY <1>4 DEF ReadItem
  <2>2. PICK S : S = {i}
    OBVIOUS
  <2>3. S \subseteq ContentsOf(Loaded(s)) /\ (\E j \in S : S = {j}) /\ Choose(s, S, "item")
    BY <2>1, <2>2
  <2>4. QED
    BY <2>3, SharedChoose
<1>5. ASSUME NEW s \in Sessions, ReadItems(s)
      PROVE  SharedInv' /\ (Kept => Kept')
  <2>1. PICK S \in SUBSET ContentsOf(Loaded(s)) : Choose(s, S, "items")
    BY <1>5 DEF ReadItems
  <2>2. QED
    BY <2>1, SharedChoose
<1>6. ASSUME NEW s \in Sessions,
             ReadContents(s) \/ ReadNextItem(s) \/ ReadNextCategory(s)
      PROVE  SharedInv' /\ (Kept => Kept')
  BY <1>6, SharedReadContents, SharedReadNext
<1>7. ASSUME NEW s \in Sessions, Write(s)
      PROVE  SharedInv' /\ (Kept /\ Deleters = {} => Kept')
  <2>1. Effect(s)
    BY <1>7, WriteEffect DEF SharedInv, Single, Typed
  <2>2. QED
    BY <2>1, EffectShared, EffectKept
<1>8. QED
  BY <1>1, <1>2, <1>3, <1>4, <1>5, <1>6, <1>7 DEF Next, Write

-----------------------------------------------------------------------------
(* The contents of a category, counted.                                    *)

ThingsOf(its, k, t) ==
  {i \in DOMAIN its : its[i].category = k /\ its[i].thing = t}

LEMMA SomeThing ==
  ASSUME NEW its \in ItemTable
  PROVE  \A i \in DOMAIN its : its[i].thing \in Things
<1>1. \A i \in DOMAIN its : its[i] \in Item
  BY TableDomain DEF ItemTable
<1>2. QED
  BY <1>1 DEF Item

LEMMA FiniteThings ==
  ASSUME NEW its \in ItemTable, NEW k, NEW t
  PROVE  IsFiniteSet(ThingsOf(its, k, t)) /\ Cardinality(ThingsOf(its, k, t)) \in Nat
<1> DEFINE T == ThingsOf(its, k, t)
<1>1. T \subseteq 1 .. MaxItems
  BY TableDomain DEF ItemTable, ItemIds, ThingsOf
<1>2. IsFiniteSet(1 .. MaxItems)
  BY BoundAssumption, FS_Interval
<1> HIDE DEF T
<1>3. IsFiniteSet(T)
  BY <1>1, <1>2, FS_Subset
<1>4. Cardinality(T) \in Nat
  BY <1>3, FS_CardinalityType
<1>5. QED
  BY <1>3, <1>4 DEF T

LEMMA OneMore ==
  ASSUME NEW S, IsFiniteSet(S), NEW i, i \notin S
  PROVE  Cardinality(S \cup {i}) = Cardinality(S) + 1
  BY FS_AddElement

LEMMA CountIs ==
  ASSUME NEW its, NEW k
  PROVE  CountOf(its, k) = [t \in Things |-> Cardinality(ThingsOf(its, k, t))]
  BY DEF CountOf, ThingsOf

(* A category without items has none of everything.                        *)
LEMMA CountNone ==
  ASSUME NEW its, NEW k, \A i \in DOMAIN its : its[i].category # k
  PROVE  CountOf(its, k) = Book!Nothing
<1>1. \A t : ThingsOf(its, k, t) = {}
  BY DEF ThingsOf
<1>2. Cardinality({}) = 0
  BY FS_EmptySet
<1>3. CountOf(its, k) = [t \in Things |-> Cardinality(ThingsOf(its, k, t))]
  BY CountIs
<1>4. \A t \in Things : Cardinality(ThingsOf(its, k, t)) = 0
  BY <1>1, <1>2
<1>5. CountOf(its, k) = [t \in Things |-> 0]
  BY <1>3, <1>4
<1>6. QED
  BY <1>5 DEF Book!Nothing

(* Items that agree on category and thing are counted alike.               *)
LEMMA SameCount ==
  ASSUME NEW its, NEW jts, NEW k, \A t : ThingsOf(its, k, t) = ThingsOf(jts, k, t)
  PROVE  CountOf(its, k) = CountOf(jts, k)
  BY CountIs

(* A count that changes at one thing.                                     *)
LEMMA CountRaised ==
  ASSUME NEW its, NEW jts, NEW k, NEW x,
         Cardinality(ThingsOf(jts, k, x)) = Cardinality(ThingsOf(its, k, x)) + 1,
         \A t : t # x => ThingsOf(jts, k, t) = ThingsOf(its, k, t)
  PROVE  CountOf(jts, k) = [CountOf(its, k) EXCEPT ![x] = @ + 1]
<1> DEFINE f == CountOf(its, k)
           g == CountOf(jts, k)
<1>1. /\ f = [t \in Things |-> Cardinality(ThingsOf(its, k, t))]
      /\ g = [t \in Things |-> Cardinality(ThingsOf(jts, k, t))]
  BY CountIs
<1> HIDE DEF f, g
<1>2. x \in Things => g[x] = f[x] + 1
  BY <1>1
<1>3. \A t \in Things \ {x} : g[t] = f[t]
  BY <1>1
<1>4. g = [f EXCEPT ![x] = @ + 1]
  BY <1>1, <1>2, <1>3
<1>5. QED
  BY <1>4 DEF f, g

LEMMA CountLowered ==
  ASSUME NEW its, NEW jts, NEW k, NEW x,
         Cardinality(ThingsOf(jts, k, x)) = Cardinality(ThingsOf(its, k, x)) - 1,
         \A t : t # x => ThingsOf(jts, k, t) = ThingsOf(its, k, t)
  PROVE  CountOf(jts, k) = [CountOf(its, k) EXCEPT ![x] = @ - 1]
<1> DEFINE f == CountOf(its, k)
           g == CountOf(jts, k)
<1>1. /\ f = [t \in Things |-> Cardinality(ThingsOf(its, k, t))]
      /\ g = [t \in Things |-> Cardinality(ThingsOf(jts, k, t))]
  BY CountIs
<1> HIDE DEF f, g
<1>2. x \in Things => g[x] = f[x] - 1
  BY <1>1
<1>3. \A t \in Things \ {x} : g[t] = f[t]
  BY <1>1
<1>4. g = [f EXCEPT ![x] = @ - 1]
  BY <1>1, <1>2, <1>3
<1>5. QED
  BY <1>4 DEF f, g

(* One item more.                                                          *)
LEMMA MoreCount ==
  ASSUME NEW its \in ItemTable, NEW jts \in ItemTable, NEW i, i \notin DOMAIN its,
         DOMAIN jts = DOMAIN its \cup {i}, \A j \in DOMAIN its : jts[j] = its[j]
  PROVE  /\ CountOf(jts, jts[i].category) =
              [CountOf(its, jts[i].category) EXCEPT ![jts[i].thing] = @ + 1]
         /\ \A k : k # jts[i].category => CountOf(jts, k) = CountOf(its, k)
<1> DEFINE c == jts[i].category
           x == jts[i].thing
<1>1. /\ ThingsOf(jts, c, x) = ThingsOf(its, c, x) \cup {i}
      /\ i \notin ThingsOf(its, c, x)
      /\ \A t : t # x => ThingsOf(jts, c, t) = ThingsOf(its, c, t)
      /\ \A k, t : k # c => ThingsOf(jts, k, t) = ThingsOf(its, k, t)
  BY DEF ThingsOf
<1> HIDE DEF c, x
<1>2. Cardinality(ThingsOf(jts, c, x)) = Cardinality(ThingsOf(its, c, x)) + 1
  BY <1>1, FiniteThings, OneMore
<1>3. CountOf(jts, c) = [CountOf(its, c) EXCEPT ![x] = @ + 1]
  BY ONLY <1>1, <1>2, CountRaised
<1>4. \A k : k # c => CountOf(jts, k) = CountOf(its, k)
  BY <1>1, SameCount
<1>5. QED
  BY <1>3, <1>4 DEF c, x

(* One item less.                                                          *)
LEMMA LessCount ==
  ASSUME NEW its \in ItemTable, NEW jts \in ItemTable, NEW i \in DOMAIN its,
         DOMAIN jts = DOMAIN its \ {i}, \A j \in DOMAIN jts : jts[j] = its[j]
  PROVE  /\ its[i].thing \in Things
         /\ CountOf(its, its[i].category)[its[i].thing] > 0
         /\ CountOf(jts, its[i].category) =
              [CountOf(its, its[i].category) EXCEPT ![its[i].thing] = @ - 1]
         /\ \A k : k # its[i].category => CountOf(jts, k) = CountOf(its, k)
<1> DEFINE c == its[i].category
           x == its[i].thing
<1>1. /\ ThingsOf(jts, c, x) = ThingsOf(its, c, x) \ {i}
      /\ ThingsOf(its, c, x) = ThingsOf(jts, c, x) \cup {i}
      /\ i \in ThingsOf(its, c, x)
      /\ i \notin ThingsOf(jts, c, x)
      /\ \A t : t # x => ThingsOf(jts, c, t) = ThingsOf(its, c, t)
      /\ \A k, t : k # c => ThingsOf(jts, k, t) = ThingsOf(its, k, t)
  BY DEF ThingsOf
<1>2. x \in Things
  BY SomeThing
<1> HIDE DEF c, x
<1>3. /\ Cardinality(ThingsOf(its, c, x)) = Cardinality(ThingsOf(jts, c, x)) + 1
      /\ Cardinality(ThingsOf(jts, c, x)) \in Nat
  BY <1>1, FiniteThings, OneMore
<1>4. /\ Cardinality(ThingsOf(jts, c, x)) = Cardinality(ThingsOf(its, c, x)) - 1
      /\ Cardinality(ThingsOf(its, c, x)) > 0
  BY <1>3
<1>5. CountOf(its, c)[x] > 0
  BY <1>2, <1>4, CountIs
<1>6. CountOf(jts, c) = [CountOf(its, c) EXCEPT ![x] = @ - 1]
  <2>1. \A t : t # x => ThingsOf(jts, c, t) = ThingsOf(its, c, t)
    BY <1>1
  <2>2. Cardinality(ThingsOf(jts, c, x)) = Cardinality(ThingsOf(its, c, x)) - 1
    BY <1>4
  <2>3. QED
    BY ONLY <2>1, <2>2, CountLowered
<1>7. \A k : k # c => CountOf(jts, k) = CountOf(its, k)
  BY <1>1, SameCount
<1>8. QED
  BY <1>2, <1>5, <1>6, <1>7 DEF c, x

(* One item that says something else.                                      *)
LEMMA OtherCount ==
  ASSUME NEW its \in ItemTable, NEW jts \in ItemTable, NEW i \in DOMAIN its,
         DOMAIN jts = DOMAIN its,
         \A j \in DOMAIN its : /\ jts[j].category = its[j].category
                               /\ j # i => jts[j].thing = its[j].thing,
         jts[i].thing # its[i].thing
  PROVE  /\ its[i].thing \in Things /\ jts[i].thing \in Things
         /\ CountOf(its, its[i].category)[its[i].thing] > 0
         /\ CountOf(jts, its[i].category) =
              [CountOf(its, its[i].category) EXCEPT ![its[i].thing] = @ - 1,
                                                    ![jts[i].thing] = @ + 1]
         /\ \A k : k # its[i].category => CountOf(jts, k) = CountOf(its, k)
<1> DEFINE c == its[i].category
           x == its[i].thing
           y == jts[i].thing
<1>1. /\ ThingsOf(its, c, x) = ThingsOf(jts, c, x) \cup {i}
      /\ ThingsOf(jts, c, y) = ThingsOf(its, c, y) \cup {i}
      /\ i \notin ThingsOf(jts, c, x)
      /\ i \notin ThingsOf(its, c, y)
      /\ \A t : t # x /\ t # y => ThingsOf(jts, c, t) = ThingsOf(its, c, t)
      /\ \A k, t : k # c => ThingsOf(jts, k, t) = ThingsOf(its, k, t)
  BY DEF ThingsOf
<1>2. x \in Things /\ y \in Things /\ x # y
  BY SomeThing
<1> HIDE DEF c, x, y
<1>3. /\ Cardinality(ThingsOf(its, c, x)) = Cardinality(ThingsOf(jts, c, x)) + 1
      /\ Cardinality(ThingsOf(jts, c, x)) \in Nat
  BY <1>1, FiniteThings, OneMore
<1>4. /\ Cardinality(ThingsOf(jts, c, y)) = Cardinality(ThingsOf(its, c, y)) + 1
      /\ Cardinality(ThingsOf(its, c, y)) \in Nat
  BY <1>1, FiniteThings, OneMore
<1>5. /\ Cardinality(ThingsOf(jts, c, x)) = Cardinality(ThingsOf(its, c, x)) - 1
      /\ Cardinality(ThingsOf(its, c, x)) > 0
  BY <1>3
<1>6. CountOf(its, c)[x] > 0
  BY <1>2, <1>5, CountIs
<1>7. CountOf(jts, c) = [CountOf(its, c) EXCEPT ![x] = @ - 1, ![y] = @ + 1]
  <2> DEFINE f == CountOf(its, c)
             g == CountOf(jts, c)
  <2>1. /\ f = [t \in Things |-> Cardinality(ThingsOf(its, c, t))]
        /\ g = [t \in Things |-> Cardinality(ThingsOf(jts, c, t))]
    BY CountIs
  <2> HIDE DEF f, g
  <2>2. g[x] = f[x] - 1 /\ g[y] = f[y] + 1
    BY <1>2, <1>4, <1>5, <2>1
  <2>3. \A t \in Things \ {x, y} : g[t] = f[t]
    BY <1>1, <2>1
  <2>4. g = [f EXCEPT ![x] = @ - 1, ![y] = @ + 1]
    BY <1>2, <2>1, <2>2, <2>3
  <2>5. QED
    BY <2>4 DEF f, g
<1>8. \A k : k # c => CountOf(jts, k) = CountOf(its, k)
  BY <1>1, SameCount
<1>9. QED
  BY <1>2, <1>6, <1>7, <1>8 DEF c, x, y

-----------------------------------------------------------------------------
(* Pages.                                                                  *)

RowsOf(cats, c) == {k \in DOMAIN cats : cats[k].char = c}

(* An entry for each category of the character.                            *)
IsPage(p, cats, its, c) ==
  /\ DOMAIN p = {cats[k].name : k \in RowsOf(cats, c)}
  /\ p = [n \in DOMAIN p |-> p[n]]
  /\ \A k \in RowsOf(cats, c) : p[cats[k].name] = CountOf(its, k)

(* A page is one, as the names differ.                                     *)
LEMMA PageRows ==
  ASSUME NEW cats, NEW its, NEW c, UniqueNames(cats)
  PROVE  IsPage(PageOf(cats, its, c), cats, its, c)
<1> DEFINE own == RowsOf(cats, c)
           pick(n) == CHOOSE k \in own : cats[k].name = n
<1>1. PageOf(cats, its, c) =
        [n \in {cats[k].name : k \in own} |-> CountOf(its, pick(n))]
  BY DEF PageOf, RowsOf
<1>2. ASSUME NEW k \in own PROVE pick(cats[k].name) = k
  <2>1. /\ pick(cats[k].name) \in own
        /\ cats[pick(cats[k].name)].name = cats[k].name
    BY <1>2
  <2> HIDE DEF pick
  <2>2. QED
    BY <1>2, <2>1 DEF UniqueNames, RowsOf
<1> HIDE DEF pick
<1>3. QED
  BY <1>1, <1>2 DEF IsPage

(* Rows that agree on names and contents make the same page.               *)
LEMMA SamePage ==
  ASSUME NEW t, NEW u, UniqueNames(t), UniqueNames(u), NEW its, NEW jts, NEW c,
         RowsOf(t, c) = RowsOf(u, c),
         \A k \in RowsOf(t, c) : /\ t[k].name = u[k].name
                                 /\ CountOf(its, k) = CountOf(jts, k)
  PROVE  PageOf(t, its, c) = PageOf(u, jts, c)
<1> DEFINE p == PageOf(t, its, c)
           q == PageOf(u, jts, c)
<1>1. IsPage(p, t, its, c) /\ IsPage(q, u, jts, c)
  BY PageRows
<1> HIDE DEF p, q
<1>2. DOMAIN p = DOMAIN q
  BY <1>1 DEF IsPage
<1>3. \A n \in DOMAIN p : p[n] = q[n]
  BY <1>1 DEF IsPage
<1>4. p = [n \in DOMAIN p |-> p[n]] /\ q = [n \in DOMAIN q |-> q[n]]
  BY <1>1 DEF IsPage
<1>5. p = q
  BY <1>2, <1>3, <1>4
<1>6. QED
  BY <1>5 DEF p, q

Pages == [c \in Characters |-> PageOf(categories, items, c)]

(* A book of which one page has changed.                                   *)
LEMMA PageChanged ==
  ASSUME NEW c \in Characters, NEW page, PageOf(categories', items', c) = page,
         \A d \in Characters \ {c} :
           PageOf(categories', items', d) = PageOf(categories, items, d)
  PROVE  Pages' = [Pages EXCEPT ![c] = page]
  BY DEF Pages

(* Sort orders do not show.                                                *)
LEMMA SamePages ==
  ASSUME UniqueNames(categories), UniqueNames(categories'),
         DOMAIN categories' = DOMAIN categories,
         \A k \in DOMAIN categories : /\ categories'[k].char = categories[k].char
                                      /\ categories'[k].name = categories[k].name
                                      /\ CountOf(items', k) = CountOf(items, k)
  PROVE  Pages' = Pages
<1>1. ASSUME NEW c \in Characters
      PROVE  PageOf(categories', items', c) = PageOf(categories, items, c)
  <2>1. RowsOf(categories', c) = RowsOf(categories, c)
    BY DEF RowsOf
  <2>2. \A k \in RowsOf(categories', c) :
          /\ categories'[k].name = categories[k].name
          /\ CountOf(items', k) = CountOf(items, k)
    BY DEF RowsOf
  <2>3. QED
    BY <2>1, <2>2, SamePage
<1>2. QED
  BY <1>1 DEF Pages

(* A change of the contents of one category is one of its entry.           *)
LEMMA EntryChanged ==
  ASSUME SharedInv, categories' = categories, NEW k \in DOMAIN categories, NEW f,
         CountOf(items', k) = f,
         \A j \in DOMAIN categories \ {k} : CountOf(items', j) = CountOf(items, j)
  PROVE  \E c \in Characters : \E n \in DOMAIN Pages[c] :
           /\ Pages[c][n] = CountOf(items, k)
           /\ Pages' = [Pages EXCEPT ![c] = [Pages[c] EXCEPT ![n] = f]]
<1> DEFINE c == categories[k].char
           n == categories[k].name
           p == PageOf(categories, items, c)
           q == PageOf(categories, items', c)
<1>1. c \in Characters /\ UniqueNames(categories)
  BY TypedTables DEF SharedInv, Category
<1>2. IsPage(p, categories, items, c)
  BY <1>1, PageRows
<1>3. IsPage(q, categories, items', c)
  BY <1>1, PageRows
<1>4. /\ k \in RowsOf(categories, c)
      /\ \A j \in RowsOf(categories, c) \ {k} :
           categories[j].name # n /\ CountOf(items', j) = CountOf(items, j)
  BY <1>1 DEF RowsOf, UniqueNames
<1>5. ASSUME NEW d \in Characters \ {c}
      PROVE  PageOf(categories', items', d) = PageOf(categories, items, d)
  <2>1. \A j \in RowsOf(categories, d) : CountOf(items', j) = CountOf(items, j)
    BY DEF RowsOf
  <2>2. PageOf(categories, items', d) = PageOf(categories, items, d)
    BY <1>1, <2>1, SamePage
  <2>3. QED
    BY <2>2
<1>6. Pages[c] = p
  BY <1>1 DEF Pages
<1>7. PageOf(categories', items', c) = q
  OBVIOUS
<1> HIDE DEF p, q, c, n
<1>8. n \in DOMAIN p /\ p[n] = CountOf(items, k)
  BY <1>2, <1>4 DEF n, IsPage
<1>9. q = [p EXCEPT ![n] = f]
  <2>1. DOMAIN q = DOMAIN p /\ q[n] = f
    BY <1>2, <1>3, <1>4 DEF n, IsPage
  <2>2. \A m \in DOMAIN q \ {n} : q[m] = p[m]
    BY <1>2, <1>3, <1>4 DEF n, IsPage
  <2>3. QED
    BY <1>2, <1>3, <2>1, <2>2 DEF IsPage
<1>10. Pages' = [Pages EXCEPT ![c] = q]
  BY <1>1, <1>5, <1>7, PageChanged
<1>11. QED
  BY <1>1, <1>6, <1>8, <1>9, <1>10

(* What a write of the book needs: what is loaded is there, and a category *)
(* about to be deleted has the items that were loaded.                     *)
Ready ==
  /\ NoOrphanItems
  /\ \A s \in Sessions : Loaded(s) \subseteq DOMAIN categories
  /\ \A s \in Deleters :
       pc[s] = "contents" => DOMAIN view[s].items = ContentsOf(Loaded(s))

LEMMA RenamedBook ==
  ASSUME SharedInv, UniqueNames(categories'), NEW s, NEW k \in DOMAIN categories,
         CategoriesEdited(s, {k}), categories'[k].name # categories[k].name
  PROVE  \E c \in Characters : \E n \in DOMAIN Pages[c], m \in Names :
           Book!RenameCategory(c, n, m)
<1> DEFINE c == categories[k].char
           n == categories[k].name
           m == categories'[k].name
           p == PageOf(categories, items, c)
           q == PageOf(categories', items', c)
<1>1. UniqueNames(categories) /\ c \in Characters
  BY TypedTables DEF SharedInv, Category
<1>2. m \in Names
  <2>1. k \in DOMAIN categories' /\ categories' \in CategoryTable
    BY DEF CategoriesEdited
  <2>2. categories'[k] \in Category
    BY <2>1, TableDomain DEF CategoryTable
  <2>3. QED
    BY <2>2 DEF Category
<1>3. /\ RowsOf(categories', c) = RowsOf(categories, c)
      /\ k \in RowsOf(categories, c)
      /\ \A j \in RowsOf(categories, c) \ {k} : categories'[j].name = categories[j].name
      /\ items' = items
  BY DEF CategoriesEdited, RowsOf
<1>4. /\ \A j \in RowsOf(categories, c) \ {k} : categories[j].name # n
      /\ \A j \in RowsOf(categories', c) \ {k} : categories'[j].name # m
  BY <1>1, <1>3 DEF UniqueNames, RowsOf
<1>5. ASSUME NEW d \in Characters \ {c}
      PROVE  PageOf(categories', items', d) = PageOf(categories, items, d)
  <2>1. /\ RowsOf(categories', d) = RowsOf(categories, d)
        /\ \A j \in RowsOf(categories', d) : categories'[j].name = categories[j].name
    BY DEF CategoriesEdited, RowsOf
  <2>2. \A j \in RowsOf(categories', d) : CountOf(items', j) = CountOf(items, j)
    BY <1>3
  <2>3. QED
    BY <1>1, <2>1, <2>2, SamePage
<1>6. IsPage(p, categories, items, c) /\ IsPage(q, categories', items', c)
  BY <1>1, PageRows
<1>7. Pages[c] = p
  BY <1>1 DEF Pages
<1>8. PageOf(categories', items', c) = q
  OBVIOUS
<1>9. n # m
  OBVIOUS
<1> HIDE DEF p, q, c
<1>10. n \in DOMAIN p /\ m \notin DOMAIN p
  BY <1>3, <1>4, <1>6, <1>9 DEF IsPage
<1>11. q = [v \in (DOMAIN p \ {n}) \cup {m} |-> IF v = m THEN p[n] ELSE p[v]]
  <2>1. DOMAIN q = (DOMAIN p \ {n}) \cup {m}
    BY <1>3, <1>4, <1>6 DEF IsPage
  <2>2. q[m] = p[n]
    BY <1>3, <1>6 DEF IsPage
  <2>3. \A v \in DOMAIN q \ {m} : q[v] = p[v]
    BY <1>3, <1>6 DEF IsPage
  <2>4. q = [v \in DOMAIN q |-> q[v]]
    BY <1>6 DEF IsPage
  <2>5. QED
    BY <2>1, <2>2, <2>3, <2>4
<1>12. Pages' = [Pages EXCEPT ![c] = q]
  BY <1>1, <1>5, <1>8, PageChanged
<1>13. Book!RenameCategory(c, n, m)
  <2> HIDE DEF n, m
  <2>1. m \notin DOMAIN Pages[c]
    BY <1>7, <1>10
  <2>2. Pages' = [Pages EXCEPT ![c] = [v \in (DOMAIN Pages[c] \ {n}) \cup {m} |->
                                         IF v = m THEN Pages[c][n] ELSE Pages[c][v]]]
    BY <1>7, <1>11, <1>12
  <2>3. QED
    BY <2>1, <2>2 DEF Book!RenameCategory, Book!Become, Pages
<1>14. QED
  BY <1>1, <1>2, <1>7, <1>10, <1>13

LEMMA AddedBook ==
  ASSUME SharedInv, NoOrphanItems, NEW s \in Sessions, NEW k, CategoryAdded(s, k)
  PROVE  \E c \in Characters : \E n \in Names : Book!AddCategory(c, n)
<1> DEFINE c == categories'[k].char
           n == categories'[k].name
           p == PageOf(categories, items, c)
           q == PageOf(categories', items', c)
<1>1. UniqueNames(categories) /\ UniqueNames(categories')
  BY DEF SharedInv, CategoryAdded
<1>2. c \in Characters /\ n \in Names
  <2>1. k \in DOMAIN categories' /\ categories' \in CategoryTable
    BY DEF CategoryAdded
  <2>2. categories'[k] \in Category
    BY <2>1, TableDomain DEF CategoryTable
  <2>3. QED
    BY <2>2 DEF Category
<1>3. /\ RowsOf(categories', c) = RowsOf(categories, c) \cup {k}
      /\ k \notin RowsOf(categories, c)
      /\ \A j \in RowsOf(categories, c) : categories'[j] = categories[j]
      /\ items' = items
  BY DEF CategoryAdded, RowsOf
<1>4. \A j \in RowsOf(categories, c) : categories[j].name # n
  BY <1>1, <1>3 DEF UniqueNames, RowsOf
<1>5. ASSUME NEW d \in Characters \ {c}
      PROVE  PageOf(categories', items', d) = PageOf(categories, items, d)
  <2>1. /\ RowsOf(categories', d) = RowsOf(categories, d)
        /\ \A j \in RowsOf(categories', d) : categories'[j].name = categories[j].name
    BY DEF CategoryAdded, RowsOf
  <2>2. \A j \in RowsOf(categories', d) : CountOf(items', j) = CountOf(items, j)
    BY <1>3
  <2>3. QED
    BY <1>1, <2>1, <2>2, SamePage
<1>6. CountOf(items, k) = Book!Nothing
  <2>1. \A i \in DOMAIN items : items[i].category # k
    BY DEF NoOrphanItems, CategoryAdded
  <2>2. QED
    BY <2>1, CountNone
<1>7. IsPage(p, categories, items, c) /\ IsPage(q, categories', items', c)
  BY <1>1, PageRows
<1>8. Pages[c] = p
  BY <1>2 DEF Pages
<1>9. PageOf(categories', items', c) = q
  OBVIOUS
<1> HIDE DEF p, q, c
<1>10. n \notin DOMAIN p
  BY <1>4, <1>7 DEF IsPage
<1>11. q = [v \in DOMAIN p \cup {n} |-> IF v = n THEN Book!Nothing ELSE p[v]]
  <2>1. DOMAIN q = DOMAIN p \cup {n}
    BY <1>3, <1>7 DEF IsPage
  <2>2. q[n] = Book!Nothing
    BY <1>3, <1>6, <1>7 DEF IsPage
  <2>3. \A v \in DOMAIN q \ {n} : q[v] = p[v]
    BY <1>3, <1>7 DEF IsPage
  <2>4. q = [v \in DOMAIN q |-> q[v]]
    BY <1>7 DEF IsPage
  <2>5. QED
    BY <2>1, <2>2, <2>3, <2>4
<1>12. Pages' = [Pages EXCEPT ![c] = q]
  BY <1>2, <1>5, <1>9, PageChanged
<1>13. Book!AddCategory(c, n)
  BY <1>8, <1>10, <1>11, <1>12 DEF Book!AddCategory, Book!Become, Pages
<1>14. QED
  BY <1>2, <1>13

LEMMA RemovedBook ==
  ASSUME SharedInv, NEW k \in DOMAIN categories, CategoriesRemoved({k}),
         ItemsRemoved(ContentsOf({k}))
  PROVE  \E c \in Characters : \E n \in DOMAIN Pages[c] : Book!RemoveCategory(c, n)
<1> DEFINE c == categories[k].char
           n == categories[k].name
           p == PageOf(categories, items, c)
           q == PageOf(categories', items', c)
<1>1. UniqueNames(categories) /\ c \in Characters
  BY TypedTables DEF SharedInv, Category
<1>2. UniqueNames(categories')
  BY <1>1 DEF CategoriesRemoved, UniqueNames
<1>3. /\ RowsOf(categories', c) = RowsOf(categories, c) \ {k}
      /\ k \in RowsOf(categories, c)
      /\ \A j \in RowsOf(categories', c) : categories'[j] = categories[j]
  BY DEF CategoriesRemoved, RowsOf
<1>4. \A j \in RowsOf(categories, c) \ {k} : categories[j].name # n
  BY <1>1, <1>3 DEF UniqueNames, RowsOf
<1>5. ASSUME NEW j, j # k PROVE CountOf(items', j) = CountOf(items, j)
  <2>1. \A t : ThingsOf(items', j, t) = ThingsOf(items, j, t)
    BY <1>5 DEF ItemsRemoved, ContentsOf, ThingsOf
  <2>2. QED
    BY <2>1, SameCount
<1>6. ASSUME NEW d \in Characters \ {c}
      PROVE  PageOf(categories', items', d) = PageOf(categories, items, d)
  <2>1. /\ RowsOf(categories', d) = RowsOf(categories, d)
        /\ k \notin RowsOf(categories', d)
        /\ \A j \in RowsOf(categories', d) : categories'[j].name = categories[j].name
    BY DEF CategoriesRemoved, RowsOf
  <2>2. \A j \in RowsOf(categories', d) : CountOf(items', j) = CountOf(items, j)
    BY <1>5, <2>1
  <2>3. QED
    BY <1>1, <1>2, <2>1, <2>2, SamePage
<1>7. IsPage(p, categories, items, c) /\ IsPage(q, categories', items', c)
  BY <1>1, <1>2, PageRows
<1>8. Pages[c] = p
  BY <1>1 DEF Pages
<1>9. PageOf(categories', items', c) = q
  OBVIOUS
<1> HIDE DEF p, q, c
<1>10. n \in DOMAIN p
  BY <1>3, <1>7 DEF IsPage
<1>11. q = Restrict(p, DOMAIN p \ {n})
  <2>1. DOMAIN q = DOMAIN p \ {n}
    BY <1>3, <1>4, <1>7 DEF IsPage
  <2>2. \A v \in DOMAIN q : q[v] = p[v]
    BY <1>3, <1>5, <1>7 DEF IsPage
  <2>3. q = [v \in DOMAIN q |-> q[v]]
    BY <1>7 DEF IsPage
  <2>4. QED
    BY <2>1, <2>2, <2>3 DEF Restrict
<1>12. Pages' = [Pages EXCEPT ![c] = q]
  BY <1>1, <1>6, <1>9, PageChanged
<1>13. Book!RemoveCategory(c, n)
  BY <1>8, <1>11, <1>12
     DEF Book!RemoveCategory, Book!Become, Book!Restrict, Restrict, Pages
<1>14. QED
  BY <1>1, <1>8, <1>10, <1>13

(* Edited without a change of what they say, items show no change.         *)
LEMMA UnseenEdit ==
  ASSUME SharedInv, NEW s, NEW S, ItemsEdited(s, S),
         \A i \in S \cap DOMAIN items : items'[i].thing = items[i].thing
  PROVE  Pages' = Pages
<1>1. \A i \in DOMAIN items : /\ items'[i].category = items[i].category
                              /\ items'[i].thing = items[i].thing
  BY DEF ItemsEdited
<1>2. \A k, t : ThingsOf(items', k, t) = ThingsOf(items, k, t)
  BY <1>1 DEF ItemsEdited, ThingsOf
<1>3. \A k : CountOf(items', k) = CountOf(items, k)
  BY <1>2, SameCount
<1>4. categories' = categories /\ UniqueNames(categories)
  BY DEF SharedInv, ItemsEdited
<1>5. QED
  BY <1>3, <1>4, SamePages

LEMMA RewrittenBook ==
  ASSUME SharedInv, NoOrphanItems, NEW s, NEW i \in DOMAIN items,
         ItemsEdited(s, {i}), items'[i].thing # items[i].thing
  PROVE  \E c \in Characters : \E n \in DOMAIN Pages[c], x, y \in Things :
           Book!RewriteItem(c, n, x, y)
<1> DEFINE k == items[i].category
           x == items[i].thing
           y == items'[i].thing
           f == CountOf(items, k)
           g == CountOf(items', k)
<1>1. /\ items \in ItemTable /\ items' \in ItemTable
      /\ DOMAIN items' = DOMAIN items /\ categories' = categories
      /\ k \in DOMAIN categories
  BY TypedTables DEF SharedInv, NoOrphanItems, ItemsEdited
<1>2. /\ x \in Things /\ y \in Things /\ f[x] > 0
      /\ g = [f EXCEPT ![x] = @ - 1, ![y] = @ + 1]
      /\ \A j : j # k => CountOf(items', j) = CountOf(items, j)
  BY <1>1, OtherCount DEF ItemsEdited
<1>3. x # y /\ f = CountOf(items, k) /\ g = CountOf(items', k)
  OBVIOUS
<1> HIDE DEF k, x, y, f, g
<1>c. PICK c \in Characters :
        \E n \in DOMAIN Pages[c] :
          /\ Pages[c][n] = f
          /\ Pages' = [Pages EXCEPT ![c] = [Pages[c] EXCEPT ![n] = g]]
  BY <1>1, <1>2, <1>3, EntryChanged
<1>4. PICK n \in DOMAIN Pages[c] :
        /\ Pages[c][n] = f
        /\ Pages' = [Pages EXCEPT ![c] = [Pages[c] EXCEPT ![n] = g]]
  BY <1>c
<1>5. Pages' = [Pages EXCEPT ![c] = [Pages[c] EXCEPT ![n][x] = @ - 1, ![n][y] = @ + 1]]
  <2>1. PICK p : p = Pages[c]
    OBVIOUS
  <2>2. [p EXCEPT ![n][x] = @ - 1, ![n][y] = @ + 1] = [p EXCEPT ![n] = g]
    BY <1>2, <1>4, <2>1
  <2>3. QED
    BY <1>4, <2>1, <2>2
<1>6. Book!RewriteItem(c, n, x, y)
  BY <1>2, <1>3, <1>4, <1>5 DEF Book!RewriteItem, Book!Become, Pages
<1>7. QED
  BY <1>2, <1>6

LEMMA AddedItemBook ==
  ASSUME SharedInv, Ready, NEW s \in Sessions, NEW i, ItemAdded(s, i)
  PROVE  \E c \in Characters : \E n \in DOMAIN Pages[c], x \in Things :
           Book!AddItem(c, n, x)
<1> DEFINE k == items'[i].category
           x == items'[i].thing
           f == CountOf(items, k)
           g == CountOf(items', k)
<1>1. /\ items \in ItemTable /\ items' \in ItemTable /\ i \notin DOMAIN items
      /\ DOMAIN items' = DOMAIN items \cup {i} /\ categories' = categories
      /\ \A j \in DOMAIN items : items'[j] = items[j]
      /\ k \in DOMAIN categories
  BY TypedTables DEF SharedInv, Ready, ItemAdded
<1>2. /\ x \in Things /\ g = [f EXCEPT ![x] = @ + 1]
      /\ \A j : j # k => CountOf(items', j) = CountOf(items, j)
  BY <1>1, MoreCount, SomeThing
<1>3. f = CountOf(items, k) /\ g = CountOf(items', k)
  OBVIOUS
<1> HIDE DEF k, x, f, g
<1>c. PICK c \in Characters :
        \E n \in DOMAIN Pages[c] :
          /\ Pages[c][n] = f
          /\ Pages' = [Pages EXCEPT ![c] = [Pages[c] EXCEPT ![n] = g]]
  BY <1>1, <1>2, <1>3, EntryChanged
<1>4. PICK n \in DOMAIN Pages[c] :
        /\ Pages[c][n] = f
        /\ Pages' = [Pages EXCEPT ![c] = [Pages[c] EXCEPT ![n] = g]]
  BY <1>c
<1>5. Pages' = [Pages EXCEPT ![c] = [Pages[c] EXCEPT ![n][x] = @ + 1]]
  <2>1. PICK p : p = Pages[c]
    OBVIOUS
  <2>2. [p EXCEPT ![n][x] = @ + 1] = [p EXCEPT ![n] = g]
    BY <1>2, <1>4, <2>1
  <2>3. QED
    BY <1>4, <2>1, <2>2
<1>6. Book!AddItem(c, n, x)
  BY <1>5 DEF Book!AddItem, Book!Become, Pages
<1>7. QED
  BY <1>2, <1>6

LEMMA RemovedItemBook ==
  ASSUME SharedInv, NoOrphanItems, NEW i \in DOMAIN items, ItemsRemoved({i}),
         categories' = categories
  PROVE  \E c \in Characters : \E n \in DOMAIN Pages[c], x \in Things :
           Book!RemoveItem(c, n, x)
<1> DEFINE k == items[i].category
           x == items[i].thing
           f == CountOf(items, k)
           g == CountOf(items', k)
<1>1. /\ items \in ItemTable /\ items' \in ItemTable
      /\ DOMAIN items' = DOMAIN items \ {i}
      /\ \A j \in DOMAIN items' : items'[j] = items[j]
      /\ k \in DOMAIN categories
  BY TypedTables DEF SharedInv, NoOrphanItems, ItemsRemoved
<1>2. /\ x \in Things /\ f[x] > 0 /\ g = [f EXCEPT ![x] = @ - 1]
      /\ \A j : j # k => CountOf(items', j) = CountOf(items, j)
  BY <1>1, LessCount
<1>3. f = CountOf(items, k) /\ g = CountOf(items', k)
  OBVIOUS
<1> HIDE DEF k, x, f, g
<1>c. PICK c \in Characters :
        \E n \in DOMAIN Pages[c] :
          /\ Pages[c][n] = f
          /\ Pages' = [Pages EXCEPT ![c] = [Pages[c] EXCEPT ![n] = g]]
  BY <1>1, <1>2, <1>3, EntryChanged
<1>4. PICK n \in DOMAIN Pages[c] :
        /\ Pages[c][n] = f
        /\ Pages' = [Pages EXCEPT ![c] = [Pages[c] EXCEPT ![n] = g]]
  BY <1>c
<1>5. Pages' = [Pages EXCEPT ![c] = [Pages[c] EXCEPT ![n][x] = @ - 1]]
  <2>1. PICK p : p = Pages[c]
    OBVIOUS
  <2>2. [p EXCEPT ![n][x] = @ - 1] = [p EXCEPT ![n] = g]
    BY <1>2, <1>4, <2>1
  <2>3. QED
    BY <1>4, <2>1, <2>2
<1>6. Book!RemoveItem(c, n, x)
  BY <1>2, <1>4, <1>5 DEF Book!RemoveItem, Book!Become, Pages
<1>7. QED
  BY <1>2, <1>6

LEMMA EffectBook ==
  ASSUME SharedInv, Ready, NEW s \in Sessions, Effect(s)
  PROVE  [Book!BookNext]_Pages
<1>1. /\ UniqueNames(categories) /\ NoOrphanItems /\ Single(s)
      /\ Loaded(s) \subseteq DOMAIN categories
      /\ DOMAIN Pages = Characters
  BY DEF SharedInv, Ready, Pages
<1>2. UniqueNames(categories')
  BY EffectShared DEF SharedInv
<1>3. CASE CategoriesEdited(s, {})
  <2>1. Pages' = Pages
    BY <1>1, <1>2, <1>3, SamePages DEF CategoriesEdited
  <2>2. QED
    BY <2>1
<1>4. ASSUME NEW k \in Loaded(s), CategoriesEdited(s, {k})
      PROVE  [Book!BookNext]_Pages
  <2>1. CASE categories'[k].name = categories[k].name
    <3>1. Pages' = Pages
      BY <1>1, <1>2, <1>4, <2>1, SamePages DEF CategoriesEdited
    <3>2. QED
      BY <3>1
  <2>2. CASE categories'[k].name # categories[k].name
    BY <1>1, <1>2, <1>4, <2>2, RenamedBook DEF Book!BookNext, Pages
  <2>3. QED
    BY <2>1, <2>2
<1>5. CASE ItemsEdited(s, {})
  <2>1. Pages' = Pages
    BY <1>5, UnseenEdit
  <2>2. QED
    BY <2>1
<1>6. ASSUME NEW i \in view[s].chosen, ItemsEdited(s, {i})
      PROVE  [Book!BookNext]_Pages
  <2>1. CASE i \in DOMAIN items /\ items'[i].thing # items[i].thing
    BY <1>1, <1>6, <2>1, RewrittenBook DEF Book!BookNext, Pages
  <2>2. CASE i \in DOMAIN items => items'[i].thing = items[i].thing
    <3>1. Pages' = Pages
      BY <1>6, <2>2, UnseenEdit
    <3>2. QED
      BY <3>1
  <2>3. QED
    BY <2>1, <2>2
<1>7. ASSUME NEW k \in CategoryIds, CategoryAdded(s, k)
      PROVE  [Book!BookNext]_Pages
  BY <1>1, <1>7, AddedBook DEF Book!BookNext, Pages
<1>8. ASSUME NEW i \in ItemIds, ItemAdded(s, i)
      PROVE  [Book!BookNext]_Pages
  BY <1>8, AddedItemBook DEF Book!BookNext, Pages
<1>9. ASSUME pc[s] = "item", ItemsRemoved(view[s].chosen), categories' = categories
      PROVE  [Book!BookNext]_Pages
  <2>1. PICK i : view[s].chosen = {i}
    BY <1>1, <1>9 DEF Single
  <2>2. ItemsRemoved({i})
    BY <1>9, <2>1
  <2>3. CASE i \in DOMAIN items
    BY <1>1, <1>9, <2>2, <2>3, RemovedItemBook DEF Book!BookNext, Pages
  <2>4. CASE i \notin DOMAIN items
    <3>1. ItemsEdited(s, {})
      BY <1>9, <2>2, <2>4 DEF ItemsRemoved, ItemsEdited
    <3>2. Pages' = Pages
      BY <3>1, UnseenEdit
    <3>3. QED
      BY <3>2
  <2>5. QED
    BY <2>3, <2>4
<1>10. ASSUME s \in Deleters, pc[s] = "contents", CategoriesRemoved(Loaded(s)),
              ItemsRemoved(DOMAIN view[s].items)
       PROVE  [Book!BookNext]_Pages
  <2>1. PICK k \in DOMAIN categories : Loaded(s) = {k}
    BY <1>1, <1>10 DEF Single
  <2>2. DOMAIN view[s].items = ContentsOf(Loaded(s))
    BY <1>10 DEF Ready
  <2>3. CategoriesRemoved({k}) /\ ItemsRemoved(ContentsOf({k}))
    BY <1>10, <2>1, <2>2
  <2>4. QED
    BY <2>3, RemovedBook DEF Book!BookNext, Pages
<1>11. CASE UNCHANGED db
  BY <1>11 DEF db, Pages
<1>12. QED
  BY <1>3, <1>4, <1>5, <1>6, <1>7, <1>8, <1>9, <1>10, <1>11 DEF Effect

LEMMA StepBook ==
  ASSUME SharedInv, Ready, [Next]_vars
  PROVE  [Book!BookNext]_Pages
<1>1. CASE categories' = categories /\ items' = items
  BY <1>1 DEF Pages
<1>2. ASSUME NEW s \in Sessions, Write(s) PROVE [Book!BookNext]_Pages
  <2>1. Effect(s)
    BY <1>2, WriteEffect DEF SharedInv, Single, Typed
  <2>2. QED
    BY <2>1, EffectBook
<1>3. QED
  BY <1>1, <1>2, StepKinds

-----------------------------------------------------------------------------
(* The theorems.                                                           *)

(***************************************************************************)
(* However many sessions write an inventory, names stay unique and what a  *)
(* request holds is one row of each kind, as Single says.                  *)
(***************************************************************************)
THEOREM SharedInventories == Spec => []SharedInv
<1>1. Init => SharedInv
  BY SharedInit
<1>2. SharedInv /\ [Next]_vars => SharedInv'
  BY SharedStep
<1>3. QED
  BY <1>1, <1>2, PTL DEF Spec

(* Every variable of Inventory keeps its type, whoever writes it.          *)
THEOREM TypeCorrect == Spec => []TypeOK
<1>1. SharedInv => TypeOK
  BY DEF SharedInv
<1>2. QED
  BY <1>1, SharedInventories, PTL

(***************************************************************************)
(* The inductive invariant: if no two sessions write the same character,   *)
(* what a request has read of it is still there when it writes, and a      *)
(* category about to be deleted has the items that were loaded.            *)
(***************************************************************************)
THEOREM ReadsHold == ASSUME OneWriter PROVE Spec => []IInv
<1>1. Init => IInv
  BY InitHolds
<1>2. IInv /\ [Next]_vars => IInv'
  BY StepHolds
<1>3. QED
  BY <1>1, <1>2, PTL DEF Spec

(***************************************************************************)
(* If no two sessions write the same character, or none deletes a          *)
(* category, a request that writes has what it needs: the categories it    *)
(* loaded are there, and so are all the items of one it is to delete.      *)
(***************************************************************************)
THEOREM ReadyToWrite ==
  ASSUME OneWriter \/ Deleters = {}
  PROVE  Spec => []Ready
<1>1. CASE OneWriter
  <2>1. IInv => Ready
    BY TargetsAssumption DEF IInv, Ready, Holds, Reach
  <2>2. QED
    BY <1>1, <2>1, ReadsHold, PTL
<1>2. CASE Deleters = {}
  <2>1. Init => Kept
    BY SharedInit
  <2>2. SharedInv /\ Kept /\ [Next]_vars => Kept'
    BY <1>2, SharedStep
  <2>3. Kept => Ready
    BY <1>2 DEF Kept, Ready
  <2>4. QED
    BY <2>1, <2>2, <2>3, SharedInventories, PTL DEF Spec
<1>3. QED
  BY <1>1, <1>2

(***************************************************************************)
(* Every item is in a category that exists, although no foreign key is     *)
(* enforced: delete_inventory_category deletes the items it has loaded.    *)
(***************************************************************************)
THEOREM NoOrphans ==
  ASSUME OneWriter \/ Deleters = {}
  PROVE  Spec => []NoOrphanItems
<1>1. Ready => NoOrphanItems
  BY DEF Ready
<1>2. QED
  BY <1>1, ReadyToWrite, PTL

(***************************************************************************)
(* If no two sessions write the same character, or none deletes a          *)
(* category, every request that commits shows in the book as one change of *)
(* one category, or not at all.                                            *)
(***************************************************************************)
THEOREM InventoryImplementsBook ==
  ASSUME OneWriter \/ Deleters = {}
  PROVE  Spec => ImplementsBook
<1>1. Init => Book!BookInit
  <2> SUFFICES ASSUME Init PROVE Book!BookInit
    OBVIOUS
  <2>1. ASSUME NEW c \in Characters PROVE PageOf(categories, items, c) = Book!Blank
    BY DEF Init, NoRows, PageOf, Book!Blank
  <2>2. QED
    BY <2>1 DEF Book!BookInit
<1>2. SharedInv /\ Ready /\ [Next]_vars => [Book!BookNext]_Pages
  BY StepBook
<1>3. QED
  BY <1>1, <1>2, SharedInventories, ReadyToWrite, PTL
     DEF Spec, ImplementsBook, Book!BookSpec, Pages
=============================================================================
