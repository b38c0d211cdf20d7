---------------------------- MODULE InventoryBook ----------------------------
(***************************************************************************)
(* What the inventory promises: a character has named categories, each     *)
(* with a number of every thing, and a request is one change of one        *)
(* category.  Neither ids, nor sort orders, nor requests in progress show. *)
(***************************************************************************)
EXTENDS Integers, Functions

CONSTANTS Characters, Names, Things

VARIABLE book  \* for every character, its categories' contents by name

Nothing == [x \in Things |-> 0]
Blank == [n \in {} |-> Nothing]

BookInit == book = [c \in Characters |-> Blank]

Become(c, page) == book' = [book EXCEPT ![c] = page]

AddCategory(c, n) ==
  /\ n \notin DOMAIN book[c]
  /\ Become(c, [m \in DOMAIN book[c] \cup {n} |->
                  IF m = n THEN Nothing ELSE book[c][m]])

RenameCategory(c, n, m) ==
  /\ m \notin DOMAIN book[c]
  /\ Become(c, [k \in (DOMAIN book[c] \ {n}) \cup {m} |->
                  IF k = m THEN book[c][n] ELSE book[c][k]])

RemoveCategory(c, n) == Become(c, Restrict(book[c], DOMAIN book[c] \ {n}))

AddItem(c, n, x) == Become(c, [book[c] EXCEPT ![n][x] = @ + 1])

RemoveItem(c, n, x) == /\ book[c][n][x] > 0
                       /\ Become(c, [book[c] EXCEPT ![n][x] = @ - 1])

RewriteItem(c, n, x, y) ==
  /\ x # y
  /\ book[c][n][x] > 0
  /\ Become(c, [book[c] EXCEPT ![n][x] = @ - 1, ![n][y] = @ + 1])

BookNext ==
  \E c \in Characters :
    \/ \E n \in Names : AddCategory(c, n)
    \/ \E n \in DOMAIN book[c] :
         \/ RemoveCategory(c, n)
         \/ \E m \in Names : RenameCategory(c, n, m)
         \/ \E x \in Things : \/ AddItem(c, n, x)
                              \/ RemoveItem(c, n, x)
                              \/ \E y \in Things : RewriteItem(c, n, x, y)

BookSpec == BookInit /\ [][BookNext]_book
=============================================================================
