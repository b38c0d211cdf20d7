------------------------------ MODULE NoteBook ------------------------------
(***************************************************************************)
(* What the note tabs promise: every character that exists has texts under *)
(* distinct titles, and a request changes at most one of them.             *)
(***************************************************************************)
EXTENDS Functions

CONSTANTS Characters, Titles, Default, Texts

VARIABLE book  \* for every character that exists, its texts by title

BookInit == book = [c \in {} |-> Texts]

AddCharacter(c) ==
  /\ c \notin DOMAIN book
  /\ DOMAIN book' = DOMAIN book \cup {c}
  /\ book'[c] \in [{Default} -> Texts]
  /\ Restrict(book', DOMAIN book) = book

Add(c, t, x) ==
  /\ t \notin DOMAIN book[c]
  /\ book' = [book EXCEPT ![c] = [u \in DOMAIN book[c] \cup {t} |->
                                    IF u = t THEN x ELSE book[c][u]]]

Drop(c, t) ==
  book' = [book EXCEPT ![c] = Restrict(@, DOMAIN book[c] \ {t})]

(* Retitled to a title that is free, and written to, at once.              *)
Edit(c, t, u, x) ==
  /\ u \notin DOMAIN book[c] \ {t}
  /\ book' = [book EXCEPT ![c] = [v \in (DOMAIN book[c] \ {t}) \cup {u} |->
                                    IF v = u THEN x ELSE book[c][v]]]

BookNext ==
  \/ \E c \in Characters : AddCharacter(c)
  \/ \E c \in DOMAIN book :
       \/ \E t \in Titles, x \in Texts : Add(c, t, x)
       \/ \E t \in DOMAIN book[c] :
            \/ Drop(c, t)
            \/ \E u \in Titles, x \in Texts : Edit(c, t, u, x)

BookSpec == BookInit /\ [][BookNext]_book
=============================================================================
