------------------------- MODULE MCConcurrentEditor -------------------------
(***************************************************************************)
(* Two requests at a time on small pages.  Every page is one that legal    *)
(* calls lead to, with the revision of each of them.                       *)
(***************************************************************************)
EXTENDS ConcurrentEditor

AllData == SUBSET (Attr \cup Words)

R(p, q, tag, data) == [parent |-> p, prev |-> q, tag |-> tag, data |-> data]

\* A root with a list of a div and a text.
Body == [x \in {1} |-> R(NoElem, NoElem, "div", {})]

Section == [x \in {1, 2} |-> IF x = 1 THEN Body[1] ELSE R(1, NoElem, "div", {})]

Page ==
    [x \in 1..3 |-> IF x = 3 THEN R(1, 2, "#text", {}) ELSE Section[x]]

\* The page of a user who is at the last of her edits, or has undone it: an
\* undo leaves the page without a root_element.
Drawn == [revisions |-> <<Body, Section, Page>>, cursor |-> 3, root |-> 1, last |-> 3]

Undone == [Drawn EXCEPT !.cursor = 2, !.root = NoElem]

\* A list of three, for moves.
List == [x \in 1..3 |-> R(NoElem, IF x = 1 THEN NoElem ELSE x - 1, "div", {})]

Listed ==
    [revisions |-> [s \in 1..3 |-> [x \in 1..s |-> List[x]]], cursor |-> 3, root |-> 1, last |-> 3]

Structure ==
    [page |-> Drawn, budget |-> 2, cuts |-> 1,
     menu |-> {Add(1, "div"), Add(NoElem, "div"), Add(3, "div"),
               AddAfter(2), AddBefore(3), AddBefore(2), Duplicate(2), Wrap(1), Wrap(2), Retag(2, "p"),
               Delete(1), Delete(2), Move(3, 1, NoElem), Move(3, 2, NoElem), Move(2, NoElem, 1),
               Undo}]

Moves ==
    [page |-> Listed, budget |-> 3, cuts |-> 0,
     menu |-> {Move(2, 3, NoElem), Move(3, 2, NoElem), Move(1, 2, NoElem), Delete(3)}]

History ==
    [page |-> Undone, budget |-> 3, cuts |-> 1,
     menu |-> {Undo, Redo, Add(NoElem, "div"), Delete(2), SetAttr(2, "id")}]

Attributes ==
    [page |-> Drawn, budget |-> 3, cuts |-> 0,
     menu |-> {SetAttr(2, "id"), SetAttr(2, "class"), ClearAttr(2, "id"), Text(3, "hello"),
               Wrap(2), Undo}]

AllScenes == {Structure, Moves, History, Attributes}
=============================================================================
