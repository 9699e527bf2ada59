---------------------------- MODULE MCRenderPage ----------------------------
(***************************************************************************)
(* RenderPage on three families of pages, and a caller of the library      *)
(* beside them.                                                            *)
(***************************************************************************)
EXTENDS RenderPage, ArenaOrder

ASSUME Coll = {"posts"}

Plain == [Nothing EXCEPT !.say = "plain"]

Box == [id |-> 0, parent |-> 0, prev |-> 0, tag |-> "box", repeat |-> NoColl,
        bind |-> NoColl, coll |-> NoColl, field |-> FALSE, name |-> "",
        text |-> Nothing, value |-> Nothing, of |-> 0]

Repeater  == [Box EXCEPT !.repeat = "posts"]
FormRow   == [Box EXCEPT !.tag = "form", !.coll = "posts"]
ListForm  == [FormRow EXCEPT !.repeat = "posts"]
FieldRow  == [Box EXCEPT !.tag = "input", !.field = TRUE]
BoundRow  == [Box EXCEPT !.tag = "input", !.bind = "posts"]
BoundBox  == [Box EXCEPT !.bind = "posts"]
KeyText   == [Box EXCEPT !.tag = "#text", !.text = [Plain EXCEPT !.say = "key"]]
RefText   == [Box EXCEPT !.tag = "#text",
                         !.text = [say |-> "ref", coll |-> "posts", of |-> 0]]
RefBox    == [Box EXCEPT !.value = [say |-> "ref", coll |-> "posts", of |-> 0]]

\* Rows 1, 2, ... with the given parents, each behind the one before it that
\* has the same parent, or with the given left siblings.
Page(kinds, parents, prevs) ==
    [i \in DOMAIN kinds |-> [kinds[i] EXCEPT !.id = 30 + i,
                                             !.parent = IF parents[i] = 0 THEN NoRow ELSE 30 + parents[i],
                                             !.prev = IF prevs[i] = 0 THEN NoRow ELSE 30 + prevs[i]]]

Before(parents, i) == {j \in 1..(i - 1) : parents[j] = parents[i]}

SoundPage(kinds, parents) ==
    Page(kinds, parents,
         [i \in DOMAIN parents |-> IF Before(parents, i) = {} THEN 0 ELSE Max(Before(parents, i))])

\* Three plain rows under each other or themselves, with any left siblings:
\* all that foreign keys let a table be, the row order included.
CorruptPages ==
    {Page(<<Box, Box, Box>>, parents, prevs) : parents, prevs \in [1..3 -> 0..3]}

\* Three rows of any kind in any forest.
ForestsOf3 == {f \in [1..3 -> 0..2] : \A i \in 1..3 : f[i] < i}

Kinds == {Box, Repeater, FormRow, FieldRow, BoundBox, KeyText, RefText}

SmallPages ==
    {SoundPage(kinds, parents) : kinds \in [1..3 -> Kinds], parents \in ForestsOf3}

\* Larger pages, where passes meet.
LargePages ==
    { \* rows behind a template
      SoundPage(<<Repeater, Box, KeyText, Box, RefText>>, <<0, 1, 2, 1, 1>>),
      \* two repeaters, references and bindings of one collection
      SoundPage(<<Repeater, KeyText, Repeater, KeyText>>, <<0, 1, 0, 3>>),
      SoundPage(<<RefText, RefBox, BoundRow, BoundBox>>, <<0, 0, 0, 0>>),
      \* a form in a template, a form that is a repeater, fields outside forms
      SoundPage(<<Repeater, FormRow, FieldRow>>, <<0, 1, 2>>),
      SoundPage(<<ListForm, FieldRow, KeyText>>, <<0, 1, 1>>),
      SoundPage(<<FormRow, Box, FieldRow, FieldRow, FormRow>>, <<0, 1, 2, 0, 1>>),
      \* rows in a circle, with a repeater and with a field in it
      Page(<<Repeater, Box, FieldRow>>, <<2, 1, 0>>, <<0, 0, 0>>),
      Page(<<Box, FieldRow, Box>>, <<2, 1, 0>>, <<0, 0, 0>>),
      Page(<<FormRow, FieldRow, Box>>, <<2, 1, 0>>, <<0, 0, 0>>),
      \* a row below an element of another page
      Page(<<Repeater, KeyText, FieldRow>>, <<0, 1, 9>>, <<0, 0, 0>>) }

\* A repeater inside a template, the outer row first and the inner row first.
NestedPages ==
    { SoundPage(<<Repeater, Repeater, KeyText, Box>>, <<0, 1, 2, 0>>),
      Reverse(SoundPage(<<Repeater, Repeater, KeyText, Box>>, <<0, 1, 2, 0>>)) }

Load(rs, recs, ids, n) ==
    [rows |-> rs, records |-> [c \in Coll |-> recs], supply |-> ids, changes |-> n]

\* New uuids below and above those of the page.
Low == [i \in 1..16 |-> 10 + i]
High == [i \in 1..16 |-> IF i % 2 = 0 THEN 50 + i ELSE 70 - i]

MCLoads ==
    {Load(rs, <<>>, High, 0) : rs \in CorruptPages}
    \cup {Load(rs, recs, Low, 0) : rs \in SmallPages, recs \in {<<>>, <<1, 2>>}}
    \cup {Load(rs, recs, ids, 1) : rs \in LargePages, recs \in {<<1>>, <<1, 2>>}, ids \in {Low, High}}
    \cup {Load(rs, <<1>>, ids, 1) : rs \in NestedPages, ids \in {Low, High}}

MCUuid == {Body} \cup 1..4 \cup 31..36 \cup ToSet(Low) \cup ToSet(High)
=============================================================================
