------------------------------- MODULE Styles -------------------------------
(***************************************************************************)
(* Styles by name: a list of them, the first one the default, and the      *)
(* sublist of their names a sheet is limited to, which looks them up in    *)
(* the list. Names in a list are distinct.                                 *)
(***************************************************************************)
EXTENDS Naturals, Sequences

CONSTANTS
  Names,     \* the names of styles, in any list or in none
  Locations,
  NoName     \* ""

ASSUME NoNameAssumption == NoName \notin Names

Style == [name : Names, location : Locations]
NoStyle == [name |-> NoName, location |-> NoName]
Elements(seq) == {seq[i] : i \in DOMAIN seq}
NamesOf(list) == {s.name : s \in Elements(list)}

\* Append takes styles until one of them has a name that is there, and says so.
AreNew(list, styles) ==
  \A i \in DOMAIN styles :
    /\ styles[i].name \notin NamesOf(list)
    /\ \A j \in 1..(i - 1) : styles[j].name # styles[i].name

Taken(list, styles) ==
  CHOOSE n \in 0..Len(styles) :
    /\ AreNew(list, SubSeq(styles, 1, n))
    /\ n = Len(styles) \/ ~AreNew(list, SubSeq(styles, 1, n + 1))

AppendTo(list, styles) ==
  [list |-> list \o SubSeq(styles, 1, Taken(list, styles)), exists |-> Taken(list, styles) < Len(styles)]

Answer(style, found) == [style |-> style, found |-> found]
StyleNamed(list, name) == CHOOSE s \in Elements(list) : s.name = name

\* For of the list: a name that is not there gets the default, not found.
ListFor(list, name) ==
  IF list = <<>> THEN Answer(NoStyle, FALSE)
  ELSE IF name = NoName THEN Answer(list[1], TRUE)
  ELSE IF name \in NamesOf(list) THEN Answer(StyleNamed(list, name), TRUE)
  ELSE Answer(list[1], FALSE)

\* Mutant: the names of the sublist are not looked at.
AnyName(list, names, name) ==
  IF names # <<>> /\ name = NoName THEN ListFor(list, names[1]) ELSE ListFor(list, name)

\* For of a sublist; one name alone is found if it is asked for.
SublistFor(list, names, name) ==
  IF names = <<>> THEN ListFor(list, name)
  ELSE IF name = NoName THEN ListFor(list, names[1])
  ELSE IF Len(names) = 1 THEN Answer(ListFor(list, names[1]).style, name = names[1])
  ELSE IF name \in Elements(names) THEN ListFor(list, name)
  ELSE Answer(ListFor(list, names[1]).style, FALSE)

\* The names that Styles of a sublist gives, which are sorted for display.
SublistStyles(list, names) == Elements(names) \cap NamesOf(list)

\* Location2Style: of the styles at a location any one, for no location the default.
Location2Style(list, names) ==
  LET styleOf(name) == SublistFor(list, names, name).style IN
  {e \in {[location |-> styleOf(n).location, name |-> n] : n \in SublistStyles(list, names)} :
     e.location # NoName}
  \cup {[location |-> NoName, name |-> styleOf(NoName).name]}

\* A sheet's styles: those of its names that the list has are found, under
\* their own names; no other is, except that one name alone which the list
\* lacks is found, with the list's first style. What is not found is the
\* sheet's default, or the list's if the sheet has the name but not the list.
\* An entry by location gives that style back, the one without gives the default.
FoundAsNamed(list, names, name) ==
  LET a == SublistFor(list, names, name)
      listed == name \in NamesOf(list)
      allowed == names = <<>> \/ name \in Elements(names)
      default == SublistFor(list, names, NoName).style
      first == ListFor(list, NoName).style
  IN /\ name # NoName =>
          /\ a.found => allowed
          /\ listed /\ allowed => a.found /\ a.style.name = name
          /\ a.found /\ ~listed => names = <<name>> /\ a.style = first
          /\ ~a.found => a.style = default \/ (allowed /\ ~listed /\ a.style = first)
     /\ \A e \in Location2Style(list, names) :
          IF e.location = NoName THEN SublistFor(list, names, e.name).style = default
          ELSE SublistFor(list, names, e.name) = Answer([name |-> e.name, location |-> e.location], TRUE)

\* Append keeps the names of a list distinct, and the styles it has.
AppendKeeps(list, styles) ==
  LET a == AppendTo(list, styles) IN
  /\ \A i, j \in DOMAIN a.list : a.list[i].name = a.list[j].name => i = j
  /\ SubSeq(a.list, 1, Len(list)) = list
  /\ ~a.exists => a.list = list \o styles
=============================================================================
