----------------------------- MODULE PartsProofs -----------------------------
(***************************************************************************)
(* The parts of the program that keep no state: whatever case comes, each  *)
(* answers as it should. First the keyed queue, styles and the grating,    *)
(* then the theorems about all parts.                                      *)
(***************************************************************************)
EXTENDS MCParts, Grid5kProofs, GeometryProofs, SequenceTheorems

-----------------------------------------------------------------------------
\* The keyed queue.

\* In a queue of distinct keys Lookup finds the place of a key, if it has one.
LEMMA LookupFindsIt ==
  ASSUME NEW q \in Seq(Item), IsQueue(q), NEW i \in DOMAIN q
  PROVE  Lookup(q, q[i].key) = i
<1>1. DOMAIN q = 1..Len(q) /\ Len(q) \in Nat
  OBVIOUS
<1>2. \A j \in DOMAIN q : q[j].key = q[i].key => j = i
  BY DEF IsQueue
<1>3. \A j \in 1..(i - 1) : q[j].key # q[i].key
  BY <1>1, <1>2
<1> DEFINE P(k) == q[k].key = q[i].key /\ \A j \in 1..(k - 1) : q[j].key # q[i].key
<1>4. (CHOOSE k \in DOMAIN q : P(k)) \in DOMAIN q /\ P(CHOOSE k \in DOMAIN q : P(k))
  <2>1. P(i)
    BY <1>3
  <2> HIDE DEF P
  <2> QED
    BY <2>1
<1>5. Lookup(q, q[i].key) = CHOOSE k \in DOMAIN q : P(k)
  BY DEF Lookup
<1> QED
  BY <1>2, <1>4, <1>5

\* A key that is not there is not found.
LEMMA LookupFindsNone ==
  ASSUME NEW q \in Seq(Item), NEW key, \A i \in DOMAIN q : q[i].key # key
  PROVE  Lookup(q, key) = 0
BY DEF Lookup

\* Taking one element out keeps those before and those behind, in their order.
LEMMA RemoveAtIs ==
  ASSUME NEW q \in Seq(Item), NEW i \in DOMAIN q
  PROVE  /\ RemoveAt(q, i) \in Seq(Item) /\ Len(RemoveAt(q, i)) = Len(q) - 1
         /\ RemoveAt(q, i) = SubSeq(q, 1, i - 1) \o SubSeq(q, i + 1, Len(q))
<1>1. DOMAIN q = 1..Len(q) /\ Len(q) \in Nat /\ i \in 1..Len(q) /\ \A j \in 1..Len(q) : q[j] \in Item
  OBVIOUS
<1> DEFINE r == RemoveAt(q, i)
           front == SubSeq(q, 1, i - 1)
           back == SubSeq(q, i + 1, Len(q))
<1>2. r \in [1..(Len(q) - 1) -> Item] /\ Len(q) - 1 \in Nat
  BY <1>1 DEF RemoveAt
<1>3. r \in Seq(Item) /\ Len(r) = Len(q) - 1
  BY <1>2
<1>4. front \in Seq(Item) /\ Len(front) = i - 1 /\ \A k \in 1..(i - 1) : front[k] = q[k]
  BY <1>1, SubSeqProperties
<1>5. back \in Seq(Item) /\ Len(back) = Len(q) - i /\ \A k \in 1..(Len(q) - i) : back[k] = q[i + k]
  BY <1>1, SubSeqProperties
<1> HIDE DEF front, back
<1> DEFINE both == front \o back
<1>6. /\ both \in Seq(Item) /\ Len(both) = Len(q) - 1
      /\ \A k \in 1..(Len(q) - 1) : both[k] = IF k <= i - 1 THEN front[k] ELSE back[k - (i - 1)]
  <2>1. /\ front \o back \in Seq(Item) /\ Len(front \o back) = Len(front) + Len(back)
        /\ \A k \in 1..(Len(front) + Len(back)) :
             (front \o back)[k] = IF k <= Len(front) THEN front[k] ELSE back[k - Len(front)]
    BY <1>4, <1>5, ConcatProperties, Zenon
  <2>2. Len(front) + Len(back) = Len(q) - 1 /\ Len(front) = i - 1
    BY <1>1, <1>4, <1>5
  <2> QED
    BY <2>1, <2>2
<1>7. \A k \in 1..(Len(q) - 1) : r[k] = IF k < i THEN q[k] ELSE q[k + 1]
  BY DEF RemoveAt
<1> HIDE DEF r, both
<1>8. ASSUME NEW k \in 1..(Len(q) - 1) PROVE r[k] = both[k]
  <2>1. CASE k < i
    <3>1. k \in 1..(i - 1)
      BY <1>1, <2>1
    <3> QED
      BY <1>1, <1>4, <1>6, <1>7, <2>1, <3>1
  <2>2. CASE k >= i
    <3>1. k - (i - 1) \in 1..(Len(q) - i) /\ i + (k - (i - 1)) = k + 1 /\ ~(k < i) /\ ~(k <= i - 1)
      BY <1>1, <2>2
    <3>2. back[k - (i - 1)] = q[k + 1]
      BY <1>5, <3>1
    <3>3. both[k] = back[k - (i - 1)]
      BY <1>6, <3>1
    <3> QED
      BY <1>7, <3>1, <3>2, <3>3
  <2> QED
    BY <1>1, <2>1, <2>2
<1>9. r = both
  BY <1>3, <1>6, <1>8, SeqEqual
<1> QED
  BY <1>3, <1>9 DEF r, front, back, both

\* It also keeps the keys distinct.
LEMMA RemoveAtKeeps ==
  ASSUME NEW q \in Seq(Item), IsQueue(q), NEW i \in DOMAIN q
  PROVE  IsQueue(RemoveAt(q, i))
<1> DEFINE r == RemoveAt(q, i)
<1>1. r \in Seq(Item) /\ Len(r) = Len(q) - 1 /\ DOMAIN r = 1..(Len(q) - 1) /\ Len(q) \in Nat /\ i \in 1..Len(q)
  BY RemoveAtIs
<1>2. \A k \in DOMAIN r : r[k] = IF k < i THEN q[k] ELSE q[k + 1]
  BY DEF RemoveAt
<1>3. \A k, l \in 1..Len(q) : q[k].key = q[l].key => k = l
  BY DEF IsQueue
<1> HIDE DEF r
<1>4. ASSUME NEW k \in DOMAIN r, NEW l \in DOMAIN r, r[k].key = r[l].key PROVE k = l
  <2> DEFINE a == IF k < i THEN k ELSE k + 1
             b == IF l < i THEN l ELSE l + 1
  <2>1. a \in 1..Len(q) /\ b \in 1..Len(q) /\ r[k] = q[a] /\ r[l] = q[b]
    BY <1>1, <1>2
  <2>2. a = b
    BY <1>3, <1>4, <2>1
  <2> QED
    BY <1>1, <2>2
<1>5. Len(r) <= Cap
  <2>1. Len(q) <= Cap
    BY DEF IsQueue
  <2> QED
    BY <1>1, <2>1, CapAssumption
<1> QED
  BY <1>4, <1>5 DEF IsQueue, r

\* Pushing a new key.
LEMMA PushIs ==
  ASSUME NEW q \in Seq(Item), IsQueue(q), NEW key \in Keys, NEW val \in Values,
         Push(q, key, val).err = "none"
  PROVE  /\ \A i \in DOMAIN q : q[i].key # key
         /\ Push(q, key, val).queue = q \o <<[key |-> key, val |-> val]>>
         /\ IsQueue(Push(q, key, val).queue)
         /\ Get(Push(q, key, val).queue, key).val = val
<1> DEFINE e == [key |-> key, val |-> val]
           r == Append(q, e)
<1>1. Lookup(q, key) = 0 /\ Len(q) # Cap /\ Push(q, key, val).queue = r
  BY DEF Push, Result
<1>2. ASSUME NEW i \in DOMAIN q PROVE q[i].key # key
  <2>1. i # 0
    OBVIOUS
  <2> QED
    BY <1>1, <2>1, LookupFindsIt
<1>3. e \in Item
  BY DEF Item
<1>4. /\ r \in Seq(Item) /\ Len(r) = Len(q) + 1 /\ DOMAIN r = 1..(Len(q) + 1) /\ DOMAIN q = 1..Len(q)
      /\ Len(q) \in Nat /\ \A k \in 1..Len(q) : r[k] = q[k]
      /\ r[Len(q) + 1] = e
  BY <1>3
<1>5. e.key = key /\ e.val = val
  OBVIOUS
<1>6. r = q \o <<e>>
  BY <1>3, AppendIsConcat
<1> HIDE DEF r, e
<1>7. ASSUME NEW k \in DOMAIN r, NEW l \in DOMAIN r, r[k].key = r[l].key PROVE k = l
  <2>1. CASE k \in DOMAIN q /\ l \in DOMAIN q
    BY <1>4, <1>7, <2>1 DEF IsQueue
  <2>2. CASE k \in DOMAIN q /\ l = Len(q) + 1
    BY <1>2, <1>4, <1>5, <1>7, <2>2
  <2>3. CASE k = Len(q) + 1 /\ l \in DOMAIN q
    BY <1>2, <1>4, <1>5, <1>7, <2>3
  <2> QED
    BY <1>4, <2>1, <2>2, <2>3
<1>8. IsQueue(r)
  <2>1. Len(r) <= Cap
    <3>1. Len(q) <= Cap
      BY DEF IsQueue
    <3>2. Len(r) = Len(q) + 1 /\ Len(q) \in Nat /\ Len(q) # Cap
      BY <1>1, <1>4
    <3> QED
      BY <3>1, <3>2, CapAssumption
  <2> QED
    BY <1>7, <2>1 DEF IsQueue
<1>9. Lookup(r, key) = Len(q) + 1
  BY <1>4, <1>5, <1>8, LookupFindsIt
<1>10. Get(r, key).val = val
  BY <1>4, <1>5, <1>9 DEF Get, Result
<1> QED
  BY <1>1, <1>2, <1>6, <1>8, <1>10 DEF e

\* Each operation is that of the plain queue, at any length up to any size.
LEMMA QueueMatches ==
  ASSUME NEW q \in Seq(Item), IsQueue(q), NEW key \in Keys, NEW val \in Values
  PROVE  MatchesReference(q, key, val)
<1>1. DOMAIN q = 1..Len(q) /\ Len(q) \in Nat
  OBVIOUS
<1> DEFINE Holds == \E i \in DOMAIN q : q[i].key = key
<1>2. ASSUME Push(q, key, val).err = "ErrNoSpace" PROVE ~Holds
  <2>1. Lookup(q, key) = 0
    BY <1>2 DEF Push, Result
  <2> QED
    BY <1>1, <2>1, LookupFindsIt
<1>3. ASSUME NEW i \in DOMAIN q, q[i].key = key
      PROVE  /\ Remove(q, key).queue = RemoveAt(q, i)
             /\ Remove(q, key).queue = SubSeq(q, 1, i - 1) \o SubSeq(q, i + 1, Len(q))
  <2>1. Lookup(q, key) = i /\ i # 0
    BY <1>1, <1>3, LookupFindsIt
  <2>2. Remove(q, key).queue = RemoveAt(q, i)
    BY <2>1 DEF Remove, Result
  <2> QED
    BY <2>2, RemoveAtIs
<1>4. ASSUME ~Holds PROVE Remove(q, key).queue = q
  BY <1>4, LookupFindsNone DEF Remove, Result
<1>5. ASSUME q # <<>> PROVE /\ Pop(q).queue = RemoveAt(q, 1) /\ 1 \in DOMAIN q
                            /\ Pop(q).queue = Tail(q) /\ Pop(q).key = Head(q).key
  <2>1. 1 \in DOMAIN q
    BY <1>1, <1>5, EmptySeq
  <2>2. Pop(q).queue = RemoveAt(q, 1) /\ Pop(q).key = q[1].key
    BY <1>5 DEF Pop, Result
  <2>3. RemoveAt(q, 1) \in Seq(Item) /\ Len(RemoveAt(q, 1)) = Len(q) - 1
    BY <2>1, RemoveAtIs
  <2>4. Tail(q) \in Seq(Item) /\ Len(Tail(q)) = Len(q) - 1 /\ \A k \in 1..(Len(q) - 1) : Tail(q)[k] = q[k + 1]
    BY <1>5, HeadTailProperties
  <2>5. \A k \in 1..(Len(q) - 1) : RemoveAt(q, 1)[k] = q[k + 1]
    BY DEF RemoveAt
  <2>6. RemoveAt(q, 1) = Tail(q)
    BY <2>3, <2>4, <2>5, SeqEqual
  <2>7. Head(q) = q[1]
    BY <1>5
  <2> QED
    BY <2>1, <2>2, <2>6, <2>7
<1>6. IsQueue(Push(q, key, val).queue)
  <2>1. CASE Push(q, key, val).err = "none"
    BY <2>1, PushIs
  <2>2. CASE Push(q, key, val).err # "none"
    BY <2>2 DEF Push, Result
  <2> QED
    BY <2>1, <2>2
<1>7. IsQueue(Remove(q, key).queue)
  BY <1>3, <1>4, RemoveAtKeeps
<1>8. IsQueue(Pop(q).queue)
  <2>1. CASE q = <<>>
    BY <2>1 DEF Pop, Result
  <2> QED
    BY <1>5, <2>1, RemoveAtKeeps
<1>9. \A r \in {Push(q, key, val), Remove(q, key), Pop(q)} : IsQueue(r.queue)
  BY <1>6, <1>7, <1>8
<1>10. Push(q, key, val).err = "none" =>
         /\ Get(Push(q, key, val).queue, key).val = val
         /\ ~Holds /\ Push(q, key, val).queue = q \o <<[key |-> key, val |-> val]>>
  BY PushIs
<1> HIDE DEF Holds
<1> QED
  BY <1>2, <1>3, <1>4, <1>5, <1>9, <1>10 DEF MatchesReference, Holds

-----------------------------------------------------------------------------
\* Styles.

Distinct(list) == \A i, j \in DOMAIN list : list[i].name = list[j].name => i = j

\* What the list answers: the style of that name if there is one, the first
\* style, not found, for any other name.
LEMMA ListAnswers ==
  ASSUME NEW list \in Seq(Style), NEW name, name # NoName
  PROVE  /\ ListFor(list, name).found => /\ name \in NamesOf(list)
                                         /\ ListFor(list, name).style \in Elements(list)
                                         /\ ListFor(list, name).style.name = name
         /\ ~ListFor(list, name).found => name \notin NamesOf(list)
         /\ ~ListFor(list, name).found => ListFor(list, name).style = ListFor(list, NoName).style
         /\ name \in NamesOf(list) =>
              /\ ListFor(list, name) = Answer(StyleNamed(list, name), TRUE)
              /\ ListFor(list, name).found
<1>1. ASSUME name \in NamesOf(list)
      PROVE  /\ list # <<>>
             /\ StyleNamed(list, name) \in Elements(list) /\ StyleNamed(list, name).name = name
  <2>1. PICK s \in Elements(list) : s.name = name
    BY <1>1 DEF NamesOf
  <2>2. list # <<>>
    BY <2>1, EmptySeq DEF Elements
  <2> QED
    BY <2>1, <2>2 DEF StyleNamed
<1>2. CASE name \in NamesOf(list)
  <2>1. ListFor(list, name) = Answer(StyleNamed(list, name), TRUE)
    BY <1>1, <1>2 DEF ListFor
  <2> QED
    BY <1>1, <1>2, <2>1 DEF Answer
<1>3. CASE name \notin NamesOf(list)
  <2>1. ~ListFor(list, name).found /\ ListFor(list, name).style = ListFor(list, NoName).style
    BY <1>3 DEF ListFor, Answer
  <2> QED
    BY <1>3, <2>1
<1> QED
  BY <1>2, <1>3

\* Names are distinct: a style of the list is the one with its name.
LEMMA NamedIsIt ==
  ASSUME NEW list \in Seq(Style), Distinct(list), NEW s \in Elements(list)
  PROVE  s.name \in NamesOf(list) /\ StyleNamed(list, s.name) = s
<1>1. s.name \in NamesOf(list)
  BY DEF NamesOf
<1>2. ASSUME NEW u \in Elements(list), u.name = s.name PROVE u = s
  BY <1>2 DEF Distinct, Elements
<1> QED
  BY <1>1, <1>2 DEF StyleNamed

\* The default of a sheet: a style of the list, unless there is none.
LEMMA DefaultIs ==
  ASSUME NEW list \in Seq(Style), NEW names \in Seq(Names)
  PROVE  /\ names = <<>> => SublistFor(list, names, NoName) = ListFor(list, NoName)
         /\ names # <<>> => SublistFor(list, names, NoName) = ListFor(list, names[1])
         /\ \/ list = <<>> /\ SublistFor(list, names, NoName).style = NoStyle
            \/ SublistFor(list, names, NoName).style \in Elements(list)
         /\ names # <<>> /\ names[1] \notin NamesOf(list) =>
              SublistFor(list, names, NoName).style = ListFor(list, NoName).style
<1>1. names # <<>> => names[1] # NoName
  BY EmptySeq, NoNameAssumption
<1>2. /\ names = <<>> => SublistFor(list, names, NoName) = ListFor(list, NoName)
      /\ names # <<>> => SublistFor(list, names, NoName) = ListFor(list, names[1])
  BY DEF SublistFor
<1>3. names # <<>> /\ names[1] \notin NamesOf(list) => ListFor(list, names[1]).style = ListFor(list, NoName).style
  BY <1>1, ListAnswers
<1>4. CASE list = <<>>
  BY <1>2, <1>3, <1>4 DEF ListFor, Answer
<1>5. CASE list # <<>>
  <2>1. list[1] \in Elements(list)
    BY <1>5, EmptySeq DEF Elements
  <2>2. ListFor(list, NoName).style = list[1]
    BY <1>5 DEF ListFor, Answer
  <2>3. names # <<>> => ListFor(list, names[1]).style \in Elements(list)
    BY <1>1, <2>1, <2>2, ListAnswers
  <2> QED
    BY <1>2, <1>3, <2>1, <2>2, <2>3
<1> QED
  BY <1>4, <1>5

\* What a sheet answers for a name, by how the name stands to its names.
LEMMA SheetAnswers ==
  ASSUME NEW list \in Seq(Style), NEW names \in Seq(Names), NEW name, name # NoName
  PROVE  /\ names = <<>> => SublistFor(list, names, name) = ListFor(list, name)
         /\ names # <<>> /\ name \notin Elements(names) =>
              SublistFor(list, names, name) = Answer(SublistFor(list, names, NoName).style, FALSE)
         /\ Len(names) # 1 /\ name \in Elements(names) => SublistFor(list, names, name) = ListFor(list, name)
         /\ Len(names) = 1 /\ name \in Elements(names) =>
              /\ names = <<name>>
              /\ SublistFor(list, names, name) = Answer(ListFor(list, name).style, TRUE)
<1>1. /\ Elements(names) = {names[i] : i \in 1..Len(names)} /\ Len(names) \in Nat
      /\ Len(names) = 0 <=> names = <<>>
  BY EmptySeq DEF Elements
<1>2. names # <<>> => names[1] \in Elements(names)
  BY <1>1
<1>3. CASE names = <<>>
  <2>1. name \notin Elements(names)
    BY <1>1, <1>3
  <2> QED
    BY <1>1, <1>3, <2>1 DEF SublistFor
<1>4. CASE names # <<>> /\ Len(names) = 1
  <2>1. SublistFor(list, names, name) = Answer(ListFor(list, names[1]).style, name = names[1])
    BY <1>4 DEF SublistFor
  <2>2. name \in Elements(names) <=> name = names[1]
    BY <1>1, <1>2, <1>4
  <2>3. name = names[1] => names = <<name>>
    BY <1>4
  <2> QED
    BY <1>4, <2>1, <2>2, <2>3, DefaultIs
<1>5. CASE names # <<>> /\ Len(names) # 1
  BY <1>5, DefaultIs DEF SublistFor
<1> QED
  BY <1>3, <1>4, <1>5

\* Lookup in any list limited to any names.
LEMMA FoundUnderItsName ==
  ASSUME NEW list \in Seq(Style), Distinct(list), NEW names \in Seq(Names), NEW name
  PROVE  FoundAsNamed(list, names, name)
<1> DEFINE answer(n) == SublistFor(list, names, n)
           listed(n) == n \in NamesOf(list)
           allowed(n) == names = <<>> \/ n \in Elements(names)
           default == SublistFor(list, names, NoName).style
           first == ListFor(list, NoName).style
<1>1. ASSUME NEW n, n # NoName
      PROVE  /\ answer(n).found => allowed(n)
             /\ listed(n) /\ allowed(n) =>
                  /\ answer(n).found /\ answer(n).style.name = n
                  /\ answer(n) = Answer(StyleNamed(list, n), TRUE)
             /\ answer(n).found /\ ~listed(n) => names = <<n>> /\ answer(n).style = first
             /\ ~answer(n).found => answer(n).style = default \/ (allowed(n) /\ ~listed(n) /\ answer(n).style = first)
  <2>1. /\ listed(n) => /\ ListFor(list, n) = Answer(StyleNamed(list, n), TRUE) /\ ListFor(list, n).found
                        /\ ListFor(list, n).style.name = n /\ ListFor(list, n).style = StyleNamed(list, n)
        /\ ~listed(n) => ~ListFor(list, n).found /\ ListFor(list, n).style = first
    BY <1>1, ListAnswers DEF Answer
  <2>2. CASE names = <<>>
    BY <1>1, <2>1, <2>2, SheetAnswers
  <2>3. CASE names # <<>> /\ n \notin Elements(names)
    <3>1. answer(n) = Answer(default, FALSE)
      BY <1>1, <2>3, SheetAnswers
    <3>2. ~answer(n).found /\ answer(n).style = default
      BY <3>1 DEF Answer
    <3> QED
      BY <2>3, <3>2
  <2>4. CASE names # <<>> /\ n \in Elements(names) /\ Len(names) # 1
    BY <1>1, <2>1, <2>4, SheetAnswers
  <2>5. CASE names # <<>> /\ n \in Elements(names) /\ Len(names) = 1
    <3>1. names = <<n>> /\ answer(n) = Answer(ListFor(list, n).style, TRUE)
      BY <1>1, <2>5, SheetAnswers
    <3>2. answer(n).found /\ answer(n).style = ListFor(list, n).style
      BY <3>1 DEF Answer
    <3> QED
      BY <2>1, <2>5, <3>1, <3>2
  <2> QED
    BY <2>2, <2>3, <2>4, <2>5
<1>2. ASSUME NEW e \in Location2Style(list, names), e.location # NoName
      PROVE  answer(e.name) = Answer([name |-> e.name, location |-> e.location], TRUE)
  <2>1. PICK n \in SublistStyles(list, names) : e = [location |-> answer(n).style.location, name |-> n]
    BY <1>2 DEF Location2Style
  <2>2. n # NoName /\ listed(n) /\ allowed(n)
    BY NoNameAssumption DEF SublistStyles, Elements
  <2>3. answer(n) = Answer(StyleNamed(list, n), TRUE) /\ answer(n).style = StyleNamed(list, n)
    BY <1>1, <2>2 DEF Answer
  <2>4. StyleNamed(list, n) \in Style /\ StyleNamed(list, n).name = n
    <3>1. Elements(list) \subseteq Style
      BY DEF Elements
    <3> QED
      BY <2>2, <3>1 DEF NamesOf, StyleNamed
  <2>5. StyleNamed(list, n) = [name |-> e.name, location |-> e.location]
    BY <2>1, <2>3, <2>4 DEF Style
  <2> QED
    BY <2>1, <2>3, <2>5
<1>3. answer(default.name).style = default
  <2> DEFINE n == default.name
  <2>1. CASE list = <<>> /\ default = NoStyle
    <3>1. n = NoName
      BY <2>1 DEF NoStyle
    <3> QED
      BY <3>1
  <2>2. CASE default \in Elements(list)
    <3>1. listed(n) /\ StyleNamed(list, n) = default
      BY <2>2, NamedIsIt
    <3>2. n # NoName
      <4>1. Elements(list) \subseteq Style
        BY DEF Elements
      <4> QED
        BY <2>2, <4>1, NoNameAssumption DEF Style
    <3> HIDE DEF n, default
    <3>3. CASE allowed(n)
      <4>1. answer(n) = Answer(StyleNamed(list, n), TRUE)
        BY <1>1, <3>1, <3>2, <3>3
      <4> QED
        BY <3>1, <4>1 DEF Answer, n
    <3>4. CASE ~allowed(n)
      <4>1. answer(n) = Answer(default, FALSE)
        BY <3>2, <3>4, SheetAnswers DEF default
      <4> QED
        BY <4>1 DEF Answer, n
    <3> QED
      BY <3>3, <3>4
  <2> QED
    BY <2>1, <2>2, DefaultIs
<1>4. ASSUME NEW e \in Location2Style(list, names), e.location = NoName
      PROVE  answer(e.name).style = default
  <2>1. e = [location |-> NoName, name |-> default.name]
    BY <1>4 DEF Location2Style
  <2> QED
    BY <1>3, <2>1
<1>5. \A e \in Location2Style(list, names) :
        IF e.location = NoName THEN answer(e.name).style = default
        ELSE answer(e.name) = Answer([name |-> e.name, location |-> e.location], TRUE)
  BY <1>2, <1>4
<1> QED
  BY <1>1, <1>5 DEF FoundAsNamed

\* How far Append gets is well defined: no style is always new.
LEMMA TakenIs ==
  ASSUME NEW list \in Seq(Style), NEW styles \in Seq(Style)
  PROVE  /\ Taken(list, styles) \in 0..Len(styles)
         /\ AreNew(list, SubSeq(styles, 1, Taken(list, styles)))
<1> DEFINE fits(n) == AreNew(list, SubSeq(styles, 1, n))
           stop == {n \in Nat : n = Len(styles) \/ ~fits(n + 1)}
<1>1. Len(styles) \in Nat
  OBVIOUS
<1>2. PICK n \in stop : \A m \in stop : n <= m
  <2>1. stop \in SUBSET Nat /\ Len(styles) \in stop
    BY <1>1
  <2> HIDE DEF stop
  <2> QED
    BY <2>1, NatMin
<1>3. n \in 0..Len(styles)
  BY <1>1, <1>2
<1>4. fits(n)
  <2>1. CASE n = 0
    <3>1. SubSeq(styles, 1, 0) = <<>>
      BY SubSeqEmpty
    <3> QED
      BY <2>1, <3>1 DEF AreNew
  <2>2. CASE n # 0
    <3>1. n - 1 \in Nat /\ (n - 1) + 1 = n /\ n \in Nat /\ ~(n <= n - 1)
      BY <1>1, <1>3, <2>2
    <3>2. n - 1 \notin stop
      <4> HIDE DEF stop
      <4> QED
        BY <1>2, <3>1
    <3> HIDE DEF fits
    <3> QED
      BY <3>1, <3>2
  <2> QED
    BY <2>1, <2>2
<1> DEFINE P(k) == fits(k) /\ (k = Len(styles) \/ ~fits(k + 1))
<1>5. P(n)
  BY <1>2, <1>4
<1>6. Taken(list, styles) = CHOOSE k \in 0..Len(styles) : P(k)
  BY DEF Taken
<1>7. (CHOOSE k \in 0..Len(styles) : P(k)) \in 0..Len(styles) /\ P(CHOOSE k \in 0..Len(styles) : P(k))
  <2> HIDE DEF P, fits
  <2> QED
    BY <1>3, <1>5
<1> QED
  BY <1>6, <1>7

\* Appending any styles to any list of distinct names.
LEMMA AppendedIsKept ==
  ASSUME NEW list \in Seq(Style), Distinct(list), NEW styles \in Seq(Style)
  PROVE  AppendKeeps(list, styles)
<1> DEFINE n == Taken(list, styles)
           new == SubSeq(styles, 1, n)
           all == list \o new
           a == AppendTo(list, styles)
<1>1. n \in 0..Len(styles) /\ AreNew(list, new) /\ Len(styles) \in Nat /\ Len(list) \in Nat
  BY TakenIs
<1> HIDE DEF n
<1>2. new \in Seq(Style) /\ Len(new) = n
  <2>1. n \in Int /\ \A i \in 1..n : styles[i] \in Style
    BY <1>1
  <2>2. /\ SubSeq(styles, 1, n) \in Seq(Style)
        /\ Len(SubSeq(styles, 1, n)) = IF 1 <= n THEN n - 1 + 1 ELSE 0
    BY <2>1, SubSeqProperties
  <2> QED
    BY <1>1, <2>2
<1>3. a.list = all /\ (a.exists <=> n < Len(styles))
  BY DEF AppendTo, n
<1> HIDE DEF new, a
<1>4. /\ all \in Seq(Style) /\ Len(all) = Len(list) + n
      /\ \A i \in 1..(Len(list) + n) : all[i] = IF i <= Len(list) THEN list[i] ELSE new[i - Len(list)]
  BY <1>2, ConcatProperties, Zenon
<1> HIDE DEF all
<1>5. DOMAIN all = 1..(Len(list) + n) /\ DOMAIN list = 1..Len(list) /\ DOMAIN new = 1..n
  BY <1>2, <1>4
<1>6. \A i \in DOMAIN list : all[i] = list[i] /\ list[i].name \in NamesOf(list)
  BY <1>1, <1>4, <1>5 DEF NamesOf, Elements
<1>7. /\ \A i \in DOMAIN new : new[i].name \notin NamesOf(list)
      /\ \A i, j \in DOMAIN new : j < i => new[j].name # new[i].name
  <2>1. AreNew(list, new)
    BY <1>1
  <2> QED
    BY <1>1, <1>5, <2>1 DEF AreNew
<1>8. ASSUME NEW i \in DOMAIN all
      PROVE  \/ i \in DOMAIN list
             \/ i > Len(list) /\ i - Len(list) \in DOMAIN new /\ all[i] = new[i - Len(list)]
  BY <1>1, <1>4, <1>5
<1>9. ASSUME NEW i \in DOMAIN all, NEW j \in DOMAIN all, all[i].name = all[j].name
      PROVE  i = j
  <2>0. i \in Int /\ j \in Int
    BY <1>1, <1>5
  <2>1. CASE i \in DOMAIN list /\ j \in DOMAIN list
    BY <1>6, <1>9, <2>1 DEF Distinct
  <2>2. CASE i \in DOMAIN list /\ j \notin DOMAIN list
    <3>1. all[i].name \in NamesOf(list)
      BY <1>6, <2>2, Zenon
    <3>2. all[j].name \notin NamesOf(list)
      BY <1>7, <1>8, <2>2, Zenon
    <3> QED
      BY <1>9, <3>1, <3>2, Zenon
  <2>3. CASE i \notin DOMAIN list /\ j \in DOMAIN list
    <3>1. all[j].name \in NamesOf(list)
      BY <1>6, <2>3, Zenon
    <3>2. all[i].name \notin NamesOf(list)
      BY <1>7, <1>8, <2>3, Zenon
    <3> QED
      BY <1>9, <3>1, <3>2, Zenon
  <2>4. CASE i \notin DOMAIN list /\ j \notin DOMAIN list
    <3> DEFINE k == i - Len(list)
               l == j - Len(list)
    <3>1. k \in DOMAIN new /\ l \in DOMAIN new /\ all[i] = new[k] /\ all[j] = new[l]
      BY <1>8, <2>4, Zenon
    <3>2. k \in Int /\ l \in Int
      BY <1>1, <2>0
    <3> HIDE DEF k, l
    <3>3. ~(k < l) /\ ~(l < k)
      BY <1>7, <1>9, <3>1, Zenon
    <3>4. k = l
      BY <3>2, <3>3
    <3> QED
      BY <1>1, <2>0, <3>4 DEF k, l
  <2> QED
    BY <2>1, <2>2, <2>3, <2>4
<1>10. SubSeq(all, 1, Len(list)) = list
  <2>1. Len(list) \in Int /\ \A i \in 1..Len(list) : all[i] \in Style
    BY <1>1, <1>5, <1>6
  <2> DEFINE sub == SubSeq(all, 1, Len(list))
  <2>2. /\ sub \in Seq(Style)
        /\ Len(sub) = IF 1 <= Len(list) THEN Len(list) - 1 + 1 ELSE 0
        /\ \A i \in 1..(Len(list) - 1 + 1) : sub[i] = all[1 + i - 1]
    BY <2>1, SubSeqProperties
  <2> HIDE DEF sub
  <2>3. Len(sub) = Len(list) /\ \A i \in 1..Len(list) : sub[i] = list[i]
    <3>1. Len(sub) = Len(list)
      BY <1>1, <2>2
    <3>2. ASSUME NEW i \in 1..Len(list) PROVE sub[i] = list[i]
      <4>1. i \in 1..(Len(list) - 1 + 1) /\ 1 + i - 1 = i
        BY <1>1
      <4> QED
        BY <1>5, <1>6, <2>2, <4>1
    <3> QED
      BY <3>1, <3>2
  <2>4. sub = list
    BY <2>2, <2>3, SeqEqual
  <2> QED
    BY <2>4 DEF sub
<1>11. ASSUME ~a.exists PROVE all = list \o styles
  <2>1. n = Len(styles)
    BY <1>1, <1>3, <1>11
  <2>2. new = styles
    <3>1. SubSeq(styles, 1, Len(styles)) = styles
      BY SubSeqFull, Zenon
    <3> QED
      BY <2>1, <3>1 DEF new
  <2> QED
    BY <2>2 DEF all
<1> QED
  BY <1>3, <1>9, <1>10, <1>11 DEF AppendKeeps, a

-----------------------------------------------------------------------------
\* The grating.
Letter == 0..(Letters - 1)

\* Label is what its recursion says.
LEMMA LabelUnfolds ==
  \A row \in Nat : Label[row] = IF row < Letters THEN <<row>> ELSE Label[row \div Letters - 1] \o <<row % Letters>>
<1> DEFINE size == [row \in Nat |-> row \div Letters]
           prev == [row \in Nat |-> IF row < Letters THEN 0 ELSE row \div Letters - 1]
           base == [row \in Nat |-> IF row < Letters THEN <<row>> ELSE <<>>]
           step == [p \in Nat \X Seq(Letter) |-> p[2] \o <<p[1] % Letters>>]
<1>0. Letters \in Nat \ {0}
  BY LettersAssumption
<1>1. PICK f : IsRecursive(f, Nat, Seq(Letter), size, prev, base, step)
  <2>1. size \in [Nat -> Nat] /\ prev \in [Nat -> Nat]
    <3>1. ASSUME NEW row \in Nat
          PROVE row \div Letters \in Nat /\ (~(row < Letters) => row \div Letters - 1 \in Nat)
      BY <1>0, QuotientIsSmaller
    <3> QED
      BY <3>1
  <2>2. base \in [Nat -> Seq(Letter)]
    <3>1. ASSUME NEW row \in Nat PROVE (IF row < Letters THEN <<row>> ELSE <<>>) \in Seq(Letter)
      <4>1. row < Letters => row \in Letter
        BY <1>0 DEF Letter
      <4> QED
        BY <4>1
    <3> QED
      BY <3>1
  <2>3. step \in [Nat \X Seq(Letter) -> Seq(Letter)]
    <3>1. ASSUME NEW p \in Nat \X Seq(Letter) PROVE p[2] \o <<p[1] % Letters>> \in Seq(Letter)
      <4>1. p[1] % Letters \in Letter /\ p[2] \in Seq(Letter)
        BY <1>0 DEF Letter
      <4>2. <<p[1] % Letters>> \in Seq(Letter)
        BY <4>1
      <4> QED
        BY <4>1, <4>2, ConcatProperties
    <3> QED
      BY <3>1
  <2>4. ASSUME NEW row \in Nat, size[row] # 0 PROVE size[prev[row]] < size[row]
    <3>1. ~(row < Letters) /\ row \div Letters \in Nat
      BY <1>0, <2>4, QuotientIsSmaller
    <3> DEFINE q == row \div Letters
    <3>2. q - 1 \in Nat
      BY <2>4, <3>1
    <3>3. prev[row] = q - 1 /\ size[q - 1] = (q - 1) \div Letters /\ size[row] = q
      BY <3>1, <3>2
    <3>4. (q - 1) \div Letters <= q - 1 /\ (q - 1) \div Letters \in Nat /\ q \in Nat
      BY <1>0, <3>1, <3>2, QuotientIsSmaller
    <3> HIDE DEF q, size, prev
    <3> QED
      BY <3>2, <3>3, <3>4
  <2>5. GetsSmaller(Nat, Seq(Letter), size, prev, base, step)
    <3> HIDE DEF size, prev, base, step
    <3> QED
      BY <2>1, <2>2, <2>3, <2>4 DEF GetsSmaller
  <2> HIDE DEF size, prev, base, step
  <2> QED
    BY <2>5, RecursionHasAFunction
<1>2. ASSUME NEW row \in Nat
      PROVE  f[row] = IF row < Letters THEN <<row>> ELSE f[row \div Letters - 1] \o <<row % Letters>>
  <2>1. /\ f \in [Nat -> Seq(Letter)]
        /\ f[row] = IF size[row] = 0 THEN base[row] ELSE step[<<row, f[prev[row]]>>]
    BY <1>1, Zenon DEF IsRecursive
  <2>2. size[row] = 0 <=> row < Letters
    BY <1>0, QuotientIsSmaller
  <2>3. row < Letters => base[row] = <<row>>
    OBVIOUS
  <2>4. ~(row < Letters) => prev[row] = row \div Letters - 1 /\ prev[row] \in Nat
    BY <1>0, QuotientIsSmaller
  <2>5. \A v \in Seq(Letter) : step[<<row, v>>] = v \o <<row % Letters>>
    OBVIOUS
  <2> HIDE DEF size, prev, base, step
  <2>6. CASE row < Letters
    BY <2>1, <2>2, <2>3, <2>6
  <2>7. CASE ~(row < Letters)
    <3>1. f[row] = step[<<row, f[prev[row]]>>] /\ f[prev[row]] \in Seq(Letter)
      BY <2>1, <2>2, <2>4, <2>7
    <3>2. step[<<row, f[prev[row]]>>] = f[prev[row]] \o <<row % Letters>>
      BY <2>5, <3>1
    <3> QED
      BY <2>4, <2>7, <3>1, <3>2
  <2> QED
    BY <2>6, <2>7
<1> HIDE DEF size, prev, base, step
<1>3. f = [row \in Nat |-> IF row < Letters THEN <<row>> ELSE f[row \div Letters - 1] \o <<row % Letters>>]
  <2>1. f \in [Nat -> Seq(Letter)]
    BY <1>1 DEF IsRecursive
  <2>2. f = [row \in Nat |-> f[row]]
    BY <2>1
  <2> QED
    BY <1>2, <2>2
<1>4. Label = [row \in Nat |-> IF row < Letters THEN <<row>> ELSE Label[row \div Letters - 1] \o <<row % Letters>>]
  BY <1>3 DEF Label
<1> HIDE DEF Label
<1> QED
  BY <1>4

\* Cutting off the last letter.
LEMMA FrontIs ==
  ASSUME NEW label \in Seq(Letter) \ {<<>>}, Len(label) # 1
  PROVE  /\ SubSeq(label, 1, Len(label) - 1) \in Seq(Letter) \ {<<>>}
         /\ Len(SubSeq(label, 1, Len(label) - 1)) = Len(label) - 1
         /\ Len(label) - 2 \in Nat
<1> DEFINE n == Len(label)
           front == SubSeq(label, 1, n - 1)
<1>1. n \in Nat /\ n # 0 /\ n # 1
  BY EmptySeq
<1>2. n - 1 \in Int /\ \A i \in 1..(n - 1) : label[i] \in Letter
  BY <1>1
<1>3. front \in Seq(Letter) /\ Len(front) = IF 1 <= n - 1 THEN (n - 1) - 1 + 1 ELSE 0
  BY <1>2, SubSeqProperties
<1> HIDE DEF n, front
<1>4. Len(front) = n - 1 /\ n - 2 \in Nat
  BY <1>1, <1>3
<1>5. front # <<>>
  <2>1. Len(front) # 0
    BY <1>1, <1>4
  <2> QED
    BY <2>1
<1> QED
  BY <1>3, <1>4, <1>5 DEF n, front

\* Place is what its recursion says.
LEMMA PlaceUnfolds ==
  \A label \in Seq(Letter) \ {<<>>} :
    Place[label] = IF Len(label) = 1 THEN label[1]
                   ELSE (Place[SubSeq(label, 1, Len(label) - 1)] + 1) * Letters + label[Len(label)]
<1> DEFINE D == Seq(Letter) \ {<<>>}
           size == [l \in D |-> Len(l) - 1]
           prev == [l \in D |-> IF Len(l) = 1 THEN l ELSE SubSeq(l, 1, Len(l) - 1)]
           base == [l \in D |-> l[1]]
           step == [p \in D \X Int |-> (p[2] + 1) * Letters + p[1][Len(p[1])]]
<1>0. Letters \in Int
  BY LettersAssumption
<1>1. ASSUME NEW l \in D
      PROVE  /\ Len(l) - 1 \in Nat /\ l[1] \in Int /\ l[Len(l)] \in Int
             /\ Len(l) - 1 # 0 => /\ SubSeq(l, 1, Len(l) - 1) \in D
                                  /\ Len(SubSeq(l, 1, Len(l) - 1)) = Len(l) - 1
  <2>1. Len(l) \in Nat /\ Len(l) # 0
    BY EmptySeq
  <2>2. l[1] \in Letter /\ l[Len(l)] \in Letter
    BY <2>1
  <2>3. l[1] \in Int /\ l[Len(l)] \in Int
    BY <1>0, <2>2 DEF Letter
  <2>4. Len(l) - 1 # 0 => Len(l) # 1
    BY <2>1
  <2> QED
    BY <2>1, <2>3, <2>4, FrontIs
<1>2. PICK f : IsRecursive(f, D, Int, size, prev, base, step)
  <2>1. size \in [D -> Nat] /\ base \in [D -> Int]
    <3> HIDE DEF D
    <3> QED
      BY <1>1
  <2>2. prev \in [D -> D]
    <3>1. ASSUME NEW l \in D PROVE (IF Len(l) = 1 THEN l ELSE SubSeq(l, 1, Len(l) - 1)) \in D
      <4>1. CASE Len(l) = 1
        BY <4>1
      <4>2. CASE Len(l) # 1
        BY <4>2, FrontIs
      <4> QED
        BY <4>1, <4>2
    <3> HIDE DEF D
    <3> QED
      BY <3>1
  <2>3. step \in [D \X Int -> Int]
    <3>1. ASSUME NEW p \in D \X Int PROVE (p[2] + 1) * Letters + p[1][Len(p[1])] \in Int
      <4>1. p[1] \in D /\ p[2] \in Int
        OBVIOUS
      <4>2. p[1][Len(p[1])] \in Int
        BY <1>1, <4>1
      <4>3. (p[2] + 1) * Letters \in Int
        BY <1>0, <4>1
      <4> QED
        BY <4>2, <4>3
    <3> HIDE DEF D
    <3> QED
      BY <3>1
  <2>4. ASSUME NEW l \in D, size[l] # 0 PROVE size[prev[l]] < size[l]
    <3> DEFINE k == SubSeq(l, 1, Len(l) - 1)
    <3>1. Len(l) - 1 # 0 /\ Len(l) - 1 \in Nat
      BY <1>1, <2>4
    <3>2. k \in D /\ Len(k) = Len(l) - 1
      BY <1>1, <3>1
    <3>3. prev[l] = k
      BY <3>1
    <3> HIDE DEF D, k
    <3>4. size[k] = Len(l) - 1 - 1 /\ size[l] = Len(l) - 1
      BY <3>2
    <3> HIDE DEF size, prev
    <3> QED
      BY <3>1, <3>3, <3>4
  <2> HIDE DEF D, size, prev, base, step
  <2>5. GetsSmaller(D, Int, size, prev, base, step)
    BY <2>1, <2>2, <2>3, <2>4 DEF GetsSmaller
  <2> QED
    BY <2>5, RecursionHasAFunction
<1>3. ASSUME NEW l \in D
      PROVE  f[l] = IF Len(l) = 1 THEN l[1] ELSE (f[SubSeq(l, 1, Len(l) - 1)] + 1) * Letters + l[Len(l)]
  <2>1. f \in [D -> Int] /\ f[l] = IF size[l] = 0 THEN base[l] ELSE step[<<l, f[prev[l]]>>]
    BY <1>2, Zenon DEF IsRecursive
  <2>2. size[l] = Len(l) - 1 /\ base[l] = l[1]
    <3> HIDE DEF D
    <3> QED
      OBVIOUS
  <2>3. size[l] = 0 <=> Len(l) = 1
    BY <1>1, <2>2
  <2>4. Len(l) # 1 => prev[l] = SubSeq(l, 1, Len(l) - 1) /\ prev[l] \in D
    <3>1. Len(l) # 1 => prev[l] = SubSeq(l, 1, Len(l) - 1)
      <4> HIDE DEF D
      <4> QED
        OBVIOUS
    <3> QED
      BY <3>1, FrontIs
  <2>5. \A v \in Int : step[<<l, v>>] = (v + 1) * Letters + l[Len(l)]
    <3> HIDE DEF D
    <3> QED
      OBVIOUS
  <2> HIDE DEF D, size, prev, base, step
  <2>6. CASE Len(l) = 1
    BY <2>1, <2>2, <2>3, <2>6
  <2>7. CASE Len(l) # 1
    <3>1. f[l] = step[<<l, f[prev[l]]>>] /\ f[prev[l]] \in Int
      BY <2>1, <2>3, <2>4, <2>7
    <3>2. step[<<l, f[prev[l]]>>] = (f[prev[l]] + 1) * Letters + l[Len(l)]
      BY <2>5, <3>1
    <3> QED
      BY <2>4, <2>7, <3>1, <3>2
  <2> QED
    BY <2>6, <2>7
<1> HIDE DEF size, prev, base, step, D
<1>4. f = [l \in D |-> IF Len(l) = 1 THEN l[1]
                       ELSE (f[SubSeq(l, 1, Len(l) - 1)] + 1) * Letters + l[Len(l)]]
  <2>1. f \in [D -> Int]
    BY <1>2 DEF IsRecursive
  <2>2. f = [l \in D |-> f[l]]
    BY <2>1
  <2> QED
    BY <1>3, <2>2
<1>5. Place = [l \in D |-> IF Len(l) = 1 THEN l[1]
                           ELSE (Place[SubSeq(l, 1, Len(l) - 1)] + 1) * Letters + l[Len(l)]]
  BY <1>4 DEF Place, D, Letter
<1> HIDE DEF Place
<1>6. \A l \in D : Place[l] = IF Len(l) = 1 THEN l[1]
                              ELSE (Place[SubSeq(l, 1, Len(l) - 1)] + 1) * Letters + l[Len(l)]
  BY <1>5
<1> QED
  BY <1>6 DEF D

\* The letter that comes last, and what is before it.
LEMMA LastLetterIs ==
  ASSUME NEW front \in Seq(Letter) \ {<<>>}, NEW last \in Letter
  PROVE  LET label == front \o <<last>> IN
         /\ label \in Seq(Letter) \ {<<>>} /\ Len(label) # 1
         /\ label[Len(label)] = last /\ SubSeq(label, 1, Len(label) - 1) = front
<1> DEFINE label == front \o <<last>>
           n == Len(front)
<1>1. n \in Nat /\ n # 0
  BY EmptySeq
<1>2. /\ label \in Seq(Letter) /\ Len(label) = n + 1
      /\ label[n + 1] = last /\ \A i \in 1..n : label[i] = front[i]
  BY <1>1
<1> HIDE DEF label, n
<1>3. label # <<>> /\ Len(label) # 1
  BY <1>1, <1>2
<1> DEFINE sub == SubSeq(label, 1, n)
<1>4. sub \in Seq(Letter) /\ Len(sub) = n /\ \A i \in 1..n : sub[i] = label[i]
  <2>1. n \in Int /\ \A i \in 1..n : label[i] \in Letter
    BY <1>1, <1>2 DEF n
  <2>2. /\ sub \in Seq(Letter) /\ Len(sub) = (IF 1 <= n THEN n - 1 + 1 ELSE 0)
        /\ \A i \in 1..(n - 1 + 1) : sub[i] = label[1 + i - 1]
    BY <2>1, SubSeqProperties
  <2> HIDE DEF sub
  <2>3. Len(sub) = n /\ 1..(n - 1 + 1) = 1..n /\ \A i \in 1..n : 1 + i - 1 = i
    BY <1>1, <2>2
  <2> QED
    BY <2>2, <2>3
<1> HIDE DEF sub
<1>5. sub = front
  BY <1>2, <1>4, SeqEqual DEF n
<1>6. Len(label) - 1 = n
  BY <1>1, <1>2
<1> QED
  BY <1>2, <1>3, <1>5, <1>6 DEF sub, label

\* labelForRow gives every row a label, and its place among all labels is the
\* row: labels are in order and none is left out.
THEOREM LabelsAreInOrder ==
  \A row \in Nat : Label[row] \in Seq(Letter) \ {<<>>} /\ Place[Label[row]] = row
<1> DEFINE Good(row) == Label[row] \in Seq(Letter) \ {<<>>} /\ Place[Label[row]] = row
           T == {row \in Nat : ~Good(row)}
<1>1. SUFFICES ASSUME T # {} PROVE FALSE
  OBVIOUS
<1>2. PICK row \in T : \A j \in T : row <= j
  <2>1. T \in SUBSET Nat
    OBVIOUS
  <2> HIDE DEF T
  <2> QED
    BY <1>1, <2>1, NatMin
<1>3. row \in Nat /\ ~Good(row) /\ \A j \in Nat : ~(row <= j) => Good(j)
  BY <1>2
<1>4. Letters \in Nat \ {0}
  BY LettersAssumption
<1> HIDE DEF Good, T
<1> SUFFICES Good(row)
  BY <1>3
<1>5. CASE row < Letters
  <2>1. Label[row] = <<row>> /\ row \in Letter
    <3>1. row \in Letter
      BY <1>3, <1>4, <1>5 DEF Letter
    <3> QED
      BY <1>3, <1>5, <3>1, LabelUnfolds
  <2>2. <<row>> \in Seq(Letter) \ {<<>>} /\ Len(<<row>>) = 1 /\ <<row>>[1] = row
    BY <2>1
  <2>3. Place[<<row>>] = row
    BY <2>2, PlaceUnfolds
  <2> QED
    BY <2>1, <2>2, <2>3 DEF Good
<1>6. CASE ~(row < Letters)
  <2> DEFINE q == row \div Letters
             r == row % Letters
             front == Label[q - 1]
             label == front \o <<r>>
  <2>1. q \in Nat /\ r \in Letter /\ row = q * Letters + r /\ q - 1 \in Nat /\ q <= row
    <3>1. row \in Int /\ row \in Nat
      BY <1>3
    <3>2. q \in Int /\ r \in 0..(Letters - 1) /\ row = q * Letters + r
      BY <1>4, <3>1, DivisionIs
    <3>3. q \in Nat /\ q <= row /\ (row < Letters <=> q = 0)
      BY <1>4, <3>1, QuotientIsSmaller
    <3> HIDE DEF q, r
    <3> QED
      BY <1>6, <3>2, <3>3 DEF Letter
  <2>2. Label[row] = label
    BY <1>3, <1>6, LabelUnfolds
  <2> HIDE DEF q, r, front, label
  <2>3. Good(q - 1)
    <3>1. ~(row <= q - 1)
      BY <1>3, <2>1
    <3> QED
      BY <1>3, <2>1, <3>1
  <2>4. front \in Seq(Letter) \ {<<>>} /\ Place[front] = q - 1
    BY <2>3 DEF front, Good
  <2>5. /\ label \in Seq(Letter) \ {<<>>} /\ Len(label) # 1
        /\ label[Len(label)] = r /\ SubSeq(label, 1, Len(label) - 1) = front
    BY <2>1, <2>4, LastLetterIs DEF label
  <2>6. Place[label] = (Place[front] + 1) * Letters + r
    BY <2>5, PlaceUnfolds
  <2>7. Place[label] = row
    <3>1. Place[front] + 1 = q
      BY <2>1, <2>4
    <3> QED
      BY <2>1, <2>6, <3>1
  <2> QED
    BY <2>2, <2>5, <2>7 DEF Good
<1> QED
  BY <1>5, <1>6

\* Any number of rows, flipped or not.
LEMMA RowsAreLabelled ==
  ASSUME NEW rows \in Nat, NEW flipYLabel \in BOOLEAN
  PROVE  LabelsAgree(rows, flipYLabel)
<1>1. ASSUME NEW r \in 0..(rows - 1)
      PROVE  LET label == LabelForRow(rows, r, flipYLabel) IN
             /\ label # <<>>
             /\ Place[label] = IF flipYLabel THEN r ELSE rows - r - 1
             /\ label = LabelForRow(rows, rows - r - 1, ~flipYLabel)
  <2> DEFINE k == IF flipYLabel THEN r ELSE rows - r - 1
             back == rows - r - 1
  <2>1. r \in Nat /\ k \in Nat /\ back \in Nat /\ ~(r < 0 \/ r >= rows) /\ ~(back < 0 \/ back >= rows) /\ rows - back - 1 = r
    OBVIOUS
  <2>2. LabelForRow(rows, r, flipYLabel) = Label[k]
    BY <2>1 DEF LabelForRow
  <2>3. (IF ~flipYLabel THEN back ELSE rows - back - 1) = k
    BY <2>1
  <2> HIDE DEF k, back
  <2>4. LabelForRow(rows, back, ~flipYLabel) = Label[k]
    BY <2>1, <2>3 DEF LabelForRow
  <2>5. Label[k] # <<>> /\ Place[Label[k]] = k
    BY <2>1, LabelsAreInOrder
  <2> QED
    BY <2>2, <2>4, <2>5 DEF k, back
<1>2. \A c, d \in 0..(rows - 1) : LabelForCol(rows, c) = LabelForCol(rows, d) => c = d
  BY DEF LabelForCol
<1> QED
  BY <1>1, <1>2 DEF LabelsAgree

\* Dividing the shorter side by squares of the longer one.
LEMMA SquaresFit ==
  ASSUME NEW short \in Nat, NEW long \in Nat \ {0}, short <= long, NEW division \in Nat
  PROVE  /\ (short * division) \div long \in Nat
         /\ (short * division) \div long <= division
         /\ ((short * division) \div long) * long <= short * division
<1> DEFINE a == short * division
           q == a \div long
           r == a % long
<1>1. a \in Nat /\ a <= long * division
  <2>1. short * division <= long * division
    BY TimesMonotone
  <2> QED
    BY <2>1
<1> HIDE DEF a
<1>2. q \in Nat /\ r \in 0..(long - 1) /\ a = q * long + r
  BY <1>1, DivisionIs, QuotientIsSmaller
<1> HIDE DEF q, r
<1>3. q * long <= a
  BY <1>2
<1>4. q <= division
  <2>1. ASSUME division + 1 <= q PROVE FALSE
    <3>1. (division + 1) * long <= q * long
      BY <1>2, <2>1, TimesMonotone
    <3>2. (division + 1) * long = long * division + long
      OBVIOUS
    <3> QED
      BY <1>1, <1>2, <1>3, <3>1, <3>2
  <2> QED
    BY <1>2, <2>1
<1> QED
  BY <1>2, <1>3, <1>4 DEF a, q

\* GeoJSONFrom and Squarish, for sides of any length and the numbers of rows
\* and columns NewGrating takes: there is a grating, and squares fit the sides.
THEOREM SquaresFitTheSides ==
  ASSUME NEW width \in Nat \ {0}, NEW height \in Nat \ {0},
         NEW rows \in MinRowCol..MaxRowCol, NEW cols \in MinRowCol..MaxRowCol, NEW rectangle \in BOOLEAN
  PROVE  GratingFits(width, height, rows, cols, rectangle)
<1> DEFINE n == Larger(rows, cols)
           sq == Squarish(width, height, n)
           g == RowsAndCols(width, height, rows, cols, rectangle)
<1>1. n \in MinRowCol..MaxRowCol /\ n \in Nat
  BY DEF Larger, MinRowCol, MaxRowCol
<1> HIDE DEF n
<1>2. /\ sq.rows \in Nat /\ sq.cols \in Nat /\ sq.rows <= n /\ sq.cols <= n
      /\ sq.rows * width <= height * n /\ sq.cols * height <= width * n
  <2>1. CASE width >= height
    <3>1. sq.rows = (height * n) \div width /\ sq.cols = n
      BY <2>1 DEF Squarish
    <3>2. height * n <= width * n /\ n * height = height * n
      BY <1>1, <2>1, TimesMonotone
    <3> HIDE DEF sq
    <3> QED
      BY <1>1, <2>1, <3>1, <3>2, SquaresFit
  <2>2. CASE ~(width >= height)
    <3>1. sq.rows = n /\ sq.cols = (width * n) \div height
      BY <2>2 DEF Squarish
    <3>2. width <= height /\ width * n <= height * n /\ n * width = width * n
      BY <1>1, <2>2, TimesMonotone
    <3> HIDE DEF sq
    <3> QED
      BY <1>1, <3>1, <3>2, SquaresFit
  <2> QED
    BY <2>1, <2>2
<1>3. g = IF ~rectangle /\ sq.rows >= MinRowCol /\ sq.cols >= MaxRowCol THEN sq ELSE [rows |-> rows, cols |-> cols]
  BY DEF RowsAndCols, n
<1> HIDE DEF sq, g
<1>4. IsGrating(g)
  BY <1>1, <1>2, <1>3 DEF IsGrating, MinRowCol, MaxRowCol
<1> QED
  BY <1>2, <1>4 DEF GratingFits, g, sq, n
-----------------------------------------------------------------------------
\* The theorems. A case is taken from a fresh start, so each action is looked
\* at once, with all the inputs it may have.

\* What a case is of tells which action took it.
LEMMA CaseIsTaken ==
  ASSUME Next
  PROVE  /\ case'.part = "tile" => NameTile
         /\ case'.part = "place" => PlaceTile
         /\ case'.part = "copy" => CopyImage
         /\ case'.part = "path" => FindPath
         /\ case'.part = "bounds" => FindBounds
         /\ case'.part = "image" => ReadImage
         /\ case'.part = "sheet" => SplitCell
         /\ case'.part = "style" => FindStyle
         /\ case'.part = "append" => AppendStyles
         /\ case'.part = "queue" => UseQueue
         /\ case'.part = "labels" => LabelRows
         /\ case'.part = "grating" => FitGrating
<1>1. CASE NameTile
  <2>1. case'.part = "tile"
    BY <1>1 DEF NameTile
  <2> QED
    BY <1>1, <2>1
<1>2. CASE PlaceTile
  <2>1. case'.part = "place"
    BY <1>2 DEF PlaceTile
  <2> QED
    BY <1>2, <2>1
<1>3. CASE CopyImage
  <2>1. case'.part = "copy"
    BY <1>3 DEF CopyImage
  <2> QED
    BY <1>3, <2>1
<1>4. CASE FindPath
  <2>1. case'.part = "path"
    BY <1>4 DEF FindPath
  <2> QED
    BY <1>4, <2>1
<1>5. CASE FindBounds
  <2>1. case'.part = "bounds"
    BY <1>5 DEF FindBounds
  <2> QED
    BY <1>5, <2>1
<1>6. CASE ReadImage
  <2>1. case'.part = "image"
    BY <1>6 DEF ReadImage
  <2> QED
    BY <1>6, <2>1
<1>7. CASE SplitCell
  <2>1. case'.part = "sheet"
    BY <1>7 DEF SplitCell
  <2> QED
    BY <1>7, <2>1
<1>8. CASE FindStyle
  <2>1. case'.part = "style"
    BY <1>8 DEF FindStyle
  <2> QED
    BY <1>8, <2>1
<1>9. CASE AppendStyles
  <2>1. case'.part = "append"
    BY <1>9 DEF AppendStyles
  <2> QED
    BY <1>9, <2>1
<1>10. CASE UseQueue
  <2>1. case'.part = "queue"
    BY <1>10 DEF UseQueue
  <2> QED
    BY <1>10, <2>1
<1>11. CASE LabelRows
  <2>1. case'.part = "labels"
    BY <1>11 DEF LabelRows
  <2> QED
    BY <1>11, <2>1
<1>12. CASE FitGrating
  <2>1. case'.part = "grating"
    BY <1>12 DEF FitGrating
  <2> QED
    BY <1>12, <2>1
<1>13. CASE Return
  <2>1. case'.part = "none"
    BY <1>13 DEF Return, NoCase
  <2> QED
    BY <2>1
<1> QED
  BY <1>1, <1>2, <1>3, <1>4, <1>5, <1>6, <1>7, <1>8, <1>9, <1>10, <1>11, <1>12, <1>13 DEF Next, Cases

\* Tiles agree with their children, parents, wrapped columns and overscaled
\* levels, for numbers of any width, at each level below the width of a column
\* (31 and less of 32 bits).
THEOREM TilesAlwaysAgree == Spec => []TilesAgree
<1>1. Init => TilesAgree
  BY DEF Init, NoCase, TilesAgree, Is
<1>2. TilesAgree /\ [Next]_case => TilesAgree'
  <2> SUFFICES ASSUME TilesAgree, [Next]_case PROVE TilesAgree'
    OBVIOUS
  <2>1. CASE UNCHANGED case
    BY <2>1 DEF TilesAgree, Is
  <2>2. CASE Next
    <3>1. ASSUME case'.part = "tile"
          PROVE  FamilyAgrees(case'.t) /\ OverscaleAgrees(case'.t, case'.z, case'.to)
      <4>1. PICK t \in CanonicalTileID(MaxZoom), z, to \in 0..MaxZoom :
              z >= t.z /\ case' = [part |-> "tile", t |-> t, z |-> z, to |-> to]
        BY <2>2, <3>1, CaseIsTaken DEF NameTile
      <4>2. IsTile(t) /\ t.z \in Int /\ z \in Nat /\ to \in Nat
        BY MaxZoomAssumption, CanonicalIs DEF IsTile
      <4>3. t.z <= z
        BY <4>1, <4>2
      <4>5. t.z < Bits /\ z < Bits
        BY <4>2, <4>3, MaxZoomAssumption, BitsAssumption
      <4>4. FamilyAgrees(t) /\ OverscaleAgrees(t, z, to)
        BY <4>2, <4>3, <4>5, FamiliesAgree, OverscalingAgrees
      <4> QED
        BY <4>1, <4>4
    <3>2. ASSUME case'.part = "place"
          PROVE  PlaceIsKept(case'.z, case'.x, case'.y)
      <4>1. PICK z \in 0..MaxZoom : \E x \in (-2 * Side[z])..(2 * Side[z]), y \in (-1)..Side[z] :
              case' = [part |-> "place", z |-> z, x |-> x, y |-> y]
        BY <2>2, <3>2, CaseIsTaken DEF PlaceTile
      <4>2. PICK x \in (-2 * Side[z])..(2 * Side[z]), y \in (-1)..Side[z] :
              case' = [part |-> "place", z |-> z, x |-> x, y |-> y]
        BY <4>1
      <4>3. z \in Nat /\ z < Bits /\ Side[z] \in Nat \ {0} /\ Side[z] <= Side[Bits] /\ Side[Bits] \in Nat
        BY MaxZoomAssumption, BitsAssumption, SidePositive, WordIs
      <4>4. x \in Int /\ y \in Int
        BY <4>3
      <4>6. y < Side[Bits]
        <5>1. Side[z + 1] = 2 * Side[z] /\ Side[z + 1] <= Side[Bits]
          BY <4>3, BitsAssumption, SideIs, WordIs
        <5> QED
          BY <4>3, <5>1
      <4>7. x \div Side[z] \in (-2)..2
        <5> DEFINE s == Side[z]
                   q == x \div s
        <5>1. s \in Nat \ {0} /\ x \in (-2 * s)..(2 * s)
          BY <4>3
        <5> HIDE DEF s
        <5>2. q \in Int /\ q * s <= x /\ x < q * s + s
          BY <5>1
        <5> HIDE DEF q
        <5>3. ASSUME q >= 3 PROVE FALSE
          <6>1. q * s >= 3 * s
            BY <5>1, <5>2, <5>3
          <6> QED
            BY <5>1, <5>2, <6>1
        <5>4. ASSUME q <= -3 PROVE FALSE
          <6>1. q * s <= -3 * s
            BY <5>1, <5>2, <5>4
          <6> QED
            BY <5>1, <5>2, <6>1
        <5>5. q \in (-2)..2
          BY <5>2, <5>3, <5>4
        <5> QED
          BY <5>5 DEF q, s
      <4>8. x \div Side[z] \in (-Side[WrapBits - 1])..(Side[WrapBits - 1] - 1)
        <5>1. Side[WrapBits - 1] \in Nat
          BY BitsAssumption, SideIs
        <5> QED
          BY <4>7, <5>1, MaxZoomAssumption
      <4>5. PlaceIsKept(z, x, y)
        BY <4>3, <4>4, <4>6, <4>8, PlacesAreKept
      <4> QED
        BY <4>2, <4>5
    <3> QED
      BY <3>1, <3>2 DEF TilesAgree, Is
  <2> QED
    BY <2>1, <2>2
<1> QED
  BY <1>1, <1>2, PTL DEF Spec

\* Image::copy and Image::clear stay inside both images or throw, for images,
\* rectangles and numbers of any size, those that wrap round included.
THEOREM CopyAlwaysStaysInBothImages == Spec => []CopyStaysInBothImages
<1>1. Init => CopyStaysInBothImages
  BY DEF Init, NoCase, CopyStaysInBothImages, Is
<1>2. CopyStaysInBothImages /\ [Next]_case => CopyStaysInBothImages'
  <2> SUFFICES ASSUME CopyStaysInBothImages, [Next]_case PROVE CopyStaysInBothImages'
    OBVIOUS
  <2>1. CASE UNCHANGED case
    BY <2>1 DEF CopyStaysInBothImages, Is
  <2>2. CASE Next
    <3>1. ASSUME case'.part = "copy"
          PROVE  /\ StaysInside(case'.src, case'.dst, case'.srcPt, case'.dstPt, case'.size)
                 /\ ResizeWorks(case'.src, case'.size)
      <4>1. PICK src, dst, size \in Size : \E srcPt, dstPt \in Point :
              case' = [part |-> "copy", src |-> src, dst |-> dst, srcPt |-> srcPt, dstPt |-> dstPt, size |-> size]
        BY <2>2, <3>1, CaseIsTaken DEF CopyImage
      <4>2. PICK srcPt, dstPt \in Point :
              case' = [part |-> "copy", src |-> src, dst |-> dst, srcPt |-> srcPt, dstPt |-> dstPt, size |-> size]
        BY <4>1
      <4>3. StaysInside(src, dst, srcPt, dstPt, size) /\ ResizeWorks(src, size)
        BY CopyIsSafe
      <4> QED
        BY <4>2, <4>3
    <3> QED
      BY <3>1 DEF CopyStaysInBothImages, Is
  <2> QED
    BY <2>1, <2>2
<1> QED
  BY <1>1, <1>2, PTL DEF Spec

\* unwrapForShortestPath, and hulls and constraints of bounds.
THEOREM ShortestPathIsAlwaysShortest == Spec => []ShortestPathIsShortest
<1>1. Init => ShortestPathIsShortest
  BY DEF Init, NoCase, ShortestPathIsShortest, Is
<1>2. ShortestPathIsShortest /\ [Next]_case => ShortestPathIsShortest'
  <2> SUFFICES ASSUME ShortestPathIsShortest, [Next]_case PROVE ShortestPathIsShortest'
    OBVIOUS
  <2>1. CASE UNCHANGED case
    BY <2>1 DEF ShortestPathIsShortest, Is
  <2>2. CASE Next
    <3>1. ASSUME case'.part = "path"
          PROVE  PathIsShortest(case'.p, case'.end)
      <4>1. PICK p, end \in [lat : {0}, lon : {60 * i : i \in (-3)..3} \cup {-179, -1, 1, 179}] :
              case' = [part |-> "path", p |-> p, end |-> end]
        BY <2>2, <3>1, CaseIsTaken DEF FindPath
      <4>2. {60 * i : i \in (-3)..3} \cup {-179, -1, 1, 179} \subseteq -180..180
        OBVIOUS
      <4>3. p \in [lat : Int, lon : -180..180] /\ end \in [lat : Int, lon : -180..180]
        BY <4>2
      <4>4. PathIsShortest(p, end)
        BY <4>3, ShortestPath
      <4> QED
        BY <4>1, <4>4
    <3>2. ASSUME case'.part = "bounds"
          PROVE  BoundsAgree(case'.p, case'.q, case'.r)
      <4>1. PICK p, q \in Places, r \in {LatLng(a, o) : a \in {-90, 45}, o \in {-180, 1, 400}} :
              case' = [part |-> "bounds", p |-> p, q |-> q, r |-> r]
        BY <2>2, <3>2, CaseIsTaken DEF FindBounds
      <4>2. p \in [lat : -90..90, lon : Int] /\ q \in [lat : -90..90, lon : Int]
        BY DEF Places, Latitudes, Longitudes
      <4>3. r \in [lat : -90..90, lon : Int]
        BY DEF LatLng
      <4>4. BoundsAgree(p, q, r)
        BY <4>2, <4>3, HullsAndConstraints
      <4> QED
        BY <4>1, <4>4
    <3> QED
      BY <3>1, <3>2 DEF ShortestPathIsShortest, Is
  <2> QED
    BY <2>1, <2>2
<1> QED
  BY <1>1, <1>2, PTL DEF Spec

\* Image.At has a tile for each pixel of an image and reads inside it, for any
\* lengths of images and any size of tiles.
THEOREM EveryPixelAlwaysHasATile == Spec => []EveryPixelHasATile
<1>1. Init => EveryPixelHasATile
  BY DEF Init, NoCase, EveryPixelHasATile, Is
<1>2. EveryPixelHasATile /\ [Next]_case => EveryPixelHasATile'
  <2> SUFFICES ASSUME EveryPixelHasATile, [Next]_case PROVE EveryPixelHasATile'
    OBVIOUS
  <2>1. CASE UNCHANGED case
    BY <2>1 DEF EveryPixelHasATile, Is
  <2>2. CASE Next
    <3>1. ASSUME case'.part = "image",
                 NEW x \in 0..(Scaled(case'.width, case'.ppi) - 1),
                 NEW y \in 0..(Scaled(case'.height, case'.ppi) - 1)
          PROVE  PixelHasATile(x, y, case'.width, case'.height, case'.ppi)
      <4>1. PICK width, height \in Lengths, ppi \in Ratios :
              case' = [part |-> "image", width |-> width, height |-> height, ppi |-> ppi]
        BY <2>2, <3>1, CaseIsTaken DEF ReadImage
      <4>2. case'.width = width /\ case'.height = height /\ case'.ppi = ppi
        BY <4>1
      <4>3. IsLength(width) /\ IsLength(height)
        BY LengthsAssumption DEF IsLength
      <4>4. IsRatio(ppi)
        BY DEF Ratios, IsRatio
      <4>5. x \in 0..(Scaled(width, ppi) - 1) /\ y \in 0..(Scaled(height, ppi) - 1)
        BY <4>2
      <4>6. PixelHasATile(x, y, width, height, ppi)
        BY <4>3, <4>4, <4>5, PixelsHaveTiles
      <4> QED
        BY <4>2, <4>6
    <3> QED
      BY <3>1 DEF EveryPixelHasATile, Is
  <2> QED
    BY <2>1, <2>2
<1> QED
  BY <1>1, <1>2, PTL DEF Spec

\* The 5k grid: the sheet numbered for a position holds it, whatever the size
\* of a cell.
THEOREM PartAlwaysHoldsItsPosition == Spec => []PartHoldsItsPosition
<1>1. Init => PartHoldsItsPosition
  BY DEF Init, NoCase, PartHoldsItsPosition, Is
<1>2. PartHoldsItsPosition /\ [Next]_case => PartHoldsItsPosition'
  <2> SUFFICES ASSUME PartHoldsItsPosition, [Next]_case PROVE PartHoldsItsPosition'
    OBVIOUS
  <2>1. CASE UNCHANGED case
    BY <2>1 DEF PartHoldsItsPosition, Is
  <2>2. CASE Next
    <3>1. ASSUME case'.part = "sheet"
          PROVE  SheetHolds(case'.east, case'.south)
      <4>1. PICK east \in 0..(10 * Width - 1), south \in 0..(10 * SqrSide - 1) :
              case' = [part |-> "sheet", east |-> east, south |-> south]
        BY <2>2, <3>1, CaseIsTaken DEF SplitCell
      <4>2. SheetHolds(east, south)
        BY EverySheetHolds
      <4> QED
        BY <4>1, <4>2
    <3> QED
      BY <3>1 DEF PartHoldsItsPosition, Is
  <2> QED
    BY <2>1, <2>2
<1> QED
  BY <1>1, <1>2, PTL DEF Spec

\* Styles: a sheet finds those of its names that the list has, each under its
\* name, and no other but one name alone that the list lacks, found with the
\* list's first style; its styles by location give the same styles back; and
\* appending keeps names distinct. For any names, lists of any length.
THEOREM SheetAlwaysFindsItsStyles == Spec => []SheetFindsItsStyles
<1>1. Init => SheetFindsItsStyles
  BY DEF Init, NoCase, SheetFindsItsStyles, Is
<1>2. SheetFindsItsStyles /\ [Next]_case => SheetFindsItsStyles'
  <2> SUFFICES ASSUME SheetFindsItsStyles, [Next]_case PROVE SheetFindsItsStyles'
    OBVIOUS
  <2>1. CASE UNCHANGED case
    BY <2>1 DEF SheetFindsItsStyles, Is
  <2>2. CASE Next
    <3>0. ASSUME NEW list \in StyleLists PROVE list \in Seq(Style) /\ Distinct(list)
      BY MaxListAssumption DEF StyleLists, Distinct
    <3>1. ASSUME case'.part = "style"
          PROVE  FoundAsNamed(case'.list, case'.names, case'.name)
      <4>1. PICK list \in StyleLists, names \in NameLists, name \in Names \cup {NoName} :
              case' = [part |-> "style", list |-> list, names |-> names, name |-> name]
        BY <2>2, <3>1, CaseIsTaken DEF FindStyle
      <4>2. list \in Seq(Style) /\ Distinct(list) /\ names \in Seq(Names)
        <5>1. \A n \in 0..2 : [1..n -> Names] \subseteq Seq(Names)
          OBVIOUS
        <5>2. names \in Seq(Names)
          BY <5>1 DEF NameLists
        <5> QED
          BY <3>0, <5>2
      <4>3. FoundAsNamed(list, names, name)
        BY <4>2, FoundUnderItsName
      <4> QED
        BY <4>1, <4>3
    <3>2. ASSUME case'.part = "append"
          PROVE  AppendKeeps(case'.list, case'.styles)
      <4>1. PICK list \in StyleLists, styles \in UNION {[1..n -> Style] : n \in 0..2} :
              case' = [part |-> "append", list |-> list, styles |-> styles]
        BY <2>2, <3>2, CaseIsTaken DEF AppendStyles
      <4>2. list \in Seq(Style) /\ Distinct(list) /\ styles \in Seq(Style)
        <5>1. \A n \in 0..2 : [1..n -> Style] \subseteq Seq(Style)
          OBVIOUS
        <5>2. styles \in Seq(Style)
          BY <5>1
        <5> QED
          BY <3>0, <5>2
      <4>3. AppendKeeps(list, styles)
        BY <4>2, AppendedIsKept
      <4> QED
        BY <4>1, <4>3
    <3> QED
      BY <3>1, <3>2 DEF SheetFindsItsStyles, Is
  <2> QED
    BY <2>1, <2>2
<1> QED
  BY <1>1, <1>2, PTL DEF Spec

\* The keyed queue keeps its order and its keys distinct, of any size.
THEOREM QueueAlwaysKeepsItsOrder == Spec => []QueueKeepsItsOrder
<1>1. Init => QueueKeepsItsOrder
  BY DEF Init, NoCase, QueueKeepsItsOrder, Is
<1>2. QueueKeepsItsOrder /\ [Next]_case => QueueKeepsItsOrder'
  <2> SUFFICES ASSUME QueueKeepsItsOrder, [Next]_case PROVE QueueKeepsItsOrder'
    OBVIOUS
  <2>1. CASE UNCHANGED case
    BY <2>1 DEF QueueKeepsItsOrder, Is
  <2>2. CASE Next
    <3>1. ASSUME case'.part = "queue"
          PROVE  MatchesReference(case'.q, case'.key, case'.val)
      <4>1. PICK q \in Queues, key \in Keys, val \in Values :
              case' = [part |-> "queue", q |-> q, key |-> key, val |-> val]
        BY <2>2, <3>1, CaseIsTaken DEF UseQueue
      <4>2. q \in Seq(Item) /\ IsQueue(q)
        BY CapAssumption DEF Queues
      <4>3. MatchesReference(q, key, val)
        BY <4>2, QueueMatches
      <4> QED
        BY <4>1, <4>3
    <3> QED
      BY <3>1 DEF QueueKeepsItsOrder, Is
  <2> QED
    BY <2>1, <2>2
<1> QED
  BY <1>1, <1>2, PTL DEF Spec

\* The grating: no two rows have the same label, with any number of letters,
\* and squares fit the sides.
THEOREM RowsAlwaysHaveTheirOwnLabels == Spec => []RowsHaveTheirOwnLabels
<1>1. Init => RowsHaveTheirOwnLabels
  BY DEF Init, NoCase, RowsHaveTheirOwnLabels, Is
<1>2. RowsHaveTheirOwnLabels /\ [Next]_case => RowsHaveTheirOwnLabels'
  <2> SUFFICES ASSUME RowsHaveTheirOwnLabels, [Next]_case PROVE RowsHaveTheirOwnLabels'
    OBVIOUS
  <2>1. CASE UNCHANGED case
    BY <2>1 DEF RowsHaveTheirOwnLabels, Is
  <2>2. CASE Next
    <3>1. ASSUME case'.part = "labels"
          PROVE  LabelsAgree(case'.rows, case'.flipYLabel)
      <4>1. PICK rows \in MinRowCol..MaxRowCol, flipYLabel \in BOOLEAN :
              case' = [part |-> "labels", rows |-> rows, flipYLabel |-> flipYLabel]
        BY <2>2, <3>1, CaseIsTaken DEF LabelRows
      <4>2. rows \in Nat
        BY DEF MinRowCol, MaxRowCol
      <4>3. LabelsAgree(rows, flipYLabel)
        BY <4>2, RowsAreLabelled
      <4> QED
        BY <4>1, <4>3
    <3>2. ASSUME case'.part = "grating"
          PROVE  GratingFits(case'.width, case'.height, case'.rows, case'.cols, case'.rectangle)
      <4>1. PICK width, height \in 1..6, rows, cols \in {MinRowCol, 3, MaxRowCol - 1, MaxRowCol}, rectangle \in BOOLEAN :
              case' = [part |-> "grating", width |-> width, height |-> height,
                       rows |-> rows, cols |-> cols, rectangle |-> rectangle]
        BY <2>2, <3>2, CaseIsTaken DEF FitGrating
      <4>2. width \in Nat \ {0} /\ height \in Nat \ {0}
        OBVIOUS
      <4>3. rows \in MinRowCol..MaxRowCol /\ cols \in MinRowCol..MaxRowCol
        BY DEF MinRowCol, MaxRowCol
      <4>4. GratingFits(width, height, rows, cols, rectangle)
        BY <4>2, <4>3, SquaresFitTheSides
      <4> QED
        BY <4>1, <4>4
    <3> QED
      BY <3>1, <3>2 DEF RowsHaveTheirOwnLabels, Is
  <2> QED
    BY <2>1, <2>2
<1> QED
  BY <1>1, <1>2, PTL DEF Spec
==============================================================================
