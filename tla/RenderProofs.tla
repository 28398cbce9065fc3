---------------------------- MODULE RenderProofs ----------------------------
(***************************************************************************)
(* The safety of a worker process, for any file stores and any number of   *)
(* tiles, whatever fails in it and whenever it is cancelled.               *)
(***************************************************************************)
EXTENDS RenderProps, SnapshotProofs, FiniteSetTheorems

Statuses == {"started", "processing", "failed", "completed"}
Ends == {"defer", "notify", "cancel", "cleanup", "gone"}

\* Completed goes with a GeneratePDF that returned nil, failed with one that
\* returned an error or is about to, and generatePDF has the last word.
PostInv ==
  /\ pc = "main" => posts = <<>>
  /\ Posted("completed") => err = "nil"
  /\ Posted("failed") => pc = "broken" \/ err = "error"
  /\ err # "none" => pc \in Ends
  /\ pc \in Ends \ {"gone"} => err # "none"
  /\ pc \in {"cancel", "cleanup", "gone"} /\ err # "none" /\ posts # <<>> =>
       Last(posts) = IF err = "nil" THEN "completed" ELSE "failed"
  /\ exitCode \in {"nil", "error"} => exitCode = err /\ pc = "gone"

\* An image that was begun is done when the template goes on after it.
ImageInv ==
  /\ "image" \notin todo => tiles = 0 \/ pc \in {"tile", "broken"} \/ err = "error"
  /\ pc = "png" => tiles = 0
  /\ pc \in {"tile", "png"} => "image" \notin todo /\ "png" \notin lost
  /\ "png" \in lost => "image" \notin todo

\* Where the store's copy of the PDF is when GeneratePDF is past it.
PdfInv ==
  /\ pc = "copy" /\ HasPart("pipe") => upload["pdf"] # "none"
  /\ pc = "complete" \/ err = "nil" =>
       /\ HasPart("pipe") => upload["pdf"] # "none"
       /\ HasPart("pipe") \/ HasPart("local") => pdf \in {"part", "whole"}

\* The worker is in Snapshot while it draws an image only, and a refusal ends that.
CallInv ==
  /\ callers = {Me}
  /\ call[Me] # "panic"
  /\ call[Me] # "out" => pc = "tile" /\ tiles > 0
  /\ stuck => closed
  /\ closed => ~running /\ "image" \notin todo
  /\ closed => call[Me] = "refused" \/ (call[Me] = "out" /\ pc # "tile")

\* sent is the script m, with what Absorbed leaves out, and no more of it.
IsMerged(sent, m) ==
  m \in Seq(Statuses) /\ Place(sent, Len(sent)) = Len(m) /\ Follows(sent, m)

\* The posts so far are the script m, with this many failed.
Told(m, failed) == IsMerged(posts, m) /\ Fails(posts, Len(posts)) = failed

Rendering == {"svg", "template", "fill", "asset", "tile", "png", "convert", "svg2pdf", "pdf", "copy", "complete"}

\* How far in one of the Scripts a worker may be.
Silent == <<>>
Begun == <<"started">>
Refused == <<"started", "failed">>
FailedAtOnce == <<"started", "failed", "failed">>
Underway == <<"started", "processing">>
Failing == <<"started", "processing", "failed">>
FailedInTheEnd == <<"started", "processing", "failed", "failed">>
Completing == <<"started", "processing", "completed">>
Completed == <<"started", "processing", "completed", "completed">>

\* What has been posted when GeneratePDF has returned, before the last post.
OutcomeTold ==
  \/ err = "nil" /\ Told(Underway, 0)
  \/ err = "nil" /\ Told(Completing, 0)
  \/ err = "error" /\ Told(Refused, 1)
  \/ err = "error" /\ Told(Failing, 1)
  \/ err = "error" /\ Told(FailedInTheEnd, 2)

\* How far in a script the worker is, by where it is in the code.
ScriptInv ==
  /\ pc = "main" => Told(Silent, 0)
  /\ pc = "started" => Told(Begun, 0)
  /\ pc \in Rendering => Told(Underway, 0)
  /\ pc = "broken" => Told(Failing, 1)
  /\ pc \in {"defer", "notify"} => OutcomeTold
  /\ pc \in {"cancel", "cleanup", "gone"} =>
       \/ posts = <<>>
       \/ pc = "gone" /\ exitCode = "panic" /\ Told(Underway, 0)
       \/ \E script \in Scripts : IsMerged(posts, script)

IInv == TypeOK /\ SnapInv /\ PostInv /\ ImageInv /\ PdfInv /\ CallInv /\ ScriptInv
-----------------------------------------------------------------------------
\* The worker is the caller of the one program there is.
LEMMA MeFacts == Me \in Callers /\ Programs = {{Me}}
<1>1. PICK c \in Callers : Programs = {{c}}
  BY WorkerAssumption
<1> QED
  BY <1>1 DEF Me

\* A post is said from then on, and is the last.
LEMMA EmitFacts ==
  ASSUME posts \in Seq(Statuses), NEW s \in Statuses, Emit(s)
  PROVE  /\ posts' \in Seq(Statuses) /\ posts' # <<>> /\ Last(posts') = s
         /\ \A t : Posted(t)' <=> Posted(t) \/ t = s
<1>1. /\ posts' = Append(posts, s)
      /\ posts' \in Seq(Statuses)
      /\ Len(posts) \in Nat /\ Len(posts') = Len(posts) + 1
      /\ DOMAIN posts = 1..Len(posts) /\ DOMAIN posts' = 1..(Len(posts) + 1)
      /\ \A i \in 1..Len(posts) : posts'[i] = posts[i]
      /\ posts'[Len(posts) + 1] = s
  BY AppendProperties DEF Emit
<1>2. posts' # <<>> /\ Last(posts') = s
  BY <1>1 DEF Last
<1>3. \A t : Posted(t)' <=> Posted(t) \/ t = s
  BY <1>1 DEF Posted, ToSet
<1> QED
  BY <1>1, <1>2, <1>3

\* A step without a post leaves what was said.
LEMMA SilentFacts ==
  ASSUME UNCHANGED posts
  PROVE  Last(posts') = Last(posts) /\ \A t : Posted(t)' <=> Posted(t)
BY DEF Posted

\* The posts of an image that has no writer are two.
LEMMA TwoPosts ==
  ASSUME posts \in Seq(Statuses), posts' = posts \o <<"processing", "failed">>
  PROVE  /\ posts' \in Seq(Statuses) /\ posts' # <<>>
         /\ \A t : Posted(t)' <=> Posted(t) \/ t \in {"processing", "failed"}
<1> DEFINE p == Append(posts, "processing")
           q == Append(p, "failed")
<1>1. posts' = q
  OBVIOUS
<1>2. /\ p \in Seq(Statuses) /\ Len(posts) \in Nat /\ Len(p) = Len(posts) + 1
      /\ DOMAIN posts = 1..Len(posts) /\ DOMAIN p = 1..(Len(posts) + 1)
      /\ \A i \in 1..Len(posts) : p[i] = posts[i]
      /\ p[Len(posts) + 1] = "processing"
  BY AppendProperties DEF Statuses
<1>3. /\ q \in Seq(Statuses) /\ q # <<>>
      /\ DOMAIN q = 1..(Len(p) + 1)
      /\ \A i \in 1..Len(p) : q[i] = p[i]
      /\ q[Len(p) + 1] = "failed"
  BY <1>2, AppendProperties DEF Statuses
<1>4. \A t : t \in ToSet(p) <=> t \in ToSet(posts) \/ t = "processing"
  BY <1>2 DEF ToSet
<1>5. \A t : t \in ToSet(q) <=> t \in ToSet(p) \/ t = "failed"
  BY <1>2, <1>3 DEF ToSet
<1> QED
  BY <1>1, <1>3, <1>4, <1>5 DEF Posted

\* The parts of the stores that have none to write to.
LEMMA PartFacts ==
  /\ store.parts = <<>> \/ store.parts = <<"log">> => ~HasPart("pipe") /\ ~HasPart("local")
  /\ store.parts = <<"pipe", "local">> => HasPart("pipe") /\ HasPart("local")
<1>1. ASSUME store.parts = <<>> PROVE ~HasPart("pipe") /\ ~HasPart("local")
  BY <1>1 DEF HasPart, Range
<1>2. ASSUME store.parts = <<"log">> PROVE ~HasPart("pipe") /\ ~HasPart("local")
  BY <1>2 DEF HasPart, Range
<1>3. ASSUME store.parts = <<"pipe", "local">> PROVE HasPart("pipe") /\ HasPart("local")
  <2>1. DOMAIN store.parts = 1..2 /\ store.parts[1] = "pipe" /\ store.parts[2] = "local"
    BY <1>3
  <2> QED
    BY <2>1 DEF HasPart, Range
<1> QED
  BY <1>1, <1>2, <1>3
-----------------------------------------------------------------------------
\* How far posts are in a script, and what one more does to that.

\* The elements of a sequence and of one that is longer by one.
LEMMA AppendFacts ==
  ASSUME NEW sent \in Seq(Statuses), NEW s \in Statuses
  PROVE  /\ Append(sent, s) \in Seq(Statuses) /\ Append(sent, s) # <<>>
         /\ Len(sent) \in Nat /\ Len(Append(sent, s)) = Len(sent) + 1
         /\ DOMAIN sent = 1..Len(sent) /\ DOMAIN Append(sent, s) = 1..(Len(sent) + 1)
         /\ \A i \in 1..Len(sent) : Append(sent, s)[i] = sent[i]
         /\ Append(sent, s)[Len(sent) + 1] = s
BY AppendProperties

\* The numbers up to n are finitely many, as those of them that count.
LEMMA CountFacts ==
  ASSUME NEW n \in Nat, NEW S \in SUBSET (1..n)
  PROVE  IsFiniteSet(S) /\ Cardinality(S) \in Nat /\ (Cardinality(S) = 0 <=> S = {})
<1>1. IsFiniteSet(1..n)
  BY FS_Interval
<1>2. IsFiniteSet(S)
  BY <1>1, FS_Subset
<1> QED
  BY <1>2, FS_CardinalityType, FS_EmptySet

\* Counting goes on by at most one.
LEMMA CountOneMore ==
  ASSUME NEW n \in Nat, NEW S \in SUBSET (1..n), NEW T, T = S \/ T = S \cup {n + 1}
  PROVE  /\ Cardinality(S) \in Nat
         /\ Cardinality(T) = Cardinality(S) + (IF T = S THEN 0 ELSE 1)
<1>1. IsFiniteSet(S) /\ Cardinality(S) \in Nat
  BY CountFacts
<1>2. n + 1 \notin S
  OBVIOUS
<1> QED
  BY <1>1, <1>2, FS_AddElement

\* One post more leaves the places of the others, and is counted if it is failed.
LEMMA PlacesKept ==
  ASSUME NEW sent \in Seq(Statuses), NEW s \in Statuses
  PROVE  LET t == Append(sent, s) IN
         /\ \A n \in 0..Len(sent) : Fails(t, n) = Fails(sent, n) /\ Place(t, n) = Place(sent, n)
         /\ Fails(sent, Len(sent)) \in Nat
         /\ Fails(t, Len(t)) = Fails(sent, Len(sent)) + (IF s = "failed" THEN 1 ELSE 0)
         /\ Place(sent, Len(sent)) \in Nat
         /\ Place(t, Len(t)) = Place(sent, Len(sent)) + (IF Absorbed(t, Len(t)) THEN 0 ELSE 1)
<1> DEFINE t == Append(sent, s)
           N == Len(sent)
           Failed(q, n) == {i \in 1..n : q[i] = "failed"}
           Placed(q, n) == {i \in 1..n : ~Absorbed(q, i)}
<1>1. /\ N \in Nat /\ Len(t) = N + 1
      /\ \A i \in 1..N : t[i] = sent[i]
      /\ t[N + 1] = s
  BY AppendFacts
<1> HIDE DEF t, N
<1>2. \A n \in 0..N : Failed(t, n) = Failed(sent, n)
  BY <1>1
<1>3. \A n \in 0..N : Fails(t, n) = Fails(sent, n)
  BY <1>2 DEF Fails
<1>4. \A i \in 1..N : Absorbed(t, i) <=> Absorbed(sent, i)
  <2> SUFFICES ASSUME NEW i \in 1..N PROVE Absorbed(t, i) <=> Absorbed(sent, i)
    OBVIOUS
  <2>1. t[i] = sent[i] /\ Fails(t, i - 1) = Fails(sent, i - 1) /\ (i > 1 => t[i - 1] = sent[i - 1])
    BY <1>1, <1>3
  <2> QED
    BY <2>1 DEF Absorbed
<1>5. \A n \in 0..N : Placed(t, n) = Placed(sent, n)
  BY <1>1, <1>4
<1>6. \A n \in 0..N : Place(t, n) = Place(sent, n)
  BY <1>5 DEF Place
<1>7. Failed(t, N + 1) = Failed(sent, N) \cup (IF s = "failed" THEN {N + 1} ELSE {})
  BY <1>1
<1>8. Fails(sent, N) \in Nat /\ Fails(t, N + 1) = Fails(sent, N) + (IF s = "failed" THEN 1 ELSE 0)
  <2>1. N + 1 \notin Failed(sent, N) /\ Failed(sent, N) \in SUBSET (1..N)
    BY <1>1
  <2>2. (Failed(t, N + 1) = Failed(sent, N)) <=> s # "failed"
    BY <1>7, <2>1
  <2> HIDE DEF Failed
  <2>3. Failed(t, N + 1) = Failed(sent, N) \/ Failed(t, N + 1) = Failed(sent, N) \cup {N + 1}
    BY <1>7
  <2>4. /\ Cardinality(Failed(sent, N)) \in Nat
        /\ Cardinality(Failed(t, N + 1)) = Cardinality(Failed(sent, N)) + (IF Failed(t, N + 1) = Failed(sent, N) THEN 0 ELSE 1)
    BY <1>1, <2>1, <2>3, CountOneMore
  <2> QED
    BY <2>2, <2>4 DEF Fails, Failed
<1>9. Placed(t, N + 1) = Placed(sent, N) \cup (IF Absorbed(t, N + 1) THEN {} ELSE {N + 1})
  BY <1>1, <1>4
<1>10. Place(sent, N) \in Nat /\ Place(t, N + 1) = Place(sent, N) + (IF Absorbed(t, N + 1) THEN 0 ELSE 1)
  <2>1. N + 1 \notin Placed(sent, N) /\ Placed(sent, N) \in SUBSET (1..N)
    BY <1>1
  <2>2. (Placed(t, N + 1) = Placed(sent, N)) <=> Absorbed(t, N + 1)
    BY <1>9, <2>1
  <2> HIDE DEF Placed
  <2>3. Placed(t, N + 1) = Placed(sent, N) \/ Placed(t, N + 1) = Placed(sent, N) \cup {N + 1}
    BY <1>9
  <2>4. /\ Cardinality(Placed(sent, N)) \in Nat
        /\ Cardinality(Placed(t, N + 1)) = Cardinality(Placed(sent, N)) + (IF Placed(t, N + 1) = Placed(sent, N) THEN 0 ELSE 1)
    BY <1>1, <2>1, <2>3, CountOneMore
  <2> QED
    BY <2>2, <2>4 DEF Place, Placed
<1> QED
  BY <1>1, <1>3, <1>6, <1>8, <1>10 DEF t, N

\* The first post is in its place whatever it is.
LEMMA FirstIsPlaced ==
  ASSUME NEW sent \in Seq(Statuses), NEW n \in Nat, n >= 1
  PROVE  Place(sent, n) \in Nat /\ Place(sent, n) >= 1
<1> DEFINE S == {i \in 1..n : ~Absorbed(sent, i)}
<1>1. Fails(sent, 0) = 0
  <2>1. {i \in 1..0 : sent[i] = "failed"} = {}
    OBVIOUS
  <2> QED
    BY <2>1, FS_EmptySet DEF Fails
<1>2. 1 \in S
  BY <1>1 DEF Absorbed
<1>3. Cardinality(S) \in Nat /\ Cardinality(S) # 0
  BY <1>2, CountFacts
<1> QED
  BY <1>3 DEF Place

\* The last post is the last of the script.
LEMMA LastIsTheScripts ==
  ASSUME NEW sent \in Seq(Statuses), NEW m, IsMerged(sent, m)
  PROVE  /\ sent = <<>> <=> m = <<>>
         /\ sent # <<>> => sent[Len(sent)] = m[Len(m)]
<1>1. Len(sent) \in Nat /\ DOMAIN sent = 1..Len(sent) /\ m \in Seq(Statuses) /\ Place(sent, Len(sent)) = Len(m)
  BY DEF IsMerged
<1>2. ASSUME sent = <<>> PROVE m = <<>>
  <2>1. Place(sent, 0) = 0
    <3>1. {i \in 1..0 : ~Absorbed(sent, i)} = {}
      OBVIOUS
    <3> QED
      BY <3>1, FS_EmptySet DEF Place
  <2> QED
    BY <1>1, <1>2, <2>1
<1>3. ASSUME sent # <<>> PROVE m # <<>> /\ sent[Len(sent)] = m[Len(m)]
  <2>1. Len(sent) \in DOMAIN sent
    BY <1>1, <1>3
  <2>2. m[Len(m)] = sent[Len(sent)]
    BY <1>1, <2>1 DEF IsMerged, Follows
  <2>3. Place(sent, Len(sent)) >= 1
    BY <1>1, <2>1, FirstIsPlaced
  <2> QED
    BY <1>1, <2>2, <2>3
<1> QED
  BY <1>2, <1>3

\* A post that is absorbed leaves the script, any other makes it longer.
LEMMA ScriptGrows ==
  ASSUME NEW sent \in Seq(Statuses), NEW m, IsMerged(sent, m), NEW s \in Statuses
  PROVE  LET t == Append(sent, s)
             again == \/ s = "processing" /\ m # <<>> /\ m[Len(m)] = s
                      \/ s = "failed" /\ Fails(sent, Len(sent)) >= 2
         IN /\ again /\ m[Len(m)] = s => IsMerged(t, m)
            /\ ~again => IsMerged(t, Append(m, s))
<1> DEFINE t == Append(sent, s)
           N == Len(sent)
           again == \/ s = "processing" /\ m # <<>> /\ m[Len(m)] = s
                    \/ s = "failed" /\ Fails(sent, N) >= 2
<1>1. /\ N \in Nat /\ Len(t) = N + 1 /\ t \in Seq(Statuses)
      /\ DOMAIN sent = 1..N /\ DOMAIN t = 1..(N + 1)
      /\ \A i \in 1..N : t[i] = sent[i]
      /\ t[N + 1] = s
  BY AppendFacts
<1>2. /\ \A n \in 0..N : Fails(t, n) = Fails(sent, n) /\ Place(t, n) = Place(sent, n)
      /\ Place(sent, N) \in Nat
      /\ Place(t, N + 1) = Place(sent, N) + (IF Absorbed(t, N + 1) THEN 0 ELSE 1)
  BY <1>1, PlacesKept
<1>3. /\ m \in Seq(Statuses) /\ Place(sent, N) = Len(m)
      /\ \A i \in 1..N : Place(sent, i) <= Len(m) /\ m[Place(sent, i)] = sent[i]
  BY <1>1 DEF IsMerged, Follows
<1>4. /\ sent = <<>> <=> m = <<>>
      /\ N > 0 => sent[N] = m[Len(m)]
      /\ N > 0 <=> sent # <<>>
  BY <1>1, LastIsTheScripts
<1>5. \A i \in 1..N : Place(sent, i) \in Nat /\ Place(sent, i) >= 1
  BY <1>1, FirstIsPlaced
<1> HIDE DEF t, N
<1>6. Absorbed(t, N + 1) <=> again
  <2>1. Fails(t, N + 1 - 1) = Fails(sent, N) /\ (N + 1 > 1 => t[N + 1 - 1] = sent[N])
    BY <1>1, <1>2
  <2> QED
    BY <1>1, <1>4, <2>1 DEF Absorbed
<1> HIDE DEF again
<1>7. ASSUME again, m[Len(m)] = s PROVE IsMerged(t, m)
  <2>1. Place(t, N + 1) = Len(m)
    BY <1>2, <1>3, <1>6, <1>7
  <2>2. \A i \in 1..N : Place(t, i) <= Len(m) /\ m[Place(t, i)] = t[i]
    BY <1>1, <1>2, <1>3
  <2>3. \A i \in 1..(N + 1) : Place(t, i) <= Len(m) /\ m[Place(t, i)] = t[i]
    BY <1>1, <1>3, <1>7, <2>1, <2>2
  <2> QED
    BY <1>1, <1>3, <2>1, <2>3 DEF IsMerged, Follows
<1>8. ASSUME ~again PROVE IsMerged(t, Append(m, s))
  <2>1. /\ Append(m, s) \in Seq(Statuses) /\ Len(m) \in Nat /\ Len(Append(m, s)) = Len(m) + 1
        /\ \A i \in 1..Len(m) : Append(m, s)[i] = m[i]
        /\ Append(m, s)[Len(m) + 1] = s
    BY <1>3, AppendFacts
  <2>2. Place(t, N + 1) = Len(m) + 1
    BY <1>2, <1>3, <1>6, <1>8
  <2>3. \A i \in 1..N : Place(t, i) <= Len(m) + 1 /\ Append(m, s)[Place(t, i)] = t[i]
    BY <1>1, <1>2, <1>3, <1>5, <2>1
  <2>4. Place(t, N + 1) <= Len(m) + 1 /\ Append(m, s)[Place(t, N + 1)] = t[N + 1]
    BY <1>1, <2>1, <2>2
  <2>5. \A i \in 1..(N + 1) : Place(t, i) <= Len(m) + 1 /\ Append(m, s)[Place(t, i)] = t[i]
    <3> TAKE i \in 1..(N + 1)
    <3>1. i \in 1..N \/ i = N + 1
      BY <1>1
    <3> QED
      BY <2>3, <2>4, <3>1, Zenon
  <2> QED
    BY <1>1, <2>1, <2>2, <2>5 DEF IsMerged, Follows
<1> QED
  BY <1>7, <1>8 DEF t, N, again

\* The script l is m with one post more.
IsNext(m, s, l) ==
  /\ l \in Seq(Statuses) /\ Len(l) = Len(m) + 1
  /\ \A i \in 1..Len(m) : l[i] = m[i]
  /\ l[Len(m) + 1] = s

\* What is told depends on the posts alone.
LEMMA ToldPrimed ==
  ASSUME NEW m, NEW k
  PROVE  /\ IsMerged(posts, m)' <=> IsMerged(posts', m)
         /\ Told(m, k)' <=> IsMerged(posts', m) /\ Fails(posts', Len(posts')) = k
<1>1. IsMerged(posts, m)' <=> IsMerged(posts', m)
  BY DEF IsMerged, Follows, Place, Absorbed, Fails
<1>2. Fails(posts, Len(posts))' = Fails(posts', Len(posts'))
  BY DEF Fails
<1> QED
  BY <1>1, <1>2 DEF Told

\* Without a post it stays as it is.
LEMMA SaysNothing ==
  ASSUME UNCHANGED posts, NEW m, NEW k
  PROVE  (Told(m, k) => Told(m, k)') /\ (IsMerged(posts, m) => IsMerged(posts, m)')
BY ToldPrimed DEF Told

LEMMA NextIsAppend ==
  ASSUME NEW m \in Seq(Statuses), NEW s \in Statuses, NEW l, IsNext(m, s, l)
  PROVE  l = Append(m, s)
<1>1. Append(m, s) \in Seq(Statuses) /\ l \in Seq(Statuses) /\ Len(Append(m, s)) = Len(l)
  BY AppendFacts DEF IsNext
<1>2. \A i \in 1..Len(l) : l[i] = Append(m, s)[i]
  BY AppendFacts DEF IsNext
<1> QED
  BY <1>1, <1>2, SeqEqual

\* A post that is not absorbed makes the script longer, one that is tells it again.
LEMMA Says ==
  ASSUME posts \in Seq(Statuses), NEW m, NEW k \in Nat, NEW s \in Statuses \ {"failed"},
         Told(m, k), Emit(s)
  PROVE  /\ \A l : IsNext(m, s, l) /\ (s = "processing" => m[Len(m)] # s) => Told(l, k)'
         /\ s = "processing" /\ m # <<>> /\ m[Len(m)] = s => Told(m, k)'
<1>1. IsMerged(posts, m) /\ Fails(posts, Len(posts)) = k /\ posts' = Append(posts, s)
  BY DEF Told, Emit
<1>2. Fails(posts', Len(posts')) = k
  BY <1>1, PlacesKept
<1>3. /\ (s = "processing" => m[Len(m)] # s) => IsMerged(posts', Append(m, s))
      /\ s = "processing" /\ m # <<>> /\ m[Len(m)] = s => IsMerged(posts', m)
  BY <1>1, ScriptGrows
<1>4. \A l : IsNext(m, s, l) => l = Append(m, s)
  BY <1>1, NextIsAppend DEF IsMerged
<1> QED
  BY <1>2, <1>3, <1>4, ToldPrimed

\* The same for failed, which is told twice at most.
LEMMA SaysFailed ==
  ASSUME posts \in Seq(Statuses), NEW m, NEW k \in Nat, Told(m, k), Emit("failed")
  PROVE  /\ \A l, j : IsNext(m, "failed", l) /\ k < 2 /\ j = k + 1 => Told(l, j)'
         /\ k = 2 /\ m[Len(m)] = "failed" => Told(m, 3)'
<1>1. /\ IsMerged(posts, m) /\ Fails(posts, Len(posts)) = k /\ posts' = Append(posts, "failed")
      /\ "failed" \in Statuses
  BY DEF Told, Emit, Statuses
<1>2. Fails(posts', Len(posts')) = k + 1
  BY <1>1, PlacesKept
<1>3. /\ k < 2 => IsMerged(posts', Append(m, "failed"))
      /\ k = 2 /\ m[Len(m)] = "failed" => IsMerged(posts', m)
  BY <1>1, ScriptGrows
<1>4. \A l : IsNext(m, "failed", l) => l = Append(m, "failed")
  BY <1>1, NextIsAppend DEF IsMerged
<1>5. ASSUME NEW l, NEW j, IsNext(m, "failed", l), k < 2, j = k + 1
      PROVE  Told(l, j)'
  <2>1. IsMerged(posts', l) /\ Fails(posts', Len(posts')) = j
    BY <1>2, <1>3, <1>4, <1>5
  <2> QED
    BY <2>1, ToldPrimed
<1>6. ASSUME k = 2, m[Len(m)] = "failed"
      PROVE  Told(m, 3)'
  <2>1. IsMerged(posts', m) /\ Fails(posts', Len(posts')) = 3
    BY <1>2, <1>3, <1>6
  <2> QED
    BY <2>1, ToldPrimed
<1> QED
  BY <1>5, <1>6

\* What they are made of.
LEMMA ScriptFacts ==
  /\ "started" \in Statuses /\ "processing" \in Statuses /\ "failed" \in Statuses /\ "completed" \in Statuses
  /\ Silent \in Seq(Statuses) /\ Len(Silent) = 0
  /\ Begun \in Seq(Statuses) /\ Len(Begun) = 1 /\ Begun[1] = "started"
  /\ Refused \in Seq(Statuses) /\ Len(Refused) = 2 /\ Refused[1] = "started" /\ Refused[2] = "failed"
  /\ Underway \in Seq(Statuses) /\ Len(Underway) = 2 /\ Underway[1] = "started" /\ Underway[2] = "processing"
  /\ Failing \in Seq(Statuses) /\ Len(Failing) = 3 /\ Failing[1] = "started" /\ Failing[2] = "processing"
  /\ Failing[3] = "failed"
  /\ Completing \in Seq(Statuses) /\ Len(Completing) = 3 /\ Completing[1] = "started"
  /\ Completing[2] = "processing" /\ Completing[3] = "completed"
  /\ FailedAtOnce \in Seq(Statuses) /\ Len(FailedAtOnce) = 3 /\ FailedAtOnce[1] = "started"
  /\ FailedAtOnce[2] = "failed" /\ FailedAtOnce[3] = "failed"
  /\ FailedInTheEnd \in Seq(Statuses) /\ Len(FailedInTheEnd) = 4 /\ FailedInTheEnd[1] = "started"
  /\ FailedInTheEnd[2] = "processing" /\ FailedInTheEnd[3] = "failed" /\ FailedInTheEnd[4] = "failed"
  /\ Completed \in Seq(Statuses) /\ Len(Completed) = 4 /\ Completed[1] = "started"
  /\ Completed[2] = "processing" /\ Completed[3] = "completed" /\ Completed[4] = "completed"
BY DEF Statuses, Silent, Begun, Refused, Underway, Failing, Completing, FailedAtOnce, FailedInTheEnd, Completed

LEMMA ScriptsNamed == Scripts = {FailedAtOnce, FailedInTheEnd, Completing, Completed}
BY DEF Scripts, FailedAtOnce, FailedInTheEnd, Completing, Completed

\* How a worker goes on in a script.
LEMMA NextPosts ==
  ASSUME posts \in Seq(Statuses)
  PROVE  /\ Emit("started") /\ Told(Silent, 0) => Told(Begun, 0)'
         /\ Emit("processing") /\ Told(Begun, 0) => Told(Underway, 0)'
         /\ Emit("processing") /\ Told(Underway, 0) => Told(Underway, 0)'
         /\ Emit("failed") /\ Told(Begun, 0) => Told(Refused, 1)'
         /\ Emit("failed") /\ Told(Refused, 1) => Told(FailedAtOnce, 2)'
         /\ Emit("failed") /\ Told(Underway, 0) => Told(Failing, 1)'
         /\ Emit("failed") /\ Told(Failing, 1) => Told(FailedInTheEnd, 2)'
         /\ Emit("failed") /\ Told(FailedInTheEnd, 2) => Told(FailedInTheEnd, 3)'
         /\ Emit("completed") /\ Told(Underway, 0) => Told(Completing, 0)'
         /\ Emit("completed") /\ Told(Completing, 0) => Told(Completed, 0)'
<1>1. IsNext(Silent, "started", Begun)
  BY ScriptFacts DEF IsNext
<1>2. IsNext(Begun, "processing", Underway) /\ Begun[Len(Begun)] # "processing"
  BY ScriptFacts DEF IsNext
<1>3. IsNext(Begun, "failed", Refused)
  BY ScriptFacts DEF IsNext
<1>4. IsNext(Refused, "failed", FailedAtOnce)
  BY ScriptFacts DEF IsNext
<1>5. IsNext(Underway, "failed", Failing)
  BY ScriptFacts DEF IsNext
<1>6. IsNext(Failing, "failed", FailedInTheEnd)
  BY ScriptFacts DEF IsNext
<1>7. IsNext(Underway, "completed", Completing)
  BY ScriptFacts DEF IsNext
<1>8. IsNext(Completing, "completed", Completed)
  BY ScriptFacts DEF IsNext
<1>9. /\ Underway # <<>> /\ Underway[Len(Underway)] = "processing"
      /\ FailedInTheEnd # <<>> /\ FailedInTheEnd[Len(FailedInTheEnd)] = "failed"
  BY ScriptFacts
<1>10. /\ "started" \in Statuses \ {"failed"} /\ "processing" \in Statuses \ {"failed"}
       /\ "completed" \in Statuses \ {"failed"}
  BY ScriptFacts
<1> DEFINE P(s, m, k, l, j) == Emit(s) /\ Told(m, k) => Told(l, j)'
<1>11. P("started", Silent, 0, Begun, 0)
  BY <1>1, <1>10, Says
<1>12. P("processing", Begun, 0, Underway, 0)
  BY <1>2, <1>10, Says
<1>13. P("failed", Begun, 0, Refused, 1)
  BY <1>3, <1>10, SaysFailed
<1>14. P("failed", Refused, 1, FailedAtOnce, 2)
  BY <1>4, <1>10, SaysFailed
<1>15. P("failed", Underway, 0, Failing, 1)
  BY <1>5, <1>10, SaysFailed
<1>16. P("failed", Failing, 1, FailedInTheEnd, 2)
  BY <1>6, <1>10, SaysFailed
<1>17. P("completed", Underway, 0, Completing, 0)
  BY <1>7, <1>10, Says
<1>18. P("completed", Completing, 0, Completed, 0)
  BY <1>8, <1>10, Says
<1>19. P("processing", Underway, 0, Underway, 0)
  BY <1>9, <1>10, Says
<1>20. P("failed", FailedInTheEnd, 2, FailedInTheEnd, 3)
  BY <1>9, <1>10, SaysFailed
<1> QED
  BY <1>11, <1>12, <1>13, <1>14, <1>15, <1>16, <1>17, <1>18, <1>19, <1>20, Zenon
-----------------------------------------------------------------------------
\* The steps.

\* The invariant holds when the process starts.
LEMMA RenderInitOK ==
  ASSUME Init PROVE IInv
<1>1. SnapInv
  BY SnapInitOK DEF Init
<1>2. TypeOK
  <2>1. posts \in Seq({"started", "processing", "failed", "completed"})
    BY DEF Init
  <2> QED
    BY <1>1, <2>1, MaxTilesAssumption DEF Init, TypeOK, SnapInv, Labels
<1>3. \A s : ~Posted(s)
  BY DEF Init, Posted, ToSet
<1>4. PostInv
  BY <1>3 DEF Init, PostInv, Ends
<1>5. ImageInv /\ PdfInv
  BY DEF Init, ImageInv, PdfInv
<1>6. CallInv
  BY MeFacts DEF Init, SnapInit, CallInv
<1>7. Told(Silent, 0)
  <2>1. /\ posts = <<>> /\ Len(posts) = 0 /\ DOMAIN posts = {}
        /\ {i \in 1..0 : posts[i] = "failed"} = {} /\ {i \in 1..0 : ~Absorbed(posts, i)} = {}
    BY DEF Init
  <2>2. Fails(posts, 0) = 0 /\ Place(posts, 0) = 0
    BY <2>1, FS_EmptySet DEF Fails, Place
  <2> QED
    BY <2>1, <2>2 DEF Told, IsMerged, Follows, Silent
<1>8. ScriptInv
  BY <1>7 DEF Init, ScriptInv, Rendering
<1> QED
  BY <1>1, <1>2, <1>4, <1>5, <1>6, <1>8 DEF IInv

\* Outside of Snapshot the worker changes nothing of the manager's, but for
\* the context it cancels at its end.
LEMMA Apart ==
  ASSUME GeneratePDF \/ StartImage \/ NoPNGWriter \/ BackingStoreFails \/ TilesDone \/ WritePNG
           \/ EncodeFails \/ BadJob \/ Notify \/ Exit
  PROVE  UNCHANGED snapVars
BY DEF GeneratePDF, Start, NoFileWriter, CreateSVG, NoSVGWriter, OpenSVG, WriteSVG, TemplateFails,
   TemplateDone, FetchAsset, WriteAsset, Convert, ConvertFails, Converted, NothingToStore,
   PDFNotWanted, NoPDFWriter, OpenPDF, PDFUnreadable, CopyPDF, Complete, RunDeferred, StartImage,
   NoPNGWriter, BackingStoreFails, TilesDone, WritePNG, EncodeFails, BadJob, Notify, Exit

\* SnapInv: the worker is one of the callers of Snapshot.
LEMMA SnapInvStep ==
  ASSUME IInv, [Next]_vars
  PROVE  SnapInv'
<1>1. SnapInv /\ Me \in Callers
  BY MeFacts DEF IInv
<1>2. CASE GeneratePDF \/ StartImage \/ NoPNGWriter \/ BackingStoreFails \/ TilesDone \/ WritePNG
           \/ EncodeFails \/ BadJob \/ Notify \/ Exit
  BY <1>1, <1>2, Apart, OthersKeep
<1>3. CASE AskForTile \/ SendTile \/ TakeTile \/ TileFails
  <2>1. Accept(Me) \/ Refuse(Me) \/ Send(Me) \/ Return(Me)
    BY <1>3 DEF AskForTile, SendTile, TakeTile, TileFails
  <2> QED
    BY <1>1, <2>1, CallerKeeps
<1>4. CASE SnapshotManager
  BY <1>1, <1>4, ManagerKeeps DEF SnapshotManager
<1>5. CASE CancelRender
  BY <1>1, <1>5, OthersKeep DEF CancelRender
<1>6. CASE RunCancel
  <2>1. ctxDone' = TRUE /\ UNCHANGED <<callers, running, closed, senders, serving, stuck, call>>
    BY <1>6 DEF RunCancel
  <2>2. SnapTypeOK'
    BY <1>1, <2>1 DEF SnapInv, SnapTypeOK
  <2>3. KnownWaiters'
    BY <1>1, <2>1, SameSenders DEF SnapInv, KnownWaiters
  <2> QED
    BY <2>2, <2>3 DEF SnapInv
<1>7. ASSUME NEW f \in Files, UploadEnds(f) \/ UploadFails(f)
      PROVE  SnapInv'
  BY <1>1, <1>7, OthersKeep DEF UploadEnds, UploadFails
<1>8. CASE UNCHANGED vars
  BY <1>1, <1>8, OthersKeep DEF vars
<1> QED
  BY <1>2, <1>3, <1>4, <1>5, <1>6, <1>7, <1>8 DEF Next, MainStep, GenerateImage

\* PostInv: each step posts what its return says.
LEMMA PostInvStep ==
  ASSUME IInv, [Next]_vars
  PROVE  PostInv'
<1> USE DEF PostInv, Ends
<1>1. /\ PostInv /\ posts \in Seq(Statuses) /\ err \in {"none", "nil", "error"}
  BY DEF IInv, TypeOK, Statuses
<1>2. /\ "started" \in Statuses /\ "processing" \in Statuses
      /\ "failed" \in Statuses /\ "completed" \in Statuses
  BY DEF Statuses
<1>3. CASE Start \/ CreateSVG \/ Convert \/ StartImage
  <2>1. /\ Emit("started") \/ Emit("processing")
        /\ pc \in {"main", "started", "fill", "convert"} /\ pc' \in {"started", "svg", "tile", "svg2pdf"}
        /\ UNCHANGED <<err, exitCode>>
    BY <1>3 DEF Start, CreateSVG, Convert, StartImage, Goto
  <2>2. \A t : Posted(t)' => Posted(t) \/ t \in {"started", "processing"}
    BY <1>1, <1>2, <2>1, EmitFacts
  <2> QED
    BY <1>1, <2>1, <2>2
<1>4. ASSUME EmitError, pc \notin Ends, exitCode' = exitCode
      PROVE  PostInv'
  <2>1. Emit("failed") /\ err' = "error" /\ pc' = "defer"
    BY <1>4 DEF EmitError, Goto
  <2>2. \A t : Posted(t)' => Posted(t) \/ t = "failed"
    BY <1>1, <1>2, <2>1, EmitFacts
  <2> QED
    BY <1>1, <1>4, <2>1, <2>2
<1>5. CASE NoFileWriter \/ TemplateFails \/ ConvertFails \/ NoPDFWriter \/ PDFUnreadable
  BY <1>4, <1>5 DEF NoFileWriter, TemplateFails, ConvertFails, NoPDFWriter, PDFUnreadable, files
<1>6. CASE OpenSVG \/ Converted
  <2>1. CASE ctxDone
    BY <1>4, <1>6, <2>1 DEF OpenSVG, Converted, files
  <2>2. CASE ~ctxDone
    BY <1>1, <1>6, <2>2, SilentFacts DEF OpenSVG, Converted, Goto
  <2> QED
    BY <2>1, <2>2
<1>7. CASE TileFails \/ BackingStoreFails \/ EncodeFails
  <2>1. /\ Emit("failed") /\ pc \in {"tile", "png"} /\ pc' = "broken" /\ UNCHANGED <<err, exitCode>>
    BY <1>7 DEF TileFails, BackingStoreFails, EncodeFails, ImageError, Goto
  <2>2. \A t : Posted(t)' => Posted(t) \/ t = "failed"
    BY <1>1, <1>2, <2>1, EmitFacts
  <2> QED
    BY <1>1, <2>1, <2>2
<1>8. CASE NoPNGWriter
  <2>1. /\ posts' = posts \o <<"processing", "failed">>
        /\ pc = "fill" /\ pc' = "broken" /\ UNCHANGED <<err, exitCode>>
    BY <1>8 DEF NoPNGWriter, Goto
  <2>2. \A t : Posted(t)' <=> Posted(t) \/ t \in {"processing", "failed"}
    BY <1>1, <2>1, TwoPosts
  <2> QED
    BY <1>1, <2>1, <2>2
<1>9. CASE Complete
  <2>1. Emit("completed") /\ pc = "complete" /\ pc' = "defer" /\ err' = "nil" /\ UNCHANGED exitCode
    BY <1>9 DEF Complete, Goto
  <2>2. \A t : Posted(t)' => Posted(t) \/ t = "completed"
    BY <1>1, <1>2, <2>1, EmitFacts
  <2> QED
    BY <1>1, <2>1, <2>2
<1>10. CASE Notify
  <2>1. /\ Emit(IF err = "nil" THEN "completed" ELSE "failed")
        /\ pc = "notify" /\ pc' = "cancel" /\ UNCHANGED <<err, exitCode>>
    BY <1>10 DEF Notify, Goto
  <2>2. err \in {"nil", "error"}
    BY <1>1, <2>1
  <2>3. CASE err = "nil"
    <3>1. Emit("completed")
      BY <2>1, <2>3
    <3>2. Last(posts') = "completed" /\ \A t : Posted(t)' => Posted(t) \/ t = "completed"
      BY <1>1, <1>2, <3>1, EmitFacts
    <3> QED
      BY <1>1, <2>1, <2>3, <3>2
  <2>4. CASE err = "error"
    <3>1. Emit("failed")
      BY <2>1, <2>4
    <3>2. Last(posts') = "failed" /\ \A t : Posted(t)' => Posted(t) \/ t = "failed"
      BY <1>1, <1>2, <3>1, EmitFacts
    <3> QED
      BY <1>1, <2>1, <2>4, <3>2
  <2> QED
    BY <2>2, <2>3, <2>4
<1>11. CASE WriteSVG \/ TemplateDone \/ FetchAsset \/ WriteAsset \/ NothingToStore \/ OpenPDF \/ CopyPDF
            \/ TilesDone \/ WritePNG
  <2>1. /\ UNCHANGED <<posts, err, exitCode>> /\ pc \notin Ends \cup {"main", "broken"}
        /\ pc' \notin Ends \cup {"main", "broken"}
    BY <1>11 DEF WriteSVG, TemplateDone, FetchAsset, WriteAsset, NothingToStore, OpenPDF, CopyPDF,
       TilesDone, WritePNG, Goto
  <2> QED
    BY <1>1, <2>1, SilentFacts
<1>12. CASE PDFNotWanted
  <2>1. pc = "pdf" /\ pc' = "defer" /\ err' = "nil" /\ UNCHANGED <<posts, exitCode>>
    BY <1>12 DEF PDFNotWanted, Goto
  <2> QED
    BY <1>1, <2>1, SilentFacts
<1>13. CASE NoSVGWriter \/ BadJob
  BY <1>1, <1>13, SilentFacts DEF NoSVGWriter, BadJob, Goto
<1>14. CASE RunDeferred \/ RunCancel
  BY <1>1, <1>14, SilentFacts DEF RunDeferred, RunCancel, Goto
<1>15. CASE Exit
  BY <1>1, <1>15, SilentFacts DEF Exit, Goto
<1>16. CASE AskForTile \/ SendTile \/ TakeTile \/ SnapshotManager \/ CancelRender
  BY <1>1, <1>16, SilentFacts DEF AskForTile, SendTile, TakeTile, SnapshotManager, CancelRender, renderVars
<1>17. ASSUME NEW f \in Files, UploadEnds(f) \/ UploadFails(f)
       PROVE  PostInv'
  BY <1>1, <1>17, SilentFacts DEF UploadEnds, UploadFails
<1>18. CASE UNCHANGED vars
  BY <1>1, <1>18, SilentFacts DEF vars, renderVars
<1> QED
  BY <1>3, <1>5, <1>6, <1>7, <1>8, <1>9, <1>10, <1>11, <1>12, <1>13, <1>14, <1>15, <1>16, <1>17, <1>18
     DEF Next, MainStep, GeneratePDF, GenerateImage

\* ImageInv: tiles are drawn until none is left or one fails, and that ends the template.
LEMMA ImageInvStep ==
  ASSUME IInv, [Next]_vars
  PROVE  ImageInv'
<1> USE DEF ImageInv
<1>1. ImageInv /\ PostInv /\ TypeOK
  BY DEF IInv
<1>2. CASE Start \/ CreateSVG \/ NoSVGWriter \/ WriteSVG \/ TemplateDone \/ WriteAsset \/ Convert
           \/ NothingToStore \/ PDFNotWanted \/ OpenPDF \/ CopyPDF \/ Complete \/ RunDeferred
  <2>1. /\ UNCHANGED <<todo, tiles, lost>> /\ pc \notin {"tile", "broken"} \cup (Ends \ {"defer"})
        /\ pc' \notin {"tile", "png", "broken"} /\ (err # "error" \/ UNCHANGED err)
    BY <1>1, <1>2 DEF Start, CreateSVG, NoSVGWriter, WriteSVG, TemplateDone, WriteAsset, Convert,
       NothingToStore, PDFNotWanted, OpenPDF, CopyPDF, Complete, RunDeferred, files, Goto, Ends, PostInv
  <2> QED
    BY <1>1, <2>1
<1>3. CASE NoFileWriter \/ TemplateFails \/ ConvertFails \/ PDFUnreadable \/ NoPDFWriter
  <2>1. /\ UNCHANGED <<todo, tiles>> /\ pc' = "defer" /\ err' = "error"
        /\ "png" \in lost' => "png" \in lost
    BY <1>3 DEF NoFileWriter, TemplateFails, ConvertFails, PDFUnreadable, NoPDFWriter, EmitError,
       LosePipe, files, Goto
  <2> QED
    BY <1>1, <2>1
<1>4. CASE OpenSVG \/ Converted
  <2>1. /\ UNCHANGED <<todo, tiles, lost>> /\ pc \in {"svg", "svg2pdf"}
        /\ pc' \in {"template", "pdf", "defer"} /\ (err' = "error" \/ UNCHANGED err)
    BY <1>4 DEF OpenSVG, Converted, EmitError, files, Goto
  <2> QED
    BY <1>1, <2>1
<1>5. CASE FetchAsset
  BY <1>1, <1>5 DEF FetchAsset, Goto
<1>6. CASE StartImage \/ NoPNGWriter
  <2>1. /\ "image" \in todo /\ "image" \notin todo' /\ pc' \in {"tile", "broken"}
        /\ pc' = "tile" => UNCHANGED lost
    BY <1>6 DEF StartImage, NoPNGWriter, Goto
  <2> QED
    BY <1>1, <2>1
<1>7. CASE TakeTile \/ AskForTile \/ SendTile \/ SnapshotManager \/ CancelRender
  <2>1. /\ UNCHANGED <<todo, pc, err, lost>>
        /\ UNCHANGED tiles \/ pc = "tile"
    BY <1>7 DEF TakeTile, AskForTile, SendTile, SnapshotManager, CancelRender, renderVars, files
  <2> QED
    BY <1>1, <2>1
<1>8. CASE TileFails \/ BackingStoreFails \/ EncodeFails
  BY <1>1, <1>8 DEF TileFails, BackingStoreFails, EncodeFails, ImageError, Goto
<1>9. CASE TilesDone \/ WritePNG
  BY <1>1, <1>9 DEF TilesDone, WritePNG, files, Goto
<1>10. CASE BadJob \/ Notify \/ RunCancel \/ Exit
  <2>1. /\ UNCHANGED <<todo, tiles, lost>> /\ pc \notin {"tile", "broken", "png"}
        /\ pc' \in Ends /\ (err' = "error" \/ UNCHANGED err)
    BY <1>10 DEF BadJob, Notify, RunCancel, Exit, files, Goto, Ends
  <2> QED
    BY <1>1, <2>1 DEF Ends
<1>11. ASSUME NEW f \in Files, UploadEnds(f) \/ UploadFails(f)
       PROVE  ImageInv'
  BY <1>1, <1>11 DEF UploadEnds, UploadFails
<1>12. CASE UNCHANGED vars
  BY <1>1, <1>12 DEF vars, renderVars, files
<1> QED
  BY <1>2, <1>3, <1>4, <1>5, <1>6, <1>7, <1>8, <1>9, <1>10, <1>11, <1>12
     DEF Next, MainStep, GeneratePDF, GenerateImage

\* An upload that was started is never forgotten.
LEMMA UploadKept ==
  ASSUME IInv, [Next]_vars, upload["pdf"] # "none"
  PROVE  upload'["pdf"] # "none"
<1> USE DEF Files
<1>1. upload \in [Files -> {"none", "reading", "stored", "failed"}]
  BY DEF IInv, TypeOK
<1>2. ASSUME NEW f \in Files, OpenFile(f)
      PROVE  upload'["pdf"] # "none"
  BY <1>1, <1>2 DEF OpenFile
<1>3. CASE OpenSVG \/ FetchAsset \/ StartImage \/ OpenPDF
  BY <1>2, <1>3 DEF OpenSVG, FetchAsset, StartImage, OpenPDF
<1>4. CASE NoPNGWriter \/ NoPDFWriter
  BY <1>2, <1>4 DEF NoPNGWriter, NoPDFWriter, LosePipe
<1>5. ASSUME NEW f \in Files, UploadEnds(f) \/ UploadFails(f)
      PROVE  upload'["pdf"] # "none"
  BY <1>1, <1>5 DEF UploadEnds, UploadFails
<1>6. CASE Start \/ NoFileWriter \/ CreateSVG \/ NoSVGWriter \/ WriteSVG \/ TemplateFails \/ TemplateDone
           \/ WriteAsset \/ Convert \/ ConvertFails \/ Converted \/ NothingToStore \/ PDFNotWanted
           \/ PDFUnreadable \/ CopyPDF \/ Complete \/ RunDeferred
  BY <1>6 DEF Start, NoFileWriter, CreateSVG, NoSVGWriter, WriteSVG, TemplateFails, TemplateDone,
     WriteAsset, Convert, ConvertFails, Converted, NothingToStore, PDFNotWanted, PDFUnreadable,
     CopyPDF, Complete, RunDeferred, files
<1>7. CASE AskForTile \/ SendTile \/ TakeTile \/ TileFails \/ BackingStoreFails \/ TilesDone \/ WritePNG
           \/ EncodeFails \/ BadJob \/ Notify \/ RunCancel \/ Exit \/ SnapshotManager \/ CancelRender
           \/ UNCHANGED vars
  BY <1>7 DEF AskForTile, SendTile, TakeTile, TileFails, BackingStoreFails, TilesDone, WritePNG,
     EncodeFails, BadJob, Notify, RunCancel, Exit, SnapshotManager, CancelRender, vars, renderVars, files
<1> QED
  BY <1>3, <1>4, <1>5, <1>6, <1>7 DEF Next, MainStep, GeneratePDF, GenerateImage

\* PdfInv: GeneratePDF gets past a store that wants the PDF by a copy only.
LEMMA PdfInvStep ==
  ASSUME IInv, [Next]_vars
  PROVE  PdfInv'
<1> USE DEF PdfInv
<1>1. /\ PdfInv /\ PostInv /\ TypeOK
      /\ upload["pdf"] # "none" => upload'["pdf"] # "none"
  BY UploadKept DEF IInv
<1>2. UNCHANGED store => \A kind : HasPart(kind)' = HasPart(kind)
  BY DEF HasPart
<1>3. CASE Start \/ NoFileWriter \/ CreateSVG \/ NoSVGWriter \/ OpenSVG \/ WriteSVG \/ TemplateFails
           \/ TemplateDone \/ FetchAsset \/ WriteAsset \/ Convert \/ ConvertFails \/ Converted
           \/ NoPDFWriter \/ PDFUnreadable
  <2>1. /\ UNCHANGED store /\ pc' \notin {"copy", "complete"}
        /\ err' = "error" \/ (err # "nil" /\ UNCHANGED err)
    BY <1>1, <1>3 DEF Start, NoFileWriter, CreateSVG, NoSVGWriter, OpenSVG, WriteSVG, TemplateFails,
       TemplateDone, FetchAsset, WriteAsset, Convert, ConvertFails, Converted, NoPDFWriter,
       PDFUnreadable, EmitError, Goto, PostInv, Ends
  <2> QED
    BY <1>2, <2>1
<1>4. CASE NothingToStore \/ PDFNotWanted
  <2>1. /\ UNCHANGED store /\ pc' \in {"complete", "defer"}
        /\ store.parts = <<>> \/ store.parts = <<"log">>
    BY <1>4 DEF NothingToStore, PDFNotWanted, Goto
  <2> QED
    BY <1>2, <2>1, PartFacts
<1>5. CASE OpenPDF
  <2>1. /\ UNCHANGED <<store, err>> /\ pc = "pdf" /\ pc' = "copy"
    BY <1>5 DEF OpenPDF, Goto
  <2>2. HasPart("pipe") => upload'["pdf"] = "reading"
    BY <1>1, <1>5 DEF OpenPDF, OpenFile, Piped, TypeOK, Files
  <2> QED
    BY <1>1, <1>2, <2>1, <2>2 DEF PostInv, Ends
<1>6. CASE CopyPDF
  BY <1>1, <1>2, <1>6 DEF CopyPDF, Goto
<1>7. CASE Complete \/ RunDeferred \/ Notify \/ RunCancel \/ Exit
  <2>1. /\ UNCHANGED <<store, upload, pdf>> /\ pc \notin {"copy"} /\ pc' \notin {"copy", "complete"}
        /\ pc = "complete" \/ UNCHANGED err
    BY <1>7 DEF Complete, RunDeferred, Notify, RunCancel, Exit, files, Goto
  <2> QED
    BY <1>1, <1>2, <2>1
<1>8. CASE GenerateImage
  <2>1. /\ UNCHANGED <<store, pdf, err>>
        /\ pc' \notin {"copy", "complete"} \/ UNCHANGED pc
    BY <1>8 DEF GenerateImage, StartImage, NoPNGWriter, AskForTile, SendTile, TakeTile, TileFails,
       BackingStoreFails, TilesDone, WritePNG, EncodeFails, ImageError, renderVars, files, Goto
  <2> QED
    BY <1>1, <1>2, <2>1
<1>9. CASE BadJob
  BY <1>2, <1>9 DEF BadJob, Goto
<1>10. CASE SnapshotManager \/ CancelRender \/ UNCHANGED vars
  BY <1>1, <1>2, <1>10 DEF SnapshotManager, CancelRender, vars, renderVars, files
<1>11. ASSUME NEW f \in Files, UploadEnds(f) \/ UploadFails(f)
       PROVE  PdfInv'
  BY <1>1, <1>2, <1>11 DEF UploadEnds, UploadFails
<1> QED
  BY <1>3, <1>4, <1>5, <1>6, <1>7, <1>8, <1>9, <1>10, <1>11 DEF Next, MainStep, GeneratePDF

\* CallInv: after a refusal the image fails, and the template with it.
LEMMA CallInvStep ==
  ASSUME IInv, [Next]_vars
  PROVE  CallInv'
<1> USE DEF CallInv
<1>1. CallInv /\ TypeOK /\ SnapTypeOK /\ KnownWaiters /\ ImageInv /\ Me \in Callers
  BY MeFacts DEF IInv, SnapInv
<1>2. CASE GeneratePDF \/ BadJob \/ Notify \/ Exit
  <2>1. UNCHANGED snapVars
    BY <1>2, Apart
  <2>2. /\ pc # "tile" /\ pc' # "tile" /\ todo' \subseteq todo
        /\ UNCHANGED tiles
    BY <1>2 DEF GeneratePDF, Start, NoFileWriter, CreateSVG, NoSVGWriter, OpenSVG, WriteSVG,
       TemplateFails, TemplateDone, FetchAsset, WriteAsset, Convert, ConvertFails, Converted,
       NothingToStore, PDFNotWanted, NoPDFWriter, OpenPDF, PDFUnreadable, CopyPDF, Complete,
       RunDeferred, BadJob, Notify, Exit, EmitError, Goto
  <2> QED
    BY <1>1, <2>1, <2>2 DEF snapVars
<1>3. CASE StartImage \/ NoPNGWriter
  <2>1. /\ UNCHANGED snapVars /\ "image" \in todo /\ pc = "fill"
        /\ pc' \in {"tile", "broken"} /\ UNCHANGED tiles
    BY <1>3 DEF StartImage, NoPNGWriter, Goto
  <2>2. ~closed /\ ~stuck /\ call[Me] = "out"
    BY <1>1, <2>1
  <2> QED
    BY <1>1, <2>1, <2>2 DEF snapVars
<1>4. CASE AskForTile
  <2>1. /\ pc = "tile" /\ tiles > 0 /\ UNCHANGED <<pc, tiles, todo, callers, running, stuck>>
        /\ Accept(Me) \/ Refuse(Me)
    BY <1>4 DEF AskForTile, Accept, Refuse, renderVars
  <2>2. "image" \notin todo /\ call[Me] = "out" /\ ~closed
    BY <1>1, <2>1 DEF Accept, Refuse, ImageInv
  <2>3. CASE Accept(Me)
    BY <1>1, <2>1, <2>2, <2>3 DEF Accept, SnapTypeOK
  <2>4. CASE Refuse(Me)
    <3>1. call'[Me] = "refused" /\ ~running
      BY <1>1, <2>2, <2>4 DEF Refuse, SnapTypeOK
    <3> QED
      BY <1>1, <2>1, <2>2, <3>1
  <2> QED
    BY <2>1, <2>3, <2>4
<1>5. CASE SendTile
  <2>1. /\ call[Me] = "send" /\ UNCHANGED <<pc, tiles, todo, callers, running, stuck, closed>>
        /\ call'[Me] = "blocked"
    BY <1>1, <1>5 DEF SendTile, Send, renderVars, SnapTypeOK
  <2> QED
    BY <1>1, <2>1
<1>6. CASE TakeTile \/ TileFails
  <2>1. /\ pc = "tile" /\ call'[Me] = "out" /\ UNCHANGED <<todo, callers, running, stuck, closed>>
        /\ \/ call[Me] = "image"
           \/ pc' = "broken"
    BY <1>1, <1>6 DEF TakeTile, TileFails, Return, ImageError, Goto, SnapTypeOK
  <2> QED
    BY <1>1, <2>1
<1>7. CASE BackingStoreFails \/ TilesDone \/ WritePNG \/ EncodeFails
  <2>1. /\ UNCHANGED snapVars /\ pc' # "tile" /\ UNCHANGED <<tiles, todo>>
        /\ call[Me] = "out" \/ tiles = 0 \/ pc # "tile"
    BY <1>7 DEF BackingStoreFails, TilesDone, WritePNG, EncodeFails, ImageError, Goto
  <2>2. call[Me] = "out"
    BY <1>1, <2>1
  <2> QED
    BY <1>1, <2>1, <2>2 DEF snapVars
<1>8. CASE RunCancel
  BY <1>1, <1>8 DEF RunCancel, Goto
<1>9. CASE SnapshotManager
  <2>1. UNCHANGED <<pc, tiles, todo>>
    BY <1>9 DEF SnapshotManager, renderVars
  <2>2. CASE Receive \/ Stop \/ TakeZeroJob
    BY <1>1, <2>1, <2>2 DEF Receive, Stop, TakeZeroJob
  <2>3. CASE Reply
    <3>1. serving \in Callers /\ call[serving] = "blocked"
      BY <1>1, <2>3 DEF Reply, SnapTypeOK, KnownWaiters
    <3>2. PICK result \in {"image", "error"} : call' = [call EXCEPT ![serving] = result]
      BY <2>3 DEF Reply
    <3>3. call'[Me] = call[Me] \/ (serving = Me /\ call'[Me] \in {"image", "error"})
      <4>1. Me \in DOMAIN call
        BY <1>1 DEF SnapTypeOK
      <4> QED
        BY <3>2, <4>1
    <3>4. UNCHANGED <<callers, running, closed, stuck, todo>>
      BY <1>9, <2>3 DEF Reply, SnapshotManager, renderVars
    <3> QED
      BY <1>1, <2>1, <3>1, <3>3, <3>4
  <2> QED
    BY <1>9, <2>2, <2>3 DEF SnapshotManager, ManagerStep
<1>10. CASE CancelRender
  BY <1>1, <1>10 DEF CancelRender, Cancel, renderVars
<1>11. ASSUME NEW f \in Files, UploadEnds(f) \/ UploadFails(f)
       PROVE  CallInv'
  BY <1>1, <1>11 DEF UploadEnds, UploadFails, snapVars
<1>12. CASE UNCHANGED vars
  BY <1>1, <1>12 DEF vars, snapVars, renderVars
<1> QED
  BY <1>2, <1>3, <1>4, <1>5, <1>6, <1>7, <1>8, <1>9, <1>10, <1>11, <1>12 DEF Next, MainStep, GenerateImage

\* ScriptInv: each step posts what comes next in a script, or what is told already.
LEMMA ScriptInvStep ==
  ASSUME IInv, [Next]_vars
  PROVE  ScriptInv'
<1>1. /\ ScriptInv /\ PostInv /\ posts \in Seq(Statuses) /\ pc \in Labels
      /\ "started" \in Statuses /\ "processing" \in Statuses
      /\ "failed" \in Statuses /\ "completed" \in Statuses
  BY DEF IInv, TypeOK, Statuses
<1>2. UNCHANGED posts => /\ \A m, k : Told(m, k) => Told(m, k)'
                         /\ \A m : IsMerged(posts, m) => IsMerged(posts, m)'
  BY SaysNothing
<1>4. ASSUME Told(Underway, 0), Emit("failed") PROVE Told(Failing, 1)'
  BY <1>1, <1>4, NextPosts
<1>5. ASSUME Told(Underway, 0), Emit("processing") PROVE Told(Underway, 0)'
  BY <1>1, <1>5, NextPosts
<1>6. ASSUME pc' = "defer", err' = "error", Told(Refused, 1)' \/ Told(Failing, 1)' \/ Told(FailedInTheEnd, 2)'
      PROVE  ScriptInv'
  BY <1>6 DEF ScriptInv, OutcomeTold, Rendering
<1>7. ASSUME pc \in Rendering, pc' \in Rendering, Emit("processing") \/ UNCHANGED posts
      PROVE  ScriptInv'
  <2>1. Told(Underway, 0)'
    BY <1>1, <1>2, <1>5, <1>7 DEF ScriptInv
  <2> QED
    BY <1>7, <2>1 DEF ScriptInv, Rendering
<1>8. CASE Start
  <2>1. Told(Silent, 0) /\ Emit("started") /\ pc' = "started"
    BY <1>1, <1>8 DEF Start, Goto, ScriptInv
  <2>2. Told(Begun, 0)'
    BY <1>1, <2>1, NextPosts
  <2> QED
    BY <2>1, <2>2 DEF ScriptInv, Rendering
<1>9. CASE NoFileWriter
  <2>1. Told(Begun, 0) /\ Emit("failed") /\ err' = "error" /\ pc' = "defer"
    BY <1>1, <1>9 DEF NoFileWriter, EmitError, Goto, ScriptInv
  <2>2. Told(Refused, 1)'
    BY <1>1, <2>1, NextPosts
  <2> QED
    BY <1>6, <2>1, <2>2
<1>10. CASE CreateSVG
  <2>1. Told(Begun, 0) /\ Emit("processing") /\ pc' = "svg"
    BY <1>1, <1>10 DEF CreateSVG, Goto, ScriptInv
  <2>2. Told(Underway, 0)'
    BY <1>1, <2>1, NextPosts
  <2> QED
    BY <2>1, <2>2 DEF ScriptInv, Rendering
<1>11. CASE NoSVGWriter
  <2>1. Told(Underway, 0)' /\ pc' = "gone" /\ exitCode' = "panic"
    BY <1>1, <1>2, <1>11 DEF NoSVGWriter, Goto, ScriptInv, Rendering
  <2> QED
    BY <2>1 DEF ScriptInv, Rendering
<1>12. ASSUME pc \in Rendering, EmitError PROVE ScriptInv'
  <2>1. Told(Underway, 0) /\ Emit("failed") /\ err' = "error" /\ pc' = "defer"
    BY <1>1, <1>12 DEF EmitError, Goto, ScriptInv
  <2>2. Told(Failing, 1)'
    BY <1>4, <2>1
  <2> QED
    BY <1>6, <2>1, <2>2
<1>13. CASE OpenSVG \/ Converted
  BY <1>7, <1>12, <1>13 DEF OpenSVG, Converted, Goto, Rendering
<1>14. CASE ConvertFails \/ NoPDFWriter \/ PDFUnreadable
  BY <1>12, <1>14 DEF ConvertFails, NoPDFWriter, PDFUnreadable, Rendering
<1>15. CASE TemplateFails
  <2>1. CASE pc = "broken"
    <3>1. Told(Failing, 1) /\ Emit("failed") /\ err' = "error" /\ pc' = "defer"
      BY <1>1, <1>15, <2>1 DEF TemplateFails, EmitError, Goto, ScriptInv
    <3>2. Told(FailedInTheEnd, 2)'
      BY <1>1, <3>1, NextPosts
    <3> QED
      BY <1>6, <3>1, <3>2
  <2>2. CASE pc # "broken"
    BY <1>12, <1>15, <2>2 DEF TemplateFails, Rendering
  <2> QED
    BY <2>1, <2>2
<1>16. CASE WriteSVG \/ TemplateDone \/ FetchAsset \/ WriteAsset \/ StartImage \/ TilesDone \/ WritePNG
            \/ Convert \/ NothingToStore \/ OpenPDF \/ CopyPDF
  BY <1>7, <1>16 DEF WriteSVG, TemplateDone, FetchAsset, WriteAsset, StartImage, TilesDone, WritePNG,
     Convert, NothingToStore, OpenPDF, CopyPDF, Goto, Rendering
<1>17. CASE NoPNGWriter
  <2> DEFINE p == Append(posts, "processing")
  <2>1. Told(Underway, 0) /\ posts' = Append(p, "failed") /\ pc' = "broken"
    BY <1>1, <1>17 DEF NoPNGWriter, Goto, ScriptInv, Rendering
  <2>2. IsMerged(posts, Underway) /\ Fails(posts, Len(posts)) = 0
    BY <2>1 DEF Told
  <2>3. p \in Seq(Statuses) /\ IsMerged(p, Underway)
    <3>1. Underway # <<>> /\ Underway[Len(Underway)] = "processing"
      BY ScriptFacts
    <3> QED
      BY <1>1, <2>2, <3>1, ScriptGrows, AppendFacts
  <2>4. Fails(p, Len(p)) = 0
    BY <1>1, <2>2, PlacesKept
  <2> HIDE DEF p
  <2>5. IsMerged(posts', Failing)
    <3>1. IsNext(Underway, "failed", Failing)
      BY ScriptFacts DEF IsNext
    <3>2. Failing = Append(Underway, "failed")
      BY <1>1, <2>3, <3>1, NextIsAppend DEF IsMerged
    <3> QED
      BY <1>1, <2>1, <2>3, <2>4, <3>2, ScriptGrows
  <2>6. Fails(posts', Len(posts')) = 1
    BY <1>1, <2>1, <2>3, <2>4, PlacesKept
  <2>7. Told(Failing, 1)'
    BY <2>5, <2>6, ToldPrimed
  <2> QED
    BY <2>1, <2>7 DEF ScriptInv, Rendering
<1>18. CASE TileFails \/ BackingStoreFails \/ EncodeFails
  <2>1. Told(Underway, 0) /\ Emit("failed") /\ pc' = "broken"
    BY <1>1, <1>18 DEF TileFails, BackingStoreFails, EncodeFails, ImageError, Goto, ScriptInv, Rendering
  <2>2. Told(Failing, 1)'
    BY <1>4, <2>1
  <2> QED
    BY <2>1, <2>2 DEF ScriptInv, Rendering
<1>19. CASE PDFNotWanted
  <2>1. Told(Underway, 0)' /\ pc' = "defer" /\ err' = "nil"
    BY <1>1, <1>2, <1>19 DEF PDFNotWanted, Goto, ScriptInv, Rendering
  <2> QED
    BY <2>1 DEF ScriptInv, Rendering, OutcomeTold
<1>20. CASE Complete
  <2>1. Told(Underway, 0) /\ Emit("completed") /\ pc' = "defer" /\ err' = "nil"
    BY <1>1, <1>20 DEF Complete, Goto, ScriptInv, Rendering
  <2>2. Told(Completing, 0)'
    BY <1>1, <2>1, NextPosts
  <2> QED
    BY <2>1, <2>2 DEF ScriptInv, Rendering, OutcomeTold
<1>21. CASE RunDeferred
  <2>1. OutcomeTold /\ pc' = "notify" /\ UNCHANGED <<posts, err>>
    BY <1>1, <1>21 DEF RunDeferred, Goto, ScriptInv
  <2>2. OutcomeTold'
    BY <1>2, <2>1 DEF OutcomeTold
  <2> QED
    BY <2>1, <2>2 DEF ScriptInv, Rendering
<1>22. CASE Notify
  <2>1. /\ OutcomeTold /\ pc' = "cancel" /\ UNCHANGED err
        /\ Emit(IF err = "nil" THEN "completed" ELSE "failed")
    BY <1>1, <1>22 DEF Notify, Goto, ScriptInv
  <2> SUFFICES \E script \in Scripts : IsMerged(posts, script)'
    BY <2>1 DEF ScriptInv, Rendering
  <2>2. \A m, k : Told(m, k)' => IsMerged(posts, m)'
    BY DEF Told
  <2>3. CASE err = "nil"
    <3>1. Emit("completed")
      BY <2>1, <2>3
    <3>2. Told(Underway, 0) \/ Told(Completing, 0)
      BY <2>1, <2>3 DEF OutcomeTold
    <3>3. Told(Completing, 0)' \/ Told(Completed, 0)'
      BY <1>1, <3>1, <3>2, NextPosts
    <3> QED
      BY <2>2, <3>3, ScriptsNamed
  <2>4. CASE err = "error"
    <3>1. Emit("failed")
      BY <2>1, <2>4
    <3>2. CASE Told(Refused, 1)
      <4>1. Told(FailedAtOnce, 2)'
        BY <1>1, <3>1, <3>2, NextPosts
      <4> QED
        BY <2>2, <4>1, ScriptsNamed
    <3>3. CASE Told(Failing, 1)
      <4>1. Told(FailedInTheEnd, 2)'
        BY <1>1, <3>1, <3>3, NextPosts
      <4> QED
        BY <2>2, <4>1, ScriptsNamed
    <3>4. CASE Told(FailedInTheEnd, 2)
      <4>1. Told(FailedInTheEnd, 3)'
        BY <1>1, <3>1, <3>4, NextPosts
      <4> QED
        BY <2>2, <4>1, ScriptsNamed
    <3> QED
      BY <2>1, <2>4, <3>2, <3>3, <3>4 DEF OutcomeTold
  <2> QED
    BY <2>1, <2>3, <2>4 DEF OutcomeTold
<1>23. CASE BadJob
  <2>1. posts' = <<>> /\ pc' = "cancel"
    BY <1>1, <1>23 DEF BadJob, Goto, PostInv
  <2> QED
    BY <2>1 DEF ScriptInv, Rendering
<1>24. CASE RunCancel \/ Exit
  <2>1. /\ pc \in {"cancel", "cleanup"} /\ pc' \in {"cleanup", "gone"} /\ UNCHANGED posts
    BY <1>1, <1>24 DEF RunCancel, Exit, Goto, PostInv
  <2>2. posts' = <<>> \/ \E script \in Scripts : IsMerged(posts, script)'
    BY <1>1, <1>2, <2>1 DEF ScriptInv
  <2> QED
    BY <2>1, <2>2 DEF ScriptInv, Rendering
<1>25. ASSUME UNCHANGED <<posts, pc, err, exitCode>> PROVE ScriptInv'
  <2>1. OutcomeTold => OutcomeTold'
    BY <1>2, <1>25 DEF OutcomeTold
  <2> QED
    BY <1>1, <1>2, <1>25, <2>1 DEF ScriptInv
<1>26. CASE AskForTile \/ SendTile \/ TakeTile \/ SnapshotManager \/ CancelRender \/ UNCHANGED vars
  BY <1>25, <1>26 DEF AskForTile, SendTile, TakeTile, SnapshotManager, CancelRender, vars, renderVars
<1>27. ASSUME NEW f \in Files, UploadEnds(f) \/ UploadFails(f) PROVE ScriptInv'
  BY <1>25, <1>27 DEF UploadEnds, UploadFails
<1> QED
  BY <1>8, <1>9, <1>10, <1>11, <1>13, <1>14, <1>15, <1>16, <1>17, <1>18, <1>19, <1>20, <1>21, <1>22,
     <1>23, <1>24, <1>26, <1>27 DEF Next, MainStep, GeneratePDF, GenerateImage

\* TypeOK: files are opened, closed and lost as members of Files.
LEMMA RenderTypeStep ==
  ASSUME IInv, [Next]_vars
  PROVE  TypeOK'
<1>1. TypeOK /\ ImageInv /\ MaxTiles \in Nat /\ posts \in Seq(Statuses)
  BY MaxTilesAssumption DEF IInv, TypeOK, Statuses
<1>2. SnapTypeOK'
  BY SnapInvStep DEF SnapInv
<1>3. posts' \in Seq(Statuses)
  <2>1. "started" \in Statuses /\ "processing" \in Statuses /\ "failed" \in Statuses /\ "completed" \in Statuses
    BY DEF Statuses
  <2>2. ASSUME NEW s \in Statuses, Emit(s) PROVE posts' \in Seq(Statuses)
    BY <1>1, <2>2, EmitFacts
  <2>3. CASE UNCHANGED posts
    BY <1>1, <2>3
  <2>4. CASE NoPNGWriter
    BY <1>1, <2>4, TwoPosts DEF NoPNGWriter
  <2>5. CASE GeneratePDF
    BY <2>1, <2>2, <2>3, <2>5 DEF GeneratePDF, Start, NoFileWriter, CreateSVG, NoSVGWriter, OpenSVG,
       WriteSVG, TemplateFails, TemplateDone, FetchAsset, WriteAsset, Convert, ConvertFails, Converted,
       NothingToStore, PDFNotWanted, NoPDFWriter, OpenPDF, PDFUnreadable, CopyPDF, Complete,
       RunDeferred, EmitError
  <2>6. CASE GenerateImage \/ BadJob \/ Notify \/ RunCancel \/ Exit
    BY <2>1, <2>2, <2>3, <2>4, <2>6 DEF GenerateImage, StartImage, AskForTile, SendTile, TakeTile,
       TileFails, BackingStoreFails, TilesDone, WritePNG, EncodeFails, ImageError, BadJob, Notify,
       RunCancel, Exit, renderVars
  <2>7. ASSUME NEW f \in Files, UploadEnds(f) \/ UploadFails(f) PROVE posts' \in Seq(Statuses)
    BY <2>3, <2>7 DEF UploadEnds, UploadFails
  <2>8. CASE SnapshotManager \/ CancelRender \/ UNCHANGED vars
    BY <2>3, <2>8 DEF SnapshotManager, CancelRender, vars, renderVars
  <2> QED
    BY <2>5, <2>6, <2>7, <2>8 DEF Next, MainStep
<1>4. /\ store' \in Stores /\ todo' \subseteq {"asset", "image"}
      /\ pdf' \in {"none", "empty", "part", "whole"}
  <2> USE DEF TypeOK
  <2>1. CASE GeneratePDF
    BY <1>1, <2>1 DEF GeneratePDF, Start, NoFileWriter, CreateSVG, NoSVGWriter, OpenSVG,
       WriteSVG, TemplateFails, TemplateDone, FetchAsset, WriteAsset, Convert, ConvertFails, Converted,
       NothingToStore, PDFNotWanted, NoPDFWriter, OpenPDF, PDFUnreadable, CopyPDF, Complete,
       RunDeferred, files
  <2>2. CASE GenerateImage \/ BadJob \/ Notify \/ RunCancel \/ Exit
    BY <1>1, <2>2 DEF GenerateImage, StartImage, NoPNGWriter, AskForTile, SendTile, TakeTile,
       TileFails, BackingStoreFails, TilesDone, WritePNG, EncodeFails, BadJob, Notify,
       RunCancel, Exit, renderVars, files
  <2>3. ASSUME NEW f \in Files, UploadEnds(f) \/ UploadFails(f)
        PROVE  /\ store' \in Stores /\ todo' \subseteq {"asset", "image"}
               /\ pdf' \in {"none", "empty", "part", "whole"}
    BY <1>1, <2>3 DEF UploadEnds, UploadFails
  <2>4. CASE SnapshotManager \/ CancelRender \/ UNCHANGED vars
    BY <1>1, <2>4 DEF SnapshotManager, CancelRender, vars, renderVars, files
  <2> QED
    BY <2>1, <2>2, <2>3, <2>4 DEF Next, MainStep
<1>5. /\ pc' \in Labels /\ err' \in {"none", "nil", "error"}
      /\ exitCode' \in {"none", "nil", "error", "panic"}
  <2> USE DEF TypeOK, Labels, Goto
  <2>1. CASE GeneratePDF
    BY <1>1, <2>1 DEF GeneratePDF, Start, NoFileWriter, CreateSVG, NoSVGWriter, OpenSVG,
       WriteSVG, TemplateFails, TemplateDone, FetchAsset, WriteAsset, Convert, ConvertFails, Converted,
       NothingToStore, PDFNotWanted, NoPDFWriter, OpenPDF, PDFUnreadable, CopyPDF, Complete,
       RunDeferred, EmitError
  <2>2. CASE GenerateImage \/ BadJob \/ Notify \/ RunCancel \/ Exit
    BY <1>1, <2>2 DEF GenerateImage, StartImage, NoPNGWriter, AskForTile, SendTile, TakeTile,
       TileFails, BackingStoreFails, TilesDone, WritePNG, EncodeFails, ImageError, BadJob, Notify,
       RunCancel, Exit, renderVars
  <2>3. ASSUME NEW f \in Files, UploadEnds(f) \/ UploadFails(f)
        PROVE  /\ pc' \in Labels /\ err' \in {"none", "nil", "error"}
               /\ exitCode' \in {"none", "nil", "error", "panic"}
    BY <1>1, <2>3 DEF UploadEnds, UploadFails
  <2>4. CASE SnapshotManager \/ CancelRender \/ UNCHANGED vars
    BY <1>1, <2>4 DEF SnapshotManager, CancelRender, vars, renderVars
  <2> QED
    BY <2>1, <2>2, <2>3, <2>4 DEF Next, MainStep
<1>6. tiles' \in 0..MaxTiles
  <2>1. CASE TakeTile
    <3>1. tiles \in 0..MaxTiles /\ tiles > 0 /\ tiles' = tiles - 1
      BY <1>1, <2>1 DEF TakeTile, TypeOK, IInv, CallInv
    <3> QED
      BY <1>1, <3>1
  <2>2. CASE UNCHANGED tiles
    BY <1>1, <2>2 DEF TypeOK
  <2>3. CASE GeneratePDF
    BY <2>2, <2>3 DEF GeneratePDF, Start, NoFileWriter, CreateSVG, NoSVGWriter, OpenSVG,
       WriteSVG, TemplateFails, TemplateDone, FetchAsset, WriteAsset, Convert, ConvertFails, Converted,
       NothingToStore, PDFNotWanted, NoPDFWriter, OpenPDF, PDFUnreadable, CopyPDF, Complete, RunDeferred
  <2>4. CASE GenerateImage \/ BadJob \/ Notify \/ RunCancel \/ Exit
    BY <2>1, <2>2, <2>4 DEF GenerateImage, StartImage, NoPNGWriter, AskForTile, SendTile,
       TileFails, BackingStoreFails, TilesDone, WritePNG, EncodeFails, BadJob, Notify,
       RunCancel, Exit, renderVars
  <2>5. ASSUME NEW f \in Files, UploadEnds(f) \/ UploadFails(f) PROVE tiles' \in 0..MaxTiles
    BY <2>2, <2>5 DEF UploadEnds, UploadFails
  <2>6. CASE SnapshotManager \/ CancelRender \/ UNCHANGED vars
    BY <2>2, <2>6 DEF SnapshotManager, CancelRender, vars, renderVars
  <2> QED
    BY <2>3, <2>4, <2>5, <2>6 DEF Next, MainStep
<1>7. /\ open' \subseteq Files /\ lost' \subseteq open'
      /\ upload' \in [Files -> {"none", "reading", "stored", "failed"}]
  <2> DEFINE FilesOK == /\ open' \subseteq Files /\ lost' \subseteq open'
                        /\ upload' \in [Files -> {"none", "reading", "stored", "failed"}]
  <2> USE DEF TypeOK
  <2>1. ASSUME NEW f \in Files, OpenFile(f), UNCHANGED lost \/ lost' = lost \cup {f}
        PROVE  open' \subseteq Files /\ open \subseteq open' /\ upload' \in [Files -> {"none", "reading", "stored", "failed"}]
    BY <1>1, <2>1 DEF OpenFile
  <2>2. "svg" \in Files /\ "asset" \in Files /\ "png" \in Files /\ "pdf" \in Files
    BY DEF Files
  <2>3. CASE OpenSVG \/ FetchAsset \/ StartImage \/ OpenPDF
    <3>1. UNCHANGED lost /\ \E f \in Files : OpenFile(f)
      BY <2>2, <2>3 DEF OpenSVG, FetchAsset, StartImage, OpenPDF
    <3> QED
      BY <1>1, <2>1, <3>1
  <2>4. CASE UNCHANGED <<open, upload, lost>>
    BY <1>1, <2>4
  <2>5. ASSUME NEW f \in Files, LosePipe(f)
        PROVE  FilesOK
    <3>1. CASE OpenFile(f) /\ lost' = lost \cup {f} /\ Piped(f)
      <4>1. f \in open'
        BY <3>1 DEF OpenFile
      <4> QED
        BY <1>1, <2>1, <3>1, <4>1
    <3> QED
      BY <2>4, <2>5, <3>1 DEF LosePipe
  <2>6. CASE NoPNGWriter \/ NoPDFWriter
    BY <2>2, <2>4, <2>5, <2>6 DEF NoPNGWriter, NoPDFWriter
  <2>7. CASE TileFails \/ BackingStoreFails \/ WritePNG \/ EncodeFails
    <3>1. /\ open' = open \ {"png"} /\ UNCHANGED <<upload, lost>> /\ pc \in {"tile", "png"}
      BY <2>7 DEF TileFails, BackingStoreFails, WritePNG, EncodeFails, ImageError
    <3>2. "png" \notin lost
      BY <1>1, <3>1 DEF ImageInv
    <3> QED
      BY <1>1, <3>1, <3>2
  <2>8. CASE RunDeferred
    BY <1>1, <2>8 DEF RunDeferred
  <2>9. CASE Start \/ NoFileWriter \/ CreateSVG \/ NoSVGWriter \/ WriteSVG \/ TemplateFails \/ TemplateDone
             \/ WriteAsset \/ Convert \/ ConvertFails \/ Converted \/ NothingToStore \/ PDFNotWanted
             \/ PDFUnreadable \/ CopyPDF \/ Complete
    BY <2>4, <2>9 DEF Start, NoFileWriter, CreateSVG, NoSVGWriter, WriteSVG, TemplateFails, TemplateDone,
       WriteAsset, Convert, ConvertFails, Converted, NothingToStore, PDFNotWanted, PDFUnreadable,
       CopyPDF, Complete, files
  <2>10. CASE AskForTile \/ SendTile \/ TakeTile \/ TilesDone \/ BadJob \/ Notify \/ RunCancel \/ Exit
              \/ SnapshotManager \/ CancelRender \/ UNCHANGED vars
    BY <2>4, <2>10 DEF AskForTile, SendTile, TakeTile, TilesDone, BadJob, Notify, RunCancel, Exit,
       SnapshotManager, CancelRender, vars, renderVars, files
  <2>11. ASSUME NEW f \in Files, UploadEnds(f) \/ UploadFails(f)
         PROVE  FilesOK
    BY <1>1, <2>11 DEF UploadEnds, UploadFails
  <2> QED
    BY <2>3, <2>6, <2>7, <2>8, <2>9, <2>10, <2>11 DEF Next, MainStep, GeneratePDF, GenerateImage
<1> QED
  BY <1>2, <1>3, <1>4, <1>5, <1>6, <1>7 DEF TypeOK, Statuses
-----------------------------------------------------------------------------
\* The invariant of the worker: it holds at first, and every step keeps it.
LEMMA RenderInvariant == Spec => []IInv
<1>1. Init => IInv
  BY RenderInitOK
<1>2. IInv /\ [Next]_vars => IInv'
  BY RenderTypeStep, SnapInvStep, PostInvStep, ImageInvStep, PdfInvStep, CallInvStep, ScriptInvStep DEF IInv
<1> QED
  BY <1>1, <1>2, PTL DEF Spec

\* Every variable keeps its type.
THEOREM WorkerTypeOK == Spec => []TypeOK
<1>1. IInv => TypeOK
  BY DEF IInv
<1> QED
  BY <1>1, RenderInvariant, PTL

\* A worker posts one of the scripts that the model of the jobs takes for
\* granted: its beginning at any time, all of it when it exits by itself.
THEOREM WorkerFollowsAScript == Spec => []PostsFollowScripts
<1>1. IInv => PostsFollowScripts
  <2> SUFFICES ASSUME IInv PROVE PostsFollowScripts
    OBVIOUS
  <2>1. ScriptInv /\ PostInv /\ posts \in Seq(Statuses) /\ pc \in Labels
    BY DEF IInv, TypeOK, Statuses
  <2> DEFINE Starts(m, script) == Len(m) <= Len(script) /\ \A i \in 1..Len(m) : m[i] = script[i]
  <2>2. ASSUME NEW m, NEW k, Told(m, k), NEW script \in Scripts, Starts(m, script), exitCode \notin {"nil", "error"}
        PROVE  PostsFollowScripts
    <3>1. IsMerged(posts, m) /\ Len(m) \in Nat
      BY <2>2 DEF Told, IsMerged
    <3>2. script \in Seq(Statuses) /\ Len(script) \in Nat
      BY ScriptsNamed, ScriptFacts
    <3>3. \A i \in DOMAIN posts : Place(posts, i) \in 1..Len(m) /\ m[Place(posts, i)] = posts[i]
      BY <2>1, <3>1, FirstIsPlaced DEF IsMerged, Follows
    <3>4. Follows(posts, script)
      BY <2>2, <3>1, <3>2, <3>3 DEF Follows
    <3> QED
      BY <2>2, <3>4 DEF PostsFollowScripts
  <2>3. ASSUME NEW script \in Scripts, IsMerged(posts, script)
        PROVE  PostsFollowScripts
    BY <2>3 DEF PostsFollowScripts, IsMerged
  <2>4. /\ FailedAtOnce \in Scripts /\ FailedInTheEnd \in Scripts /\ Completed \in Scripts
        /\ Starts(Silent, Completed) /\ Starts(Begun, Completed) /\ Starts(Underway, Completed)
        /\ Starts(Completing, Completed) /\ Starts(Refused, FailedAtOnce)
        /\ Starts(Failing, FailedInTheEnd) /\ Starts(FailedInTheEnd, FailedInTheEnd)
    <3>1. FailedAtOnce \in Scripts /\ FailedInTheEnd \in Scripts /\ Completed \in Scripts
      BY ScriptsNamed
    <3>2. Starts(Silent, Completed) /\ Starts(Begun, Completed)
      BY ScriptFacts
    <3>3. Starts(Underway, Completed) /\ Starts(Completing, Completed)
      BY ScriptFacts
    <3>4. Starts(Refused, FailedAtOnce) /\ Starts(Failing, FailedInTheEnd) /\ Starts(FailedInTheEnd, FailedInTheEnd)
      BY ScriptFacts
    <3> HIDE DEF Starts
    <3> QED
      BY <3>1, <3>2, <3>3, <3>4
  <2> HIDE DEF Starts
  <2>6. CASE pc \notin {"cancel", "cleanup", "gone"}
    <3>1. exitCode \notin {"nil", "error"}
      BY <2>1, <2>6 DEF PostInv
    <3> QED
      BY <2>1, <2>2, <2>4, <2>6, <3>1 DEF ScriptInv, OutcomeTold, Labels, Rendering
  <2>7. CASE posts = <<>>
    BY <2>4, <2>7 DEF PostsFollowScripts, Follows
  <2>8. CASE exitCode = "panic" /\ Told(Underway, 0)
    BY <2>2, <2>4, <2>8
  <2>9. CASE \E script \in Scripts : IsMerged(posts, script)
    BY <2>3, <2>9
  <2> QED
    BY <2>1, <2>6, <2>7, <2>8, <2>9 DEF ScriptInv
<1> QED
  BY <1>1, RenderInvariant, PTL

\* The last post of a worker that exits agrees with its exit code, and it never
\* posts both ends.
THEOREM ExitTellsTheOutcome == Spec => []ExitAgreesWithPosts
<1>1. IInv => ExitAgreesWithPosts
  <2> SUFFICES ASSUME IInv PROVE ExitAgreesWithPosts
    OBVIOUS
  <2>1. PostInv
    BY DEF IInv
  <2>2. ~(Posted("completed") /\ Posted("failed"))
    BY <2>1 DEF PostInv, Ends
  <2>3. exitCode \in {"nil", "error"} /\ posts # <<>> =>
          Last(posts) = IF exitCode = "nil" THEN "completed" ELSE "failed"
    BY <2>1 DEF PostInv, Ends
  <2> QED
    BY <2>2, <2>3 DEF ExitAgreesWithPosts
<1> QED
  BY <1>1, RenderInvariant, PTL

\* Completed is posted for a job that was rendered, and whose PDF went to the
\* store if that wants it.
THEOREM CompletedMeansRendered == Spec => []CompletedWasRendered
<1>1. IInv => CompletedWasRendered
  BY DEF IInv, PostInv, ImageInv, PdfInv, Ends, CompletedWasRendered
<1> QED
  BY <1>1, RenderInvariant, PTL

\* A cancellation neither panics the worker nor leaves it waiting for a
\* manager that waits for itself.
THEOREM CancelIsHarmless == Spec => []ShutdownIsHarmless
<1>1. IInv => ShutdownIsHarmless
  BY DEF IInv, CallInv, ShutdownIsHarmless
<1> QED
  BY <1>1, RenderInvariant, PTL
=============================================================================
