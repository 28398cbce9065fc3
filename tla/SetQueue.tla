------------------------------ MODULE SetQueue ------------------------------
(***************************************************************************)
(* The keyed queue: a bounded queue in which a key is at most once. Every  *)
(* operation holds its lock, so an operation is a function of the queue.   *)
(***************************************************************************)
EXTENDS Naturals, Sequences

CONSTANTS
  Keys,
  Values,
  Cap,    \* the size it was made with
  None    \* no key, no value: a nil result

\* make panics for a negative size.
ASSUME CapAssumption == Cap \in Nat

Item == [key : Keys, val : Values]

\* The first position of the key, 0 if there is none.
Lookup(q, key) ==
  IF \E i \in DOMAIN q : q[i].key = key
    THEN CHOOSE i \in DOMAIN q : q[i].key = key /\ \A j \in 1..(i - 1) : q[j].key # key
    ELSE 0

Result(q, key, val, err) == [queue |-> q, key |-> key, val |-> val, err |-> err]

Get(q, key) ==
  IF Lookup(q, key) = 0 THEN Result(q, key, None, "ErrNotFound")
  ELSE Result(q, key, q[Lookup(q, key)].val, "none")

Push(q, key, val) ==
  IF Lookup(q, key) # 0 THEN Result(q, key, val, "ErrDuplicate")
  ELSE IF Len(q) = Cap THEN Result(q, key, val, "ErrNoSpace")
  ELSE Result(Append(q, [key |-> key, val |-> val]), key, val, "none")

\* Mutant: the last element takes the place of the one that is removed.
FillTheGap(q, idx) ==
  [i \in 1..(Len(q) - 1) |-> IF i = idx THEN q[Len(q)] ELSE q[i]]

\* The elements behind move up, the slice gets shorter.
RemoveAt(q, idx) ==
  [i \in 1..(Len(q) - 1) |-> IF i < idx THEN q[i] ELSE q[i + 1]]

Pop(q) ==
  IF q = <<>> THEN Result(q, None, None, "ErrEmptyQueue")
  ELSE Result(RemoveAt(q, 1), q[1].key, q[1].val, "none")

Remove(q, key) ==
  IF Lookup(q, key) = 0 THEN Result(q, key, None, "ErrNotFound")
  ELSE Result(RemoveAt(q, Lookup(q, key)), key, q[Lookup(q, key)].val, "none")

IsQueue(q) ==
  /\ Len(q) <= Cap
  /\ \A i, j \in DOMAIN q : q[i].key = q[j].key => i = j

\* Against the plain reading of a queue without duplicates: what is pushed
\* comes last, pop takes the first, remove takes its key out and nothing else.
MatchesReference(q, key, val) ==
  LET Holds == \E i \in DOMAIN q : q[i].key = key IN
  /\ Push(q, key, val).err = "none" => Get(Push(q, key, val).queue, key).val = val
  /\ Push(q, key, val).err = "none" => ~Holds /\ Push(q, key, val).queue = q \o <<[key |-> key, val |-> val]>>
  /\ Push(q, key, val).err = "ErrNoSpace" => ~Holds
  /\ \A i \in DOMAIN q : q[i].key = key =>
       Remove(q, key).queue = SubSeq(q, 1, i - 1) \o SubSeq(q, i + 1, Len(q))
  /\ ~Holds => Remove(q, key).queue = q
  /\ q # <<>> => Pop(q).queue = Tail(q) /\ Pop(q).key = Head(q).key
  /\ \A r \in {Push(q, key, val), Remove(q, key), Pop(q)} : IsQueue(r.queue)
=============================================================================
