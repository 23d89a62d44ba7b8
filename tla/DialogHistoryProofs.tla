------------------------ MODULE DialogHistoryProofs ------------------------
(***************************************************************************)
(* What is proved of the history of a dialog.                              *)
(*                                                                         *)
(* First the operators of ArchiveIndex, of every index: the search for     *)
(* holes finds gaps only and leaves none behind; inserting a block or      *)
(* deleting up to a message keeps the links of the headers going back, and *)
(* leaves no live message out between a header and the one it names.       *)
(* Then the dialog: what is under way between the server, the core thread  *)
(* and the archive thread is what the server has, or had (DialogInv); the  *)
(* blocks of the answers come in the order the server gave them, so that   *)
(* no message returns and none is hidden (OrderInv); and every version     *)
(* there is has its patches applied or on their way (HistoryInv).          *)
(***************************************************************************)
EXTENDS DialogHistory, SequenceLemmas

\* An index of messages up to n.
Header == [prev : Int, patch : BOOLEAN, deleted : BOOLEAN]
IsIndex(ix, n) == Ids(ix) \subseteq 1..n /\ ix \in [Ids(ix) -> Header]

\* Every header names an earlier message, or none.
LinksGoBack(ix) == \A id \in Ids(ix) : ix[id].prev < id

\* What a server with the messages S has before id.
Predecessor(S, id) ==
    LET below == {k \in S : k < id} IN IF below = {} THEN None ELSE Max(below)

-----------------------------------------------------------------------------
(* The least and the greatest of a set of ids. *)

\* Min of a set of ids (the upper end of a hole is one) is its least member.
LEMMA LeastId ==
    ASSUME NEW n \in Nat, NEW S \in SUBSET (1..n), S # {}
    PROVE  Min(S) \in S /\ \A i \in S : Min(S) <= i
<1>0. S \subseteq Nat
  OBVIOUS
<1>1. PICK x \in S : \A y \in S : ~ (<<y, x>> \in OpToRel(<, Nat))
  BY <1>0, NatLessThanWellFounded, WFMin
<1>2. ASSUME NEW y \in S PROVE x <= y
  <2>1. x \in Nat /\ y \in Nat
    BY <1>0
  <2>2. ~ (y < x)
    BY <1>1, <2>1 DEF OpToRel
  <2> QED  BY <2>1, <2>2
<1> QED
  BY <1>2 DEF Min

\* Max of a set of ids (the last message before another is one) is its greatest member.
LEMMA GreatestId ==
    ASSUME NEW n \in Nat, NEW S \in SUBSET (1..n), S # {}
    PROVE  Max(S) \in S /\ \A i \in S : i <= Max(S)
<1> DEFINE T == {k \in Nat : n - k \in S}
<1>1. T # {} /\ T \subseteq Nat
  <2>1. PICK i \in S : TRUE
    OBVIOUS
  <2>2. n - i \in Nat /\ n - (n - i) = i
    BY <2>1
  <2> QED  BY <2>1, <2>2
<1>2. PICK x \in T : \A y \in T : ~ (<<y, x>> \in OpToRel(<, Nat))
  BY <1>1, NatLessThanWellFounded, WFMin
<1>3. n - x \in S
  BY <1>2
<1>4. ASSUME NEW i \in S PROVE i <= n - x
  <2>1. n - i \in T
    <3>1. n - i \in Nat /\ n - (n - i) = i
      OBVIOUS
    <3> QED  BY <3>1
  <2>2. ~ (n - i < x)
    BY <1>2, <2>1 DEF OpToRel
  <2>3. x \in Nat /\ n - i \in Int /\ i \in Int /\ n \in Int
    <3>1. x \in Nat
      BY <1>1, <1>2
    <3>2. i \in Int
      OBVIOUS
    <3> HIDE DEF T
    <3> QED  BY <3>1, <3>2
  <2> HIDE DEF T
  <2> QED  BY <2>2, <2>3
<1> HIDE DEF T
<1> QED
  BY <1>3, <1>4 DEF Max

\* Before() is the next shown message, walking back from id.
LEMMA BeforeIsNext ==
    ASSUME NEW n \in Nat, NEW ix, IsIndex(ix, n), NEW id \in Int
    PROVE  \/ ShownBelow(ix, id) = {} /\ Before(ix, id) = None
           \/ /\ Before(ix, id) \in ShownBelow(ix, id)
              /\ \A k \in ShownBelow(ix, id) : k <= Before(ix, id)
<1>1. ShownBelow(ix, id) \in SUBSET (1..n)
  BY DEF ShownBelow, Shown, IsIndex
<1>2. CASE ShownBelow(ix, id) = {}
  BY <1>2 DEF Before
<1>3. CASE ShownBelow(ix, id) # {}
  BY <1>1, <1>3, GreatestId DEF Before
<1> QED
  BY <1>2, <1>3

-----------------------------------------------------------------------------
(* archive_index::get_next_hole(). *)

\* What get_next_hole() answers: that there is no hole, one below all that is shown,
\* or one that ends at the message before.
LEMMA NextHoleCases ==
    ASSUME NEW ix, NEW from, NEW depth
    PROVE  LET ids == {k \in Shown(ix) : from = None \/ k <= from}
               top == Max(Broken(ix, ids))
               got == GetNextHole(ix, from, depth)
           IN \/ got = Found(Hole(None, None, 0))
              \/ Ids(ix) # {} /\ got = Found(Hole(None, LastId(ix), 0))
              \/ got = NoHole("index_not_found")
              \/ got = NoHole("depth_reached")
              \/ got = NoHole("last_reached") /\ Broken(ix, ids) = {}
              \/ /\ Broken(ix, ids) # {} /\ Before(ix, top) = None
                 /\ got = Found(Hole(top, None, 0))
              \/ /\ Broken(ix, ids) # {} /\ Before(ix, top) # None
                 /\ got = Found(Hole(top, Before(ix, top), DepthAt(ids, top)))
<1> DEFINE ids == {k \in Shown(ix) : from = None \/ k <= from}
           top == Max(Broken(ix, ids))
           got == GetNextHole(ix, from, depth)
           A == Ids(ix) = {}
           B == from # None /\ LastId(ix) < from
           C == from # None /\ from \notin Ids(ix)
           D == ids = {}
           E == depth # None /\ Cardinality(ids) > depth
                    /\ \A id \in Broken(ix, ids) : DepthAt(ids, id) > depth
           F == Broken(ix, ids) = {}
           G == Before(ix, top) = None
           a == Found(Hole(None, None, 0))
           b == Found(Hole(None, LastId(ix), 0))
           c == NoHole("index_not_found")
           e == NoHole("depth_reached")
           f == NoHole("last_reached")
           g == Found(Hole(top, None, 0))
           h == Found(Hole(top, Before(ix, top), DepthAt(ids, top)))
<1>1. got = IF A THEN a ELSE IF B THEN b ELSE IF C THEN c
            ELSE IF D THEN a ELSE IF E THEN e ELSE IF F THEN f ELSE IF G THEN g ELSE h
  BY DEF GetNextHole
<1>2. F <=> Broken(ix, ids) = {}
  OBVIOUS
<1>3. G <=> Before(ix, top) = None
  OBVIOUS
<1>4. A <=> Ids(ix) = {}
  OBVIOUS
<1> SUFFICES \/ got = a
             \/ ~A /\ got = b
             \/ got = c
             \/ got = e
             \/ got = f /\ F
             \/ ~F /\ G /\ got = g
             \/ ~F /\ ~G /\ got = h
  BY <1>2, <1>3, <1>4
<1> HIDE DEF got, A, B, C, D, E, F, G, a, b, c, e, f, g, h
<1>5. A => got = a
  BY <1>1
<1>6. ~A /\ B => got = b
  BY <1>1
<1>7. ~A /\ ~B /\ C => got = c
  BY <1>1
<1>8. ~A /\ ~B /\ ~C /\ D => got = a
  BY <1>1
<1>9. ~A /\ ~B /\ ~C /\ ~D /\ E => got = e
  BY <1>1
<1>10. ~A /\ ~B /\ ~C /\ ~D /\ ~E /\ F => got = f
  BY <1>1
<1>11. ~A /\ ~B /\ ~C /\ ~D /\ ~E /\ ~F /\ G => got = g
  BY <1>1
<1>12. ~A /\ ~B /\ ~C /\ ~D /\ ~E /\ ~F /\ ~G => got = h
  BY <1>1
<1> QED
  BY <1>5, <1>6, <1>7, <1>8, <1>9, <1>10, <1>11, <1>12

\* The hole get_next_hole() finds is one: no shown message lies in it, and the header
\* it begins at names another message than the one it ends at.
THEOREM HoleIsAGap ==
    ASSUME NEW n \in Nat, NEW ix, IsIndex(ix, n), NEW from \in Int, NEW depth \in Int,
           NEW hole, GetNextHole(ix, from, depth) = Found(hole),
           hole.from # None, hole.to # None
    PROVE  /\ hole.from \in Shown(ix) /\ hole.to \in Shown(ix) /\ hole.to < hole.from
           /\ ix[hole.from].prev # hole.to
           /\ \A id \in Shown(ix) : ~(hole.to < id /\ id < hole.from)
<1> DEFINE ids == {k \in Shown(ix) : from = None \/ k <= from}
           broken == Broken(ix, ids)
           top == Max(broken)
<1>1. /\ broken # {}
      /\ Before(ix, top) # None
      /\ hole = Hole(top, Before(ix, top), DepthAt(ids, top))
  <2>1. PICK got : got = GetNextHole(ix, from, depth)
    OBVIOUS
  <2>2. got = [error |-> "ok", hole |-> hole]
    BY <2>1 DEF Found
  <2>3. \/ \E to : got = Found(Hole(None, to, 0))
        \/ \E error : got = NoHole(error) /\ error # "ok"
        \/ /\ broken # {} /\ Before(ix, top) = None
           /\ got = Found(Hole(top, None, 0))
        \/ /\ broken # {} /\ Before(ix, top) # None
           /\ got = Found(Hole(top, Before(ix, top), DepthAt(ids, top)))
    BY <2>1, NextHoleCases
  <2>4. \A to : got # Found(Hole(None, to, 0))
    BY <2>2 DEF Found, Hole
  <2>5. \A error : error # "ok" => got # NoHole(error)
    BY <2>2 DEF NoHole
  <2>6. got # Found(Hole(top, None, 0))
    BY <2>2 DEF Found, Hole
  <2>7. \A h : got = Found(h) => h = hole
    BY <2>2 DEF Found
  <2> HIDE DEF ids, broken, top
  <2> QED  BY <2>3, <2>4, <2>5, <2>6, <2>7
<1>2. broken \in SUBSET (1..n) /\ broken \subseteq Shown(ix)
  BY DEF Broken, Shown, IsIndex
<1>3. top \in broken
  BY <1>1, <1>2, GreatestId
<1>4. /\ Before(ix, top) \in ShownBelow(ix, top)
      /\ \A k \in ShownBelow(ix, top) : k <= Before(ix, top)
  <2>1. top \in Int
    BY <1>2, <1>3
  <2> HIDE DEF top
  <2> QED  BY <1>1, <2>1, BeforeIsNext
<1>5. ix[top].prev # Before(ix, top)
  BY <1>3 DEF Broken
<1>6. hole.from = top /\ hole.to = Before(ix, top)
  BY <1>1 DEF Hole
<1>7. Shown(ix) \subseteq Int
  BY DEF Shown, IsIndex
<1> QED
  BY <1>2, <1>3, <1>4, <1>5, <1>6, <1>7 DEF ShownBelow

\* An index in which the search reaches the last header has no gap: if its headers
\* name what the server has before them, then whatever the server has below the
\* newest message shown is shown.
THEOREM NothingHidden ==
    ASSUME NEW n \in Nat, NEW ix, IsIndex(ix, n), NEW S \in SUBSET (1..n),
           \A id \in Shown(ix) : ix[id].prev = Predecessor(S, id),
           GetNextHole(ix, None, None).error = "last_reached",
           NEW m \in Shown(ix), NEW k \in S, k < m
    PROVE  k \in Shown(ix)
<1>1. Shown(ix) \in SUBSET (1..n)
  BY DEF Shown, IsIndex
<1>2. \A id \in Shown(ix) : ix[id].prev = Before(ix, id)
  BY DEF GetNextHole, Found, NoHole, Broken, None
<1> SUFFICES ASSUME k \notin Shown(ix) PROVE FALSE
  OBVIOUS
<1> DEFINE above == {id \in Shown(ix) : k < id}
           j == Min(above)
<1>3. above \in SUBSET (1..n) /\ above # {}
  BY <1>1
<1>4. j \in above /\ \A i \in above : j <= i
  BY <1>3, LeastId
<1>5. j \in Shown(ix) /\ k < j /\ j \in Int /\ k \in Int
  BY <1>1, <1>4
<1>6. k <= Predecessor(S, j)
  <2>1. {i \in S : i < j} \in SUBSET (1..n) /\ k \in {i \in S : i < j}
    BY <1>5
  <2> QED  BY <2>1, GreatestId DEF Predecessor
<1>7. Before(ix, j) = Predecessor(S, j)
  BY <1>2, <1>5
<1>8. Before(ix, j) \in Shown(ix) /\ Before(ix, j) < j
  <2>1. Before(ix, j) # None
    BY <1>6, <1>7 DEF None
  <2> QED  BY <1>5, <2>1, BeforeIsNext DEF ShownBelow
<1>9. Before(ix, j) \in above
  <2>1. k # Before(ix, j)
    BY <1>8
  <2> QED  BY <1>1, <1>5, <1>6, <1>7, <1>8, <2>1
<1>10. j <= Before(ix, j)
  BY <1>4, <1>9
<1>11. Before(ix, j) \in Int
  BY <1>1, <1>8
<1> HIDE DEF j
<1> QED
  BY <1>5, <1>8, <1>10, <1>11

-----------------------------------------------------------------------------
(* archive_index::insert_header() and delete_up_to(). *)

\* Inserting a message or a patch that names an earlier message, or none, keeps every
\* link going back: merging and relinking the next header make no cycle that a walk
\* over the index could not leave.
THEOREM InsertKeepsLinks ==
    ASSUME NEW n \in Nat, NEW ix, IsIndex(ix, n), LinksGoBack(ix),
           NEW id \in 1..n, NEW prev \in Int, NEW patch \in BOOLEAN, NEW deleted \in BOOLEAN,
           prev < id
    PROVE  LET m == [id |-> id, prev |-> prev, patch |-> patch, deleted |-> deleted]
           IN IsIndex(InsertHeader(ix, m), n) /\ LinksGoBack(InsertHeader(ix, m))
<1> DEFINE m == [id |-> id, prev |-> prev, patch |-> patch, deleted |-> deleted]
           next == {k \in Ids(ix) : k > m.id}
           new == InsertHeader(ix, m)
<1>1. CASE id \notin Ids(ix)
  <2>1. /\ DOMAIN new = Ids(ix) \union {id}
        /\ new[id] = [prev |-> prev, patch |-> patch, deleted |-> deleted]
        /\ \A k \in Ids(ix) : new[k] = ix[k]
        /\ new = [k \in DOMAIN new |-> new[k]]
    BY <1>1 DEF InsertHeader, Ids
  <2>2. \A k \in DOMAIN new : new[k] \in Header /\ new[k].prev < k
    BY <2>1 DEF IsIndex, LinksGoBack, Header, Ids
  <2> QED  BY <2>1, <2>2 DEF IsIndex, LinksGoBack, Ids
<1>2. CASE id \in Ids(ix)
  <2>1. /\ DOMAIN new = Ids(ix)
        /\ new = [k \in DOMAIN new |-> new[k]]
        /\ new[id] = MergeWith(ix[id], m)
        /\ \A k \in Ids(ix) \ {id} :
              \/ new[k] = ix[k]
              \/ /\ next # {} /\ k = Min(next)
                 /\ new[k] = [ix[k] EXCEPT !.prev = Relinked(ix[id], m, @)]
    BY <1>2 DEF InsertHeader, Ids
  <2>2. next # {} => Min(next) > id
    <3>1. next \in SUBSET (1..n)
      BY DEF IsIndex
    <3> QED  BY <3>1, LeastId
  <2>3. ix[id] \in Header /\ ix[id].prev < id
    BY <1>2 DEF IsIndex, LinksGoBack
  <2>4. new[id] \in Header /\ new[id].prev < id
    BY <2>1, <2>3 DEF MergeWith, Header
  <2>5. ASSUME NEW k \in Ids(ix), k # id
        PROVE  new[k] \in Header /\ new[k].prev < k
    <3>1. ix[k] \in Header /\ ix[k].prev < k /\ k \in Int
      BY DEF IsIndex, LinksGoBack
    <3>2. k > id => Relinked(ix[id], m, ix[k].prev) \in Int
                    /\ Relinked(ix[id], m, ix[k].prev) < k
      BY <2>3, <3>1 DEF Relinked, Header
    <3>3. CASE new[k] = ix[k]
      BY <3>1, <3>3
    <3>4. CASE new[k] = [ix[k] EXCEPT !.prev = Relinked(ix[id], m, @)] /\ k > id
      <4>1. new[k] = [ix[k] EXCEPT !.prev = Relinked(ix[id], m, ix[k].prev)]
        BY <3>4
      <4> HIDE DEF new, m
      <4> QED  BY <3>1, <3>2, <3>4, <4>1 DEF Header
    <3> QED  BY <2>1, <2>2, <2>5, <3>3, <3>4
  <2> QED  BY <2>1, <2>4, <2>5 DEF IsIndex, LinksGoBack, Ids
<1> QED
  BY <1>1, <1>2

\* Deleting up to an id leaves the headers above it and keeps their links going back.
THEOREM DeleteKeepsLinks ==
    ASSUME NEW n \in Nat, NEW ix, IsIndex(ix, n), LinksGoBack(ix), NEW to \in Nat
    PROVE  /\ IsIndex(IndexAbove(ix, to), n) /\ LinksGoBack(IndexAbove(ix, to))
           /\ Ids(IndexAbove(ix, to)) = {id \in Ids(ix) : id > to}
<1> DEFINE new == IndexAbove(ix, to)
<1>1. /\ DOMAIN new = {id \in Ids(ix) : id > to}
      /\ new = [k \in DOMAIN new |-> new[k]]
      /\ \A k \in DOMAIN new : new[k] = ix[k] \/ new[k] = [ix[k] EXCEPT !.prev = None]
  BY DEF IndexAbove, Ids
<1>2. \A k \in DOMAIN new : ix[k] \in Header /\ ix[k].prev < k /\ k \in 1..n
  BY <1>1 DEF IsIndex, LinksGoBack
<1>3. \A k \in DOMAIN new : new[k] \in Header /\ new[k].prev < k
  BY <1>1, <1>2 DEF Header, None
<1> QED
  BY <1>1, <1>2, <1>3 DEF IsIndex, LinksGoBack, Ids

\* Induction up to n for a set: what is in it holds of a recursive definition.
LEMMA UpTo ==
    ASSUME NEW n \in Nat, NEW A, 0 \in A, \A k \in 1..n : k - 1 \in A => k \in A
    PROVE  \A k \in 0..n : k \in A
<1> DEFINE S == {k \in 0..n : k \notin A}
<1> SUFFICES ASSUME S # {} PROVE FALSE
  OBVIOUS
<1>1. S \in SUBSET Nat
  OBVIOUS
<1>2. Min(S) \in S /\ \A i \in S : Min(S) <= i
  BY <1>1, MinNat
<1>3. PICK k \in S : \A i \in S : k <= i
  BY <1>2
<1>4. k # 0 /\ k \in 1..n /\ k - 1 \in 0..n /\ ~(k <= k - 1)
  BY <1>3
<1>5. k - 1 \in A
  BY <1>3, <1>4
<1> QED  BY <1>3, <1>4, <1>5

\* insert_block() goes through the block, one header after the other: what the index is
\* after each of them.
Inserts(after, ix, block, delUpTo) ==
    /\ after[0] = ix
    /\ \A k \in 1..Len(block) :
          after[k] = IF Wanted(ix, block[k], delUpTo)
                     THEN InsertHeader(after[k - 1], Clipped(block[k], delUpTo))
                     ELSE after[k - 1]
    /\ Update(ix, block, delUpTo) = after[Len(block)]

\* The index it returns is the one after the last header.
LEMMA UpdateRuns ==
    ASSUME NEW ix, NEW block, NEW delUpTo, Len(block) \in Nat
    PROVE  \E after : Inserts(after, ix, block, delUpTo)
<1> DEFINE n == Len(block)
           Next1(f, k) == IF k = 0 THEN ix
                         ELSE IF Wanted(ix, block[k], delUpTo)
                         THEN InsertHeader(f[k - 1], Clipped(block[k], delUpTo))
                         ELSE f[k - 1]
           Runs(k) == \E f : f = [i \in 0..k |-> Next1(f, i)]
           A == {k \in 0..n : Runs(k)}
<1>1. 0 \in A
  <2> DEFINE f == [i \in 0..0 |-> ix]
  <2>1. f = [i \in 0..0 |-> Next1(f, i)]
    OBVIOUS
  <2> HIDE DEF f, Next1
  <2>2. Runs(0)
    BY <2>1
  <2> QED  BY <2>2
<1>2. ASSUME NEW k \in 1..n, k - 1 \in A PROVE k \in A
  <2>1. PICK f : f = [i \in 0..(k - 1) |-> Next1(f, i)]
    BY <1>2
  <2> DEFINE g == [i \in 0..k |-> IF i < k THEN f[i] ELSE Next1(f, k)]
  <2>2. ASSUME NEW i \in 0..k PROVE g[i] = Next1(g, i)
    <3>1. CASE i = k
      <4>1. g[k - 1] = f[k - 1]
        OBVIOUS
      <4> HIDE DEF g
      <4>2. Next1(g, k) = Next1(f, k)
        BY <4>1
      <4> QED  BY <3>1, <4>2 DEF g
    <3>2. CASE i < k
      <4>1. f[i] = Next1(f, i)
        BY <2>1, <3>2
      <4>2. i # 0 => g[i - 1] = f[i - 1]
        BY <3>2
      <4>3. g[i] = f[i]
        BY <3>2
      <4> HIDE DEF g
      <4>4. Next1(g, i) = Next1(f, i)
        BY <4>2
      <4> QED  BY <4>1, <4>3, <4>4
    <3> QED  BY <3>1, <3>2
  <2>3. g = [i \in 0..k |-> g[i]]
    OBVIOUS
  <2> HIDE DEF g, Next1
  <2>4. g = [i \in 0..k |-> Next1(g, i)]
    BY <2>2, <2>3
  <2>5. Runs(k)
    BY <2>4
  <2> QED  BY <2>5
<1>3. n \in A
  <2>1. n \in Nat
    OBVIOUS
  <2>2. \A k \in 1..n : k - 1 \in A => k \in A
    BY <1>2
  <2> HIDE DEF A, n
  <2>3. \A k \in 0..n : k \in A
    BY ONLY <1>1, <2>1, <2>2, UpTo
  <2> QED  BY <2>1, <2>3
<1> DEFINE after == CHOOSE f : f = [i \in 0..n |-> Next1(f, i)]
<1>4. after = [i \in 0..n |-> Next1(after, i)]
  <2> HIDE DEF Next1
  <2> QED  BY <1>3
<1>5. Update(ix, block, delUpTo) = after[n]
  BY DEF Update
<1> HIDE DEF after
<1>6. after[0] = ix
  BY <1>4
<1>7. ASSUME NEW k \in 1..n
      PROVE  after[k] = IF Wanted(ix, block[k], delUpTo)
                        THEN InsertHeader(after[k - 1], Clipped(block[k], delUpTo))
                        ELSE after[k - 1]
  <2>1. after[k] = Next1(after, k)
    <3>1. k \in 0..n
      OBVIOUS
    <3> HIDE DEF Next1, n
    <3> QED  BY ONLY <1>4, <3>1
  <2>2. k # 0
    OBVIOUS
  <2> QED  BY ONLY <2>1, <2>2
<1>8. Inserts(after, ix, block, delUpTo)
  BY <1>5, <1>6, <1>7 DEF Inserts
<1> QED  BY <1>8

\* What is in a block.
Entries == [id : Nat, prev : Int, patch : BOOLEAN, deleted : BOOLEAN]

\* Every header names an earlier message, of those there were, or none.
LinksNameIds(ix) == \A id \in Ids(ix) : ix[id].prev \in {None} \union 1..(id - 1)
LinksOfMessage(m) == m.prev \in {None} \union 1..(m.id - 1)

\* What is marked as deleted in the index, and by a block.
DeletedIn(ix) == {id \in Ids(ix) : ix[id].deleted}
MessagesOf(block) == {block[i].id : i \in {j \in DOMAIN block : ~block[j].patch}}
PatchesOf(block) == {block[i].id : i \in {j \in DOMAIN block : block[j].patch}}

\* A header that is only a patch has no place in the list, and a message no live one
\* between it and the one it names that is not shown.
PatchesApart(ix) == \A id \in Ids(ix) : ix[id].patch => ix[id].deleted /\ ix[id].prev = None
NothingBetween(ix, L) ==
    \A id \in Ids(ix) : ~ix[id].patch =>
        \A k \in L : k < id => k <= ix[id].prev \/ k \in Shown(ix)

\* What insert_header() makes of each header.
LEMMA InsertCases ==
    ASSUME NEW n \in Nat, NEW ix, IsIndex(ix, n), NEW m \in Entries, m.id \in 1..n
    PROVE  LET new == InsertHeader(ix, m)
           IN /\ Ids(new) = Ids(ix) \union {m.id}
              /\ IsIndex(new, n)
              /\ m.id \in Ids(ix) => new[m.id] = MergeWith(ix[m.id], m)
              /\ m.id \notin Ids(ix)
                   => new[m.id] = [prev |-> m.prev, patch |-> m.patch, deleted |-> m.deleted]
              /\ \A k \in Ids(ix) \ {m.id} :
                    /\ new[k].patch = ix[k].patch /\ new[k].deleted = ix[k].deleted
                    /\ \/ new[k].prev = ix[k].prev
                       \/ /\ k > m.id /\ m.id \in Ids(ix)
                          /\ new[k].prev = Relinked(ix[m.id], m, ix[k].prev)
<1> DEFINE new == InsertHeader(ix, m)
           next == {k \in Ids(ix) : k > m.id}
<1>t. /\ m.id \in Nat /\ m.prev \in Int /\ m.patch \in BOOLEAN /\ m.deleted \in BOOLEAN
      /\ \A k \in Ids(ix) : ix[k] \in Header /\ k \in 1..n
  BY DEF Entries, IsIndex
<1>1. CASE m.id \notin Ids(ix)
  <2>1. new = [id \in Ids(ix) \union {m.id} |->
                 IF id = m.id THEN [prev |-> m.prev, patch |-> m.patch, deleted |-> m.deleted]
                 ELSE ix[id]]
    BY <1>1 DEF InsertHeader
  <2>2. /\ Ids(new) = Ids(ix) \union {m.id}
        /\ new = [k \in Ids(new) |-> new[k]]
        /\ new[m.id] = [prev |-> m.prev, patch |-> m.patch, deleted |-> m.deleted]
        /\ \A k \in Ids(ix) \ {m.id} : new[k] = ix[k]
    BY <1>1, <2>1 DEF Ids
  <2> HIDE DEF new
  <2>3. \A k \in Ids(new) : new[k] \in Header /\ k \in 1..n
    BY <1>t, <2>2 DEF Header
  <2> QED  BY <1>1, <2>2, <2>3 DEF IsIndex, new
<1>2. CASE m.id \in Ids(ix)
  <2>1. new = [id \in Ids(ix) |->
                IF id = m.id THEN MergeWith(ix[id], m)
                ELSE IF next # {} /\ id = Min(next)
                     THEN [ix[id] EXCEPT !.prev = Relinked(ix[m.id], m, @)]
                     ELSE ix[id]]
    BY <1>2 DEF InsertHeader
  <2>2. next # {} => Min(next) > m.id
    <3>1. next \in SUBSET (1..n)
      BY DEF IsIndex
    <3> QED  BY <3>1, LeastId
  <2>3. /\ Ids(new) = Ids(ix)
        /\ new = [k \in Ids(new) |-> new[k]]
        /\ new[m.id] = MergeWith(ix[m.id], m)
        /\ \A k \in Ids(ix) \ {m.id} :
              \/ new[k] = ix[k]
              \/ /\ k > m.id
                 /\ new[k] = [ix[k] EXCEPT !.prev = Relinked(ix[m.id], m, ix[k].prev)]
    BY <1>2, <2>1, <2>2 DEF Ids
  <2> HIDE DEF new, next
  <2>4. MergeWith(ix[m.id], m) \in Header
    BY <1>t, <1>2 DEF MergeWith, Header
  <2>5. \A k \in Ids(ix) : Relinked(ix[m.id], m, ix[k].prev) \in Int
    BY <1>t, <1>2 DEF Relinked, Header
  <2>6. ASSUME NEW k \in Ids(ix) \ {m.id}
        PROVE  /\ new[k] \in Header
               /\ new[k].patch = ix[k].patch /\ new[k].deleted = ix[k].deleted
               /\ \/ new[k].prev = ix[k].prev
                  \/ k > m.id /\ new[k].prev = Relinked(ix[m.id], m, ix[k].prev)
    <3>1. CASE new[k] = ix[k]
      BY <1>t, <3>1
    <3>2. CASE k > m.id /\ new[k] = [ix[k] EXCEPT !.prev = Relinked(ix[m.id], m, ix[k].prev)]
      <4>1. PICK p : p = Relinked(ix[m.id], m, ix[k].prev)
        OBVIOUS
      <4>2. p \in Int /\ ix[k] \in Header /\ new[k] = [ix[k] EXCEPT !.prev = p]
        BY <1>t, <2>5, <3>2, <4>1
      <4>3. new[k].prev = p /\ new[k].patch = ix[k].patch /\ new[k].deleted = ix[k].deleted
        BY <4>2 DEF Header
      <4>4. new[k] \in Header
        BY <4>2 DEF Header
      <4> QED  BY <3>2, <4>1, <4>3, <4>4
    <3> QED  BY <2>3, <3>1, <3>2
  <2>7. \A k \in Ids(new) : new[k] \in Header /\ k \in 1..n
    BY <1>t, <1>2, <2>3, <2>4, <2>6
  <2>8. IsIndex(new, n)
    BY <2>3, <2>7 DEF IsIndex
  <2>9. Ids(new) = Ids(ix) \union {m.id}
    BY <1>2, <2>3
  <2> QED  BY <1>2, <2>3, <2>6, <2>8, <2>9 DEF new
<1> QED  BY <1>1, <1>2

\* insert_header() keeps links naming earlier messages.
LEMMA InsertNamesIds ==
    ASSUME NEW n \in Nat, NEW ix, IsIndex(ix, n), NEW m \in Entries, m.id \in 1..n,
           LinksNameIds(ix), LinksOfMessage(m)
    PROVE  LinksNameIds(InsertHeader(ix, m))
<1>1. PICK new : new = InsertHeader(ix, m)
  OBVIOUS
<1>2. /\ Ids(new) = Ids(ix) \union {m.id}
      /\ m.id \in Ids(ix) => new[m.id] = MergeWith(ix[m.id], m)
      /\ m.id \notin Ids(ix)
           => new[m.id] = [prev |-> m.prev, patch |-> m.patch, deleted |-> m.deleted]
      /\ \A k \in Ids(ix) \ {m.id} :
            \/ new[k].prev = ix[k].prev
            \/ /\ k > m.id /\ m.id \in Ids(ix)
               /\ new[k].prev = Relinked(ix[m.id], m, ix[k].prev)
  BY <1>1, InsertCases
<1>3. new[m.id].prev \in {None} \union 1..(m.id - 1)
  <2>1. CASE m.id \in Ids(ix)
    <3>1. ix[m.id].prev \in {None} \union 1..(m.id - 1)
      BY <2>1 DEF LinksNameIds
    <3>2. new[m.id].prev = m.prev \/ new[m.id].prev = ix[m.id].prev
      BY <1>2, <2>1 DEF MergeWith
    <3> QED  BY <3>1, <3>2 DEF LinksOfMessage
  <2>2. CASE m.id \notin Ids(ix)
    BY <1>2, <2>2 DEF LinksOfMessage
  <2> QED  BY <2>1, <2>2
<1>4. ASSUME NEW k \in Ids(ix) \ {m.id}
      PROVE  new[k].prev \in {None} \union 1..(k - 1)
  <2>1. ix[k].prev \in {None} \union 1..(k - 1)
    BY DEF LinksNameIds
  <2>2. CASE new[k].prev = ix[k].prev
    BY <2>1, <2>2
  <2>3. CASE k > m.id /\ m.id \in Ids(ix) /\ new[k].prev = Relinked(ix[m.id], m, ix[k].prev)
    <3>1. k \in Nat /\ m.id \in 1..(k - 1)
      BY <2>3 DEF IsIndex
    <3>2. ix[m.id].prev \in {None} \union 1..(m.id - 1)
      BY <2>3 DEF LinksNameIds
    <3>3. ix[m.id].prev \in {None} \union 1..(k - 1)
      BY <3>1, <3>2
    <3>4. \/ new[k].prev = ix[m.id].prev
          \/ new[k].prev = m.id
          \/ new[k].prev = ix[k].prev
      BY <2>3 DEF Relinked
    <3> QED  BY <2>1, <3>1, <3>3, <3>4
  <2> QED  BY <1>2, <2>2, <2>3
<1> QED  BY <1>1, <1>2, <1>3, <1>4 DEF LinksNameIds

\* message_header::merge_with(), field by field.
LEMMA MergeFields ==
    ASSUME NEW h \in Header, NEW m \in Entries
    PROVE  LET new == MergeWith(h, m)
           IN /\ new.patch <=> h.patch /\ m.patch /\ (h.deleted => m.deleted)
              /\ new.deleted = m.deleted
              /\ ~m.patch => new.prev = m.prev
              /\ m.patch /\ m.prev = None => new.prev = h.prev
<1>1. h.patch \in BOOLEAN /\ m.patch \in BOOLEAN /\ h.deleted \in BOOLEAN
  BY DEF Header, Entries
<1>2. MergeWith(h, m).patch = (h.patch /\ m.patch /\ (h.deleted => m.deleted))
  BY DEF MergeWith
<1>3. MergeWith(h, m).patch <=> h.patch /\ m.patch /\ (h.deleted => m.deleted)
  BY <1>1, <1>2, Zenon
<1>4. MergeWith(h, m).deleted = m.deleted
  BY DEF MergeWith
<1>5. MergeWith(h, m).prev = IF m.prev # None \/ ~m.patch THEN m.prev ELSE h.prev
  BY DEF MergeWith
<1> QED  BY <1>3, <1>4, <1>5

\* What insert_header() marks as deleted, and that it hides no live message.
LEMMA InsertShows ==
    ASSUME NEW n \in Nat, NEW ix, IsIndex(ix, n), NEW m \in Entries, m.id \in 1..n,
           NEW E, DeletedIn(ix) \subseteq E, m.deleted => m.id \in E
    PROVE  /\ DeletedIn(InsertHeader(ix, m)) \subseteq E
           /\ \A k \in Shown(ix) : k \notin E => k \in Shown(InsertHeader(ix, m))
<1>1. PICK new : new = InsertHeader(ix, m)
  OBVIOUS
<1>2. /\ Ids(new) = Ids(ix) \union {m.id}
      /\ m.id \in Ids(ix) => new[m.id] = MergeWith(ix[m.id], m)
      /\ m.id \notin Ids(ix)
           => new[m.id] = [prev |-> m.prev, patch |-> m.patch, deleted |-> m.deleted]
      /\ \A k \in Ids(ix) \ {m.id} :
            new[k].patch = ix[k].patch /\ new[k].deleted = ix[k].deleted
  BY <1>1, InsertCases
<1>3. new[m.id].deleted = m.deleted
  BY <1>2 DEF MergeWith
<1>4. m.id \in Ids(ix) /\ ~ix[m.id].patch => ~new[m.id].patch
  BY <1>2, MergeFields DEF IsIndex
<1>5. \A k \in Ids(new) : new[k].deleted => k \in E
  BY <1>2, <1>3 DEF DeletedIn
<1>6. \A k \in Shown(ix) : k \notin E => k \in Shown(new)
  BY <1>2, <1>3, <1>4 DEF Shown
<1> QED  BY <1>1, <1>5, <1>6 DEF DeletedIn

\* insert_header() leaves no live message out between a message and the one it names:
\* the next header is linked past a message that is deleted, unless that one is a patch
\* already, or returns.
LEMMA InsertSound ==
    ASSUME NEW n \in Nat, NEW ix, IsIndex(ix, n), NEW m \in Entries, m.id \in 1..n,
           NEW L \in SUBSET Nat, NEW E, E \intersect L = {},
           PatchesApart(ix), NothingBetween(ix, L), DeletedIn(ix) \subseteq E,
           m.deleted => m.id \in E,
           m.patch => m.deleted /\ m.prev = None,
           ~m.patch => \A k \in L : k < m.id => k <= m.prev \/ k \in Shown(ix),
           m.id \in Ids(ix) /\ ix[m.id].deleted => m.deleted,
           m.id \in Ids(ix) /\ m.deleted => ~ix[m.id].patch
    PROVE  PatchesApart(InsertHeader(ix, m)) /\ NothingBetween(InsertHeader(ix, m), L)
<1>1. PICK new : new = InsertHeader(ix, m)
  OBVIOUS
<1>2. /\ Ids(new) = Ids(ix) \union {m.id}
      /\ m.id \in Ids(ix) => new[m.id] = MergeWith(ix[m.id], m)
      /\ m.id \notin Ids(ix)
           => new[m.id] = [prev |-> m.prev, patch |-> m.patch, deleted |-> m.deleted]
      /\ \A k \in Ids(ix) \ {m.id} :
            /\ new[k].patch = ix[k].patch /\ new[k].deleted = ix[k].deleted
            /\ \/ new[k].prev = ix[k].prev
               \/ /\ k > m.id /\ m.id \in Ids(ix)
                  /\ new[k].prev = Relinked(ix[m.id], m, ix[k].prev)
  BY <1>1, InsertCases
<1>3. \A k \in L : k \in Shown(ix) => k \in Shown(new)
  <2>1. \A k \in Shown(ix) : k \notin E => k \in Shown(new)
    BY <1>1, InsertShows
  <2> QED  BY <2>1
<1>4. m.id \in Nat /\ m.id # None
  BY DEF None
<1>5. ASSUME NEW k \in Ids(ix) \ {m.id}
      PROVE  \/ new[k].prev = ix[k].prev
             \/ /\ k > m.id /\ m.id \in Ids(ix) /\ m.deleted /\ ix[k].prev = m.id
                /\ new[k].prev = ix[m.id].prev
  BY <1>2 DEF Relinked
<1>6. ASSUME NEW id \in Ids(new), new[id].patch
      PROVE  new[id].deleted /\ new[id].prev = None
  <2>1. CASE id # m.id
    <3>1. id \in Ids(ix) /\ ix[id].patch /\ new[id].deleted = ix[id].deleted
      BY <1>2, <1>6, <2>1
    <3>2. ix[id].deleted /\ ix[id].prev = None
      BY <3>1 DEF PatchesApart
    <3> QED  BY <1>4, <1>5, <2>1, <3>1, <3>2
  <2>2. CASE id = m.id /\ m.id \notin Ids(ix)
    BY <1>2, <1>6, <2>2
  <2>3. CASE id = m.id /\ m.id \in Ids(ix)
    <3>1. m.patch /\ ix[id].patch
      BY <1>2, <1>6, <2>3, MergeFields DEF IsIndex
    <3> QED  BY <2>3, <3>1
  <2> QED  BY <2>1, <2>2, <2>3
<1>7. ASSUME NEW id \in Ids(new), ~new[id].patch, NEW k \in L, k < id
      PROVE  k <= new[id].prev \/ k \in Shown(new)
  <2>1. CASE id = m.id /\ m.id \notin Ids(ix)
    <3>1. ~m.patch /\ new[id].prev = m.prev
      BY <1>2, <1>7, <2>1
    <3> QED  BY <1>3, <1>7, <2>1, <3>1
  <2>2. CASE id = m.id /\ m.id \in Ids(ix) /\ ~m.patch
    <3>1. new[id].prev = m.prev
      BY <1>2, <2>2 DEF MergeWith
    <3> QED  BY <1>3, <1>7, <2>2, <3>1
  <2>3. CASE id = m.id /\ m.id \in Ids(ix) /\ m.patch
    <3>1. new[id].prev = ix[id].prev /\ ~ix[id].patch
      BY <1>2, <2>3 DEF MergeWith
    <3> QED  BY <1>3, <1>7, <2>3, <3>1 DEF NothingBetween
  <2>4. CASE id # m.id
    <3>1. id \in Ids(ix) /\ ~ix[id].patch
      BY <1>2, <1>7, <2>4
    <3>2. k <= ix[id].prev \/ k \in Shown(ix)
      BY <1>7, <3>1 DEF NothingBetween
    <3>3. CASE new[id].prev = ix[id].prev
      BY <1>3, <3>2, <3>3
    <3>4. CASE /\ m.id \in Ids(ix) /\ m.deleted /\ ix[id].prev = m.id
               /\ new[id].prev = ix[m.id].prev
      <4>1. k # m.id
        BY <3>4
      <4>2. ~ix[m.id].patch
        BY <3>4
      <4>3. CASE k < m.id
        <5>1. k <= ix[m.id].prev \/ k \in Shown(ix)
          BY <3>4, <4>2, <4>3 DEF NothingBetween
        <5> QED  BY <1>3, <3>4, <5>1
      <4>4. CASE ~(k < m.id)
        <5>1. ~(k <= ix[id].prev)
          BY <1>4, <3>4, <4>1, <4>4
        <5> QED  BY <1>3, <3>2, <5>1
      <4> QED  BY <4>3, <4>4
    <3> QED  BY <1>5, <2>4, <3>1, <3>3, <3>4
  <2> QED  BY <2>1, <2>2, <2>3, <2>4
<1> QED  BY <1>1, <1>6, <1>7 DEF PatchesApart, NothingBetween

\* A block of messages up to n, each naming an earlier one or none.
BlockUpTo(block, n) ==
    /\ block \in Seq(Entries)
    /\ \A i \in DOMAIN block : block[i].id \in 1..n /\ LinksOfMessage(block[i])
IdsDiffer(block) == \A i, j \in DOMAIN block : i # j => block[i].id # block[j].id

\* What became of an id: nothing, or what the message m of the block says of it.
Same(new, ix, id) ==
    /\ id \in Ids(new) <=> id \in Ids(ix)
    /\ id \in Ids(ix) => new[id].patch = ix[id].patch /\ new[id].deleted = ix[id].deleted
Put(new, ix, m) ==
    /\ m.id \in Ids(new)
    /\ new[m.id].deleted = m.deleted
    /\ new[m.id].patch <=> /\ m.patch
                           /\ m.id \in Ids(ix)
                                => ix[m.id].patch /\ (ix[m.id].deleted => m.deleted)

\* What was deleted up to is left out of the links.
LEMMA ClippedFields ==
    ASSUME NEW m \in Entries, LinksOfMessage(m), NEW d \in Nat
    PROVE  LET c == Clipped(m, d)
           IN /\ c \in Entries /\ LinksOfMessage(c)
              /\ c.id = m.id /\ c.patch = m.patch /\ c.deleted = m.deleted
              /\ \/ c.prev = m.prev
                 \/ c.prev = None /\ m.prev <= d
<1>1. CASE m.prev <= d
  <2>1. Clipped(m, d) = [m EXCEPT !.prev = None]
    BY <1>1 DEF Clipped
  <2> QED  BY <1>1, <2>1 DEF Entries, LinksOfMessage, None
<1>2. CASE ~(m.prev <= d)
  BY <1>2 DEF Clipped
<1> QED  BY <1>1, <1>2

\* insert_header() makes an index.
LEMMA InsertIsIndex ==
    ASSUME NEW n \in Nat, NEW ix, IsIndex(ix, n), NEW m \in Entries, m.id \in 1..n
    PROVE  IsIndex(InsertHeader(ix, m), n)
BY InsertCases

\* insert_header() changes the flags of the header of its message, as merge_with() says.
LEMMA InsertFlags ==
    ASSUME NEW n \in Nat, NEW ix, IsIndex(ix, n), NEW m \in Entries, m.id \in 1..n
    PROVE  LET new == InsertHeader(ix, m)
           IN /\ \A id : id # m.id => Same(new, ix, id)
              /\ Put(new, ix, m)
<1>1. PICK new : new = InsertHeader(ix, m)
  OBVIOUS
<1>2. /\ Ids(new) = Ids(ix) \union {m.id}
      /\ m.id \in Ids(ix) => new[m.id] = MergeWith(ix[m.id], m)
      /\ m.id \notin Ids(ix)
           => new[m.id] = [prev |-> m.prev, patch |-> m.patch, deleted |-> m.deleted]
      /\ \A k \in Ids(ix) \ {m.id} :
            new[k].patch = ix[k].patch /\ new[k].deleted = ix[k].deleted
  BY <1>1, InsertCases
<1>3. \A id : id # m.id => Same(new, ix, id)
  BY <1>2 DEF Same
<1>4. Put(new, ix, m)
  <2>1. CASE m.id \in Ids(ix)
    <3>1. ix[m.id] \in Header
      BY <2>1 DEF IsIndex
    <3>2. new[m.id] = MergeWith(ix[m.id], m)
      BY <1>2, <2>1
    <3> QED  BY <1>2, <2>1, <3>1, <3>2, MergeFields DEF Put
  <2>2. CASE m.id \notin Ids(ix)
    BY <1>2, <2>2 DEF Put
  <2> QED  BY <2>1, <2>2
<1> QED  BY <1>1, <1>3, <1>4

\* insert_block(), header by header: each message of the block that is wanted is put
\* into the index as the others left it.
LEMMA UpdateTypes ==
    ASSUME NEW n \in Nat, NEW ix, IsIndex(ix, n), LinksNameIds(ix),
           NEW block, BlockUpTo(block, n), NEW d \in Nat
    PROVE  LET new == Update(ix, block, d)
           IN IsIndex(new, n) /\ LinksNameIds(new)
<1> DEFINE l == Len(block)
<1>1. l \in Nat /\ \A i \in 1..l : /\ block[i] \in Entries /\ block[i].id \in 1..n
                                   /\ LinksOfMessage(block[i])
  BY DEF BlockUpTo
<1>2. PICK after :
        /\ after[0] = ix
        /\ \A k \in 1..l :
              after[k] = IF Wanted(ix, block[k], d)
                         THEN InsertHeader(after[k - 1], Clipped(block[k], d))
                         ELSE after[k - 1]
        /\ Update(ix, block, d) = after[l]
  <2>1. Len(block) \in Nat
    BY <1>1
  <2>2. PICK after : Inserts(after, ix, block, d)
    BY <2>1, UpdateRuns
  <2> QED  BY <2>2 DEF Inserts
<1> DEFINE A == {k \in 0..l : IsIndex(after[k], n) /\ LinksNameIds(after[k])}
<1>3. 0 \in A
  BY <1>1, <1>2
<1>4. ASSUME NEW k \in 1..l, k - 1 \in A PROVE k \in A
  <2>1. CASE Wanted(ix, block[k], d)
    <3>1. PICK c : c = Clipped(block[k], d)
      OBVIOUS
    <3>2. c \in Entries /\ LinksOfMessage(c) /\ c.id \in 1..n
      BY <1>1, <3>1, ClippedFields
    <3>3. after[k] = InsertHeader(after[k - 1], c)
      BY <1>2, <2>1, <3>1
    <3>4. IsIndex(after[k - 1], n) /\ LinksNameIds(after[k - 1])
      BY <1>4
    <3>5. IsIndex(after[k], n)
      BY ONLY <3>2, <3>3, <3>4, InsertIsIndex, n \in Nat
    <3>6. LinksNameIds(after[k])
      BY ONLY <3>2, <3>3, <3>4, InsertNamesIds, n \in Nat
    <3> QED  BY <3>5, <3>6
  <2>2. CASE ~Wanted(ix, block[k], d)
    <3>1. after[k] = after[k - 1]
      BY <1>2, <2>2
    <3> QED  BY <1>4, <3>1
  <2> QED  BY <2>1, <2>2
<1> HIDE DEF A, l
<1>5. \A k \in 0..l : k \in A
  BY ONLY <1>1, <1>3, <1>4, UpTo
<1>6. l \in A
  BY <1>1, <1>5
<1> QED  BY <1>2, <1>6 DEF A

\* insert_block() changes the flags of the headers of what is wanted of the block, and
\* of no other.
LEMMA UpdateFlags ==
    ASSUME NEW n \in Nat, NEW ix, IsIndex(ix, n), NEW block, BlockUpTo(block, n),
           IdsDiffer(block), NEW d \in Nat
    PROVE  LET new == Update(ix, block, d)
           IN /\ IsIndex(new, n)
              /\ \A id : (\A i \in DOMAIN block : block[i].id = id => ~Wanted(ix, block[i], d))
                            => Same(new, ix, id)
              /\ \A i \in DOMAIN block : Wanted(ix, block[i], d) => Put(new, ix, block[i])
<1> DEFINE l == Len(block)
           Want(i) == Wanted(ix, block[i], d)
           Left(f, k) == \A id : (\A i \in 1..k : block[i].id = id => ~Want(i)) => Same(f, ix, id)
           Done(f, k) == \A i \in 1..k : Want(i) => Put(f, ix, block[i])
           Good(f, k) == IsIndex(f, n) /\ Left(f, k) /\ Done(f, k)
<1>1. l \in Nat /\ \A i \in 1..l : /\ block[i] \in Entries /\ block[i].id \in 1..n
                                   /\ LinksOfMessage(block[i])
  BY DEF BlockUpTo
<1>2. PICK after :
        /\ after[0] = ix
        /\ \A k \in 1..l :
              after[k] = IF Want(k) THEN InsertHeader(after[k - 1], Clipped(block[k], d))
                         ELSE after[k - 1]
        /\ Update(ix, block, d) = after[l]
  <2>1. Len(block) \in Nat
    BY <1>1
  <2>2. PICK after : Inserts(after, ix, block, d)
    BY <2>1, UpdateRuns
  <2> QED  BY <2>2 DEF Inserts
<1> DEFINE A == {k \in 0..l : Good(after[k], k)}
<1>3. 0 \in A
  <2>1. Good(ix, 0)
    BY DEF Same
  <2> HIDE DEF Good, l
  <2> QED  BY <1>1, <1>2, <2>1
<1>4. ASSUME NEW k \in 1..l, k - 1 \in A PROVE k \in A
  <2> DEFINE f == after[k - 1]
             g == after[k]
  <2>1. IsIndex(f, n) /\ Left(f, k - 1) /\ Done(f, k - 1)
    BY <1>4
  <2>2. \A i \in 1..(k - 1) : i \in 1..l /\ i # k /\ i \in 1..k
    BY <1>1
  <2>3. \A i \in 1..k : i = k \/ i \in 1..(k - 1)
    BY <1>1
  <2>4. CASE Want(k)
    <3>1. PICK c : c = Clipped(block[k], d)
      OBVIOUS
    <3>2. /\ c \in Entries /\ c.id = block[k].id /\ c.id \in 1..n
          /\ c.patch = block[k].patch /\ c.deleted = block[k].deleted
      BY <1>1, <3>1, ClippedFields
    <3>3. g = InsertHeader(f, c)
      BY <1>2, <2>4, <3>1
    <3>4. IsIndex(g, n)
      BY ONLY <2>1, <3>2, <3>3, InsertIsIndex, n \in Nat
    <3>5. (\A id : id # c.id => Same(g, f, id)) /\ Put(g, f, c)
      BY ONLY <2>1, <3>2, <3>3, InsertFlags, n \in Nat
    <3>6. \A i \in 1..(k - 1) : block[i].id # block[k].id
      BY <2>2 DEF IdsDiffer, BlockUpTo
    <3>7. Same(f, ix, c.id)
      BY <2>1, <3>2, <3>6
    <3> HIDE DEF f, g, l, Want
    <3>8. Put(g, ix, block[k])
      BY <3>2, <3>5, <3>7 DEF Put, Same
    <3>9. Left(g, k)
      <4> SUFFICES ASSUME NEW id, \A i \in 1..k : block[i].id = id => ~Want(i)
                   PROVE  Same(g, ix, id)
        OBVIOUS
      <4>1. id # c.id
        BY <2>4, <3>2
      <4>2. Same(f, ix, id)
        BY <2>1, <2>2
      <4>3. Same(g, f, id)
        BY <3>5, <4>1
      <4> QED  BY <4>2, <4>3 DEF Same
    <3>10. Done(g, k)
      <4> SUFFICES ASSUME NEW i \in 1..k, Want(i) PROVE Put(g, ix, block[i])
        OBVIOUS
      <4>1. CASE i = k
        BY <3>8, <4>1
      <4>2. CASE i \in 1..(k - 1)
        <5>1. Put(f, ix, block[i])
          BY <2>1, <4>2
        <5>2. Same(g, f, block[i].id)
          BY <3>2, <3>5, <3>6, <4>2
        <5> QED  BY <5>1, <5>2 DEF Put, Same
      <4> QED  BY <2>3, <4>1, <4>2
    <3> QED  BY <3>4, <3>9, <3>10 DEF g, l
  <2>5. CASE ~Want(k)
    <3>1. g = f
      BY <1>2, <2>5
    <3> HIDE DEF f, g, Want, l
    <3>2. Left(f, k)
      BY <2>1, <2>2
    <3>3. Done(f, k)
      BY <2>1, <2>3, <2>5
    <3> QED  BY <2>1, <3>1, <3>2, <3>3 DEF g, l
  <2> QED  BY <2>4, <2>5
<1> HIDE DEF A, l, Want
<1>5. \A k \in 0..l : k \in A
  BY ONLY <1>1, <1>3, <1>4, UpTo
<1>6. Good(after[l], l)
  BY <1>1, <1>5 DEF A
<1>7. DOMAIN block = 1..l
  BY DEF l, BlockUpTo
<1> QED  BY <1>2, <1>6, <1>7 DEF Want

\* What a block says is so on a server with the messages L, that has erased those of E.
Truthful(block, L, E) ==
    \A i \in DOMAIN block :
       LET m == block[i]
       IN /\ m.patch => m.deleted /\ m.prev = None /\ m.id \in E
          /\ ~m.patch => ~m.deleted /\ \A k \in L : k < m.id => k <= m.prev

\* What insert_block() shows and marks as deleted: the messages and the patches of the
\* block, above what was deleted at once.
LEMMA UpdateShows ==
    ASSUME NEW n \in Nat, NEW ix, IsIndex(ix, n), NEW block, BlockUpTo(block, n),
           IdsDiffer(block), NEW d \in Nat, NEW L, NEW E, Truthful(block, L, E)
    PROVE  LET new == Update(ix, block, d)
           IN /\ \A id \in DeletedIn(new) : id \in DeletedIn(ix) \/ id \in PatchesOf(block)
              /\ \A id \in Shown(new) : id \in Shown(ix) \/ id \in MessagesOf(block)
              /\ \A id \in Ids(new) : id \in Ids(ix) \/ id > d
              /\ \A id \in PatchesOf(block) : id > d => id \notin Shown(new)
<1>1. PICK new : new = Update(ix, block, d)
  OBVIOUS
<1>2. /\ \A id : (\A i \in DOMAIN block : block[i].id = id => ~Wanted(ix, block[i], d))
                     => Same(new, ix, id)
      /\ \A i \in DOMAIN block : Wanted(ix, block[i], d) => Put(new, ix, block[i])
  BY ONLY <1>1, UpdateFlags, n \in Nat, IsIndex(ix, n), BlockUpTo(block, n),
          IdsDiffer(block), d \in Nat
<1>3. \A i \in DOMAIN block : /\ block[i].patch => block[i].deleted
                              /\ ~block[i].patch => ~block[i].deleted
  BY DEF Truthful
<1>4. ASSUME NEW id
      PROVE  \/ Same(new, ix, id)
             \/ \E i \in DOMAIN block : /\ block[i].id = id /\ Wanted(ix, block[i], d)
                                        /\ Put(new, ix, block[i])
  BY <1>2
<1>5. ASSUME NEW id \in DeletedIn(new) PROVE id \in DeletedIn(ix) \/ id \in PatchesOf(block)
  <2>1. CASE Same(new, ix, id)
    BY <2>1 DEF Same, DeletedIn
  <2>2. CASE \E i \in DOMAIN block : block[i].id = id /\ Put(new, ix, block[i])
    <3>1. PICK i \in DOMAIN block : block[i].id = id /\ Put(new, ix, block[i])
      BY <2>2
    <3>2. block[i].patch
      BY <1>3, <3>1 DEF Put, DeletedIn
    <3> QED  BY <3>1, <3>2 DEF PatchesOf
  <2> QED  BY <1>4, <2>1, <2>2
<1>6. ASSUME NEW id \in Shown(new) PROVE id \in Shown(ix) \/ id \in MessagesOf(block)
  <2>1. CASE Same(new, ix, id)
    BY <2>1 DEF Same, Shown
  <2>2. CASE \E i \in DOMAIN block : block[i].id = id /\ Put(new, ix, block[i])
    <3>1. PICK i \in DOMAIN block : block[i].id = id /\ Put(new, ix, block[i])
      BY <2>2
    <3>2. ~block[i].patch
      BY <1>3, <3>1 DEF Put, Shown
    <3> QED  BY <3>1, <3>2 DEF MessagesOf
  <2> QED  BY <1>4, <2>1, <2>2
<1>7. ASSUME NEW id \in Ids(new) PROVE id \in Ids(ix) \/ id > d
  BY <1>4 DEF Same, Wanted
<1>8. ASSUME NEW id \in PatchesOf(block), id > d PROVE id \notin Shown(new)
  <2>1. PICK i \in DOMAIN block : block[i].patch /\ block[i].id = id
    BY DEF PatchesOf
  <2>2. CASE Wanted(ix, block[i], d)
    <3>1. Put(new, ix, block[i])
      BY <1>2, <2>2
    <3>2. new[id].deleted
      BY <1>3, <2>1, <3>1 DEF Put
    <3> QED  BY <3>2 DEF Shown
  <2>3. CASE ~Wanted(ix, block[i], d)
    <3>1. id \in Ids(ix) /\ ix[id].patch = block[i].patch
      BY <1>8, <2>1, <2>3 DEF Wanted, Duplicate
    <3>2. \A j \in DOMAIN block : block[j].id = id => ~Wanted(ix, block[j], d)
      BY <2>1, <2>3 DEF IdsDiffer
    <3>3. Same(new, ix, id)
      BY <1>2, <3>2
    <3>4. new[id].patch
      BY <2>1, <3>1, <3>3 DEF Same
    <3> QED  BY <3>4 DEF Shown
  <2> QED  BY <2>2, <2>3
<1> QED  BY <1>1, <1>5, <1>6, <1>7, <1>8

\* insert_block() leaves no live message out, of a block whose messages none is marked
\* as deleted yet.
LEMMA UpdateSound ==
    ASSUME NEW n \in Nat, NEW ix, IsIndex(ix, n), NEW block, BlockUpTo(block, n),
           IdsDiffer(block), NEW d \in Nat,
           NEW L \in SUBSET Nat, NEW E, E \intersect L = {}, \A k \in L : k > d,
           PatchesApart(ix), NothingBetween(ix, L), DeletedIn(ix) \subseteq E,
           Truthful(block, L, E), MessagesOf(block) \intersect DeletedIn(ix) = {}
    PROVE  LET new == Update(ix, block, d)
           IN PatchesApart(new) /\ NothingBetween(new, L) /\ DeletedIn(new) \subseteq E
<1> DEFINE l == Len(block)
           Want(i) == Wanted(ix, block[i], d)
           Left(f, k) == \A id : (\A i \in 1..k : block[i].id # id) => Same(f, ix, id)
           Good(f, k) == /\ IsIndex(f, n) /\ Left(f, k)
                         /\ PatchesApart(f) /\ NothingBetween(f, L) /\ DeletedIn(f) \subseteq E
<1>1. l \in Nat /\ \A i \in 1..l : /\ block[i] \in Entries /\ block[i].id \in 1..n
                                   /\ LinksOfMessage(block[i]) /\ i \in DOMAIN block
  BY DEF BlockUpTo
<1>2. PICK after :
        /\ after[0] = ix
        /\ \A k \in 1..l :
              after[k] = IF Want(k) THEN InsertHeader(after[k - 1], Clipped(block[k], d))
                         ELSE after[k - 1]
        /\ Update(ix, block, d) = after[l]
  <2>1. Len(block) \in Nat
    BY <1>1
  <2>2. PICK after : Inserts(after, ix, block, d)
    BY <2>1, UpdateRuns
  <2> QED  BY <2>2 DEF Inserts
<1> DEFINE A == {k \in 0..l : Good(after[k], k)}
<1>3. 0 \in A
  <2>1. Good(ix, 0)
    BY DEF Same
  <2> HIDE DEF Good, l
  <2> QED  BY <1>1, <1>2, <2>1
<1>4. ASSUME NEW k \in 1..l, k - 1 \in A PROVE k \in A
  <2> DEFINE f == after[k - 1]
             g == after[k]
             m == block[k]
  <2>1. /\ IsIndex(f, n) /\ Left(f, k - 1)
        /\ PatchesApart(f) /\ NothingBetween(f, L) /\ DeletedIn(f) \subseteq E
    BY <1>4
  <2>2. \A i \in 1..(k - 1) : i \in 1..k
    BY <1>1
  <2>3. CASE Want(k)
    <3>1. PICK c : c = Clipped(m, d)
      OBVIOUS
    <3>2. /\ c \in Entries /\ c.id = m.id /\ c.id \in 1..n
          /\ c.patch = m.patch /\ c.deleted = m.deleted
          /\ (c.prev = m.prev \/ (c.prev = None /\ m.prev <= d))
      BY <1>1, <3>1, ClippedFields
    <3>3. g = InsertHeader(f, c)
      BY <1>2, <2>3, <3>1
    <3>4. Same(f, ix, m.id)
      <4>1. \A i \in 1..(k - 1) : i \in DOMAIN block /\ i # k /\ k \in DOMAIN block
        BY <1>1
      <4>2. \A i \in 1..(k - 1) : block[i].id # block[k].id
        BY <4>1 DEF IdsDiffer
      <4> QED  BY <2>1, <4>2
    <3>5. /\ m.patch => m.deleted /\ m.prev = None /\ m.id \in E
          /\ ~m.patch => ~m.deleted /\ \A j \in L : j < m.id => j <= m.prev
      BY <1>1 DEF Truthful
    <3>6. m.deleted => m.patch /\ m.id \in E
      BY <3>5
    <3>7. ~m.patch /\ m.id \in Ids(ix) => ~ix[m.id].deleted
      BY <1>1 DEF MessagesOf, DeletedIn
    <3>8. m.patch /\ m.id \in Ids(ix) => ~ix[m.id].patch
      <4> SUFFICES ASSUME m.patch, m.id \in Ids(ix), ix[m.id].patch PROVE FALSE
        OBVIOUS
      <4>1. ix[m.id].prev = None /\ m.prev = None
        BY <3>5 DEF PatchesApart
      <4>2. m.patch \in BOOLEAN /\ ix[m.id].patch \in BOOLEAN
        BY <1>1 DEF Entries, IsIndex, Header
      <4> QED  BY <2>3, <4>1, <4>2 DEF Wanted, Duplicate
    <3> HIDE DEF f, g, m, l, Want
    <3>9. /\ c.deleted => c.id \in E
          /\ c.patch => c.deleted /\ c.prev = None
      BY <3>2, <3>5, <3>6
    <3>10. ~c.patch => \A j \in L : j < c.id => j <= c.prev \/ j \in Shown(f)
      <4> SUFFICES ASSUME ~c.patch, NEW j \in L, j < c.id PROVE j <= c.prev
        OBVIOUS
      <4>1. j <= m.prev /\ j > d /\ m.prev \in Int /\ j \in Nat
        <5>1. m.prev \in Int
          BY <1>1 DEF m, Entries
        <5> QED  BY <3>2, <3>5, <5>1
      <4> QED  BY <3>2, <4>1
    <3>11. /\ c.id \in Ids(f) /\ f[c.id].deleted => c.deleted
           /\ c.id \in Ids(f) /\ c.deleted => ~f[c.id].patch
      BY <3>2, <3>4, <3>5, <3>6, <3>7, <3>8 DEF Same
    <3>12. IsIndex(g, n)
      BY ONLY <2>1, <3>2, <3>3, InsertIsIndex, n \in Nat
    <3>13. PatchesApart(g) /\ NothingBetween(g, L)
      BY ONLY <2>1, <3>2, <3>3, <3>9, <3>10, <3>11, InsertSound, n \in Nat,
              L \in SUBSET Nat, E \intersect L = {}
    <3>14. DeletedIn(g) \subseteq E
      BY ONLY <2>1, <3>2, <3>3, <3>9, InsertShows, n \in Nat
    <3>15. Left(g, k)
      <4> SUFFICES ASSUME NEW id, \A i \in 1..k : block[i].id # id PROVE Same(g, ix, id)
        OBVIOUS
      <4>1. id # c.id
        BY <1>1, <3>2 DEF m
      <4>2. Same(f, ix, id)
        BY <2>1, <2>2
      <4>3. Same(g, f, id)
        BY ONLY <2>1, <3>2, <3>3, <4>1, InsertFlags, n \in Nat
      <4> QED  BY <4>2, <4>3 DEF Same
    <3> QED  BY <3>12, <3>13, <3>14, <3>15 DEF g, l
  <2>4. CASE ~Want(k)
    <3>1. g = f
      BY <1>2, <2>4
    <3> HIDE DEF f, g, Want, l
    <3>2. Left(f, k)
      BY <2>1, <2>2
    <3> QED  BY <2>1, <3>1, <3>2 DEF g, l
  <2> QED  BY <2>3, <2>4
<1> HIDE DEF A, l, Want
<1>5. \A k \in 0..l : k \in A
  BY ONLY <1>1, <1>3, <1>4, UpTo
<1>6. Good(after[l], l)
  BY <1>1, <1>5 DEF A
<1> QED  BY <1>2, <1>6

\* A block that is all there is below a message.
AllBelow(block, from, hasOlder, L) ==
    ~hasOlder /\ from # None => \A k \in L : k < from => k \in MessagesOf(block)

\* The header insert_history_block() makes of the first message of the history.
LEMMA EndsEntry ==
    ASSUME NEW n \in Nat, NEW ix, IsIndex(ix, n), NEW from, from \in Ids(ix)
    PROVE  LET m == [Message(from, None) EXCEPT !.deleted = ix[from].deleted]
           IN /\ m \in Entries /\ m.id = from /\ from \in 1..n /\ LinksOfMessage(m)
              /\ m.prev = None /\ ~m.patch /\ m.deleted = ix[from].deleted
<1>1. from \in 1..n /\ ix[from].deleted \in BOOLEAN
  BY DEF IsIndex, Header
<1>2. PICK m : m = [Message(from, None) EXCEPT !.deleted = ix[from].deleted]
  OBVIOUS
<1>3. m = [id |-> from, prev |-> None, patch |-> FALSE, deleted |-> ix[from].deleted]
  BY <1>2 DEF Message
<1>4. m \in Entries /\ LinksOfMessage(m)
  BY <1>1, <1>3 DEF Entries, LinksOfMessage, None
<1> QED  BY <1>1, <1>2, <1>3, <1>4

\* insert_history_block() keeps an index whose links name earlier messages.
LEMMA BlockTypes ==
    ASSUME NEW n \in Nat, NEW ix, IsIndex(ix, n), LinksNameIds(ix),
           NEW block, BlockUpTo(block, n), NEW d \in Nat, NEW from, NEW hasOlder
    PROVE  LET new == InsertHistoryBlock(ix, block, d, from, hasOlder)
           IN IsIndex(new, n) /\ LinksNameIds(new)
<1>1. PICK new : new = InsertHistoryBlock(ix, block, d, from, hasOlder)
  OBVIOUS
<1>2. CASE Ends(ix, block, d, from, hasOlder)
  <2>1. PICK m : m = [Message(from, None) EXCEPT !.deleted = ix[from].deleted]
    OBVIOUS
  <2>2. new = InsertHeader(ix, m)
    BY <1>1, <1>2, <2>1 DEF InsertHistoryBlock
  <2>3. from \in Ids(ix)
    BY <1>2 DEF Ends
  <2>4. m \in Entries /\ m.id \in 1..n /\ LinksOfMessage(m)
    BY <2>1, <2>3, EndsEntry
  <2>5. IsIndex(new, n)
    BY ONLY <2>2, <2>4, InsertIsIndex, n \in Nat, IsIndex(ix, n)
  <2>6. LinksNameIds(new)
    BY ONLY <2>2, <2>4, InsertNamesIds, n \in Nat, IsIndex(ix, n), LinksNameIds(ix)
  <2> QED  BY <1>1, <2>5, <2>6
<1>3. CASE ~Ends(ix, block, d, from, hasOlder)
  <2>1. new = Update(ix, block, d)
    BY <1>1, <1>3 DEF InsertHistoryBlock
  <2>2. IsIndex(new, n) /\ LinksNameIds(new)
    BY ONLY <2>1, UpdateTypes, n \in Nat, IsIndex(ix, n), LinksNameIds(ix),
            BlockUpTo(block, n), d \in Nat
  <2> QED  BY <1>1, <2>2
<1> QED  BY <1>2, <1>3

\* insert_history_block() shows the messages of the block and marks as deleted what its
\* patches name, above what was deleted at once.
LEMMA BlockShows ==
    ASSUME NEW n \in Nat, NEW ix, IsIndex(ix, n), NEW block, BlockUpTo(block, n),
           IdsDiffer(block), NEW d \in Nat, NEW L, NEW E, Truthful(block, L, E),
           NEW from, NEW hasOlder
    PROVE  LET new == InsertHistoryBlock(ix, block, d, from, hasOlder)
           IN /\ \A id \in DeletedIn(new) : id \in DeletedIn(ix) \/ id \in PatchesOf(block)
              /\ \A id \in Shown(new) : id \in Shown(ix) \/ id \in MessagesOf(block)
              /\ \A id \in Ids(new) : id \in Ids(ix) \/ id > d
              /\ \A id \in PatchesOf(block) : id > d => id \notin Shown(new)
<1>1. PICK new : new = InsertHistoryBlock(ix, block, d, from, hasOlder)
  OBVIOUS
<1>2. CASE Ends(ix, block, d, from, hasOlder)
  <2>1. PICK m : m = [Message(from, None) EXCEPT !.deleted = ix[from].deleted]
    OBVIOUS
  <2>2. new = InsertHeader(ix, m)
    BY <1>1, <1>2, <2>1 DEF InsertHistoryBlock
  <2>3. from \in Ids(ix) /\ ~ix[from].patch
    BY <1>2 DEF Ends
  <2>4. m \in Entries /\ m.id = from /\ m.id \in 1..n
        /\ ~m.patch /\ m.deleted = ix[from].deleted
    BY <2>1, <2>3, EndsEntry
  <2>5. (\A id : id # m.id => Same(new, ix, id)) /\ Put(new, ix, m)
    BY ONLY <2>2, <2>4, InsertFlags, n \in Nat, IsIndex(ix, n)
  <2>6. /\ from \in Ids(new) /\ new[from].deleted = ix[from].deleted /\ ~new[from].patch
        /\ \A id : id # from => Same(new, ix, id)
    BY <2>4, <2>5 DEF Put
  <2>7. \A id \in DeletedIn(new) : id \in DeletedIn(ix)
    BY <2>3, <2>6 DEF DeletedIn, Same
  <2>8. \A id \in Shown(new) : id \in Shown(ix)
    BY <2>3, <2>6 DEF Shown, Same
  <2>9. \A id \in Ids(new) : id \in Ids(ix)
    BY <2>3, <2>6 DEF Same
  <2>10. ASSUME NEW id \in PatchesOf(block), id > d PROVE id \notin Shown(new)
    <3>1. PICK i \in DOMAIN block : block[i].patch /\ block[i].id = id
      BY DEF PatchesOf
    <3>2. id \in Ids(ix) /\ ix[id].patch
      BY <1>2, <2>10, <3>1 DEF Ends, Wanted, Duplicate
    <3> QED  BY <2>3, <2>6, <3>2 DEF Same, Shown
  <2> QED  BY <1>1, <2>7, <2>8, <2>9, <2>10
<1>3. CASE ~Ends(ix, block, d, from, hasOlder)
  <2>1. new = Update(ix, block, d)
    BY <1>1, <1>3 DEF InsertHistoryBlock
  <2>2. /\ \A id \in DeletedIn(new) : id \in DeletedIn(ix) \/ id \in PatchesOf(block)
        /\ \A id \in Shown(new) : id \in Shown(ix) \/ id \in MessagesOf(block)
        /\ \A id \in Ids(new) : id \in Ids(ix) \/ id > d
        /\ \A id \in PatchesOf(block) : id > d => id \notin Shown(new)
    BY ONLY <2>1, UpdateShows, n \in Nat, IsIndex(ix, n), BlockUpTo(block, n),
            IdsDiffer(block), d \in Nat, Truthful(block, L, E)
  <2> QED  BY <1>1, <2>2
<1> QED  BY <1>2, <1>3

\* insert_history_block() leaves no live message out: a block that is all there is below
\* a message, and brings nothing new, has all that is live there shown already.
LEMMA BlockSound ==
    ASSUME NEW n \in Nat, NEW ix, IsIndex(ix, n), NEW block, BlockUpTo(block, n),
           IdsDiffer(block), NEW d \in Nat,
           NEW L \in SUBSET Nat, NEW E, E \intersect L = {}, \A k \in L : k > d,
           PatchesApart(ix), NothingBetween(ix, L), DeletedIn(ix) \subseteq E,
           Truthful(block, L, E), MessagesOf(block) \intersect DeletedIn(ix) = {},
           NEW from, NEW hasOlder, AllBelow(block, from, hasOlder, L)
    PROVE  LET new == InsertHistoryBlock(ix, block, d, from, hasOlder)
           IN PatchesApart(new) /\ NothingBetween(new, L)
<1>1. PICK new : new = InsertHistoryBlock(ix, block, d, from, hasOlder)
  OBVIOUS
<1>2. CASE Ends(ix, block, d, from, hasOlder)
  <2>1. PICK m : m = [Message(from, None) EXCEPT !.deleted = ix[from].deleted]
    OBVIOUS
  <2>2. new = InsertHeader(ix, m)
    BY <1>1, <1>2, <2>1 DEF InsertHistoryBlock
  <2>3. from \in Ids(ix) /\ ~ix[from].patch /\ from # None /\ ~hasOlder
    BY <1>2 DEF Ends
  <2>4. /\ m \in Entries /\ m.id = from /\ m.id \in 1..n
        /\ ~m.patch /\ m.deleted = ix[from].deleted
    BY <2>1, <2>3, EndsEntry
  <2>5. ASSUME NEW k \in L, k < from PROVE k \in Shown(ix)
    <3>1. k \in MessagesOf(block)
      BY <2>3, <2>5 DEF AllBelow
    <3>2. PICK i \in DOMAIN block : ~block[i].patch /\ block[i].id = k
      BY <3>1 DEF MessagesOf
    <3>3. k > d /\ ~Wanted(ix, block[i], d)
      BY <1>2 DEF Ends
    <3>4. k \in Ids(ix) /\ ix[k].patch = block[i].patch
      BY <3>2, <3>3 DEF Wanted, Duplicate
    <3>5. ~ix[k].deleted
      BY <3>4 DEF DeletedIn
    <3> QED  BY <3>2, <3>4, <3>5 DEF Shown
  <2>6. /\ m.deleted => m.id \in E
        /\ m.patch => m.deleted /\ m.prev = None
        /\ ~m.patch => \A k \in L : k < m.id => k <= m.prev \/ k \in Shown(ix)
        /\ m.id \in Ids(ix) /\ ix[m.id].deleted => m.deleted
        /\ m.id \in Ids(ix) /\ m.deleted => ~ix[m.id].patch
    BY <2>3, <2>4, <2>5 DEF DeletedIn
  <2>7. PatchesApart(new) /\ NothingBetween(new, L)
    BY ONLY <2>2, <2>4, <2>6, InsertSound, n \in Nat, IsIndex(ix, n), L \in SUBSET Nat,
            E \intersect L = {}, PatchesApart(ix), NothingBetween(ix, L), DeletedIn(ix) \subseteq E
  <2> QED  BY <1>1, <2>7
<1>3. CASE ~Ends(ix, block, d, from, hasOlder)
  <2>1. new = Update(ix, block, d)
    BY <1>1, <1>3 DEF InsertHistoryBlock
  <2>2. PatchesApart(new) /\ NothingBetween(new, L)
    BY ONLY <2>1, UpdateSound, n \in Nat, IsIndex(ix, n), BlockUpTo(block, n),
            IdsDiffer(block), d \in Nat, L \in SUBSET Nat, E \intersect L = {},
            \A k \in L : k > d, PatchesApart(ix), NothingBetween(ix, L),
            DeletedIn(ix) \subseteq E, Truthful(block, L, E),
            MessagesOf(block) \intersect DeletedIn(ix) = {}
  <2> QED  BY <1>1, <2>2
<1> QED  BY <1>2, <1>3

-----------------------------------------------------------------------------

\* What delete_up_to() makes of each header.
LEMMA AboveCases ==
    ASSUME NEW n \in Nat, NEW ix, IsIndex(ix, n), NEW to \in Nat
    PROVE  LET new == IndexAbove(ix, to)
           IN /\ Ids(new) = {id \in Ids(ix) : id > to}
              /\ IsIndex(new, n)
              /\ \A id \in Ids(new) :
                    /\ new[id].patch = ix[id].patch /\ new[id].deleted = ix[id].deleted
                    /\ \/ new[id].prev = ix[id].prev
                       \/ new[id].prev = None /\ ix[id].prev = to
<1>1. PICK new : new = IndexAbove(ix, to)
  OBVIOUS
<1>2. /\ DOMAIN new = {id \in Ids(ix) : id > to}
      /\ new = [k \in DOMAIN new |-> new[k]]
      /\ \A k \in DOMAIN new :
            \/ new[k] = ix[k]
            \/ new[k] = [ix[k] EXCEPT !.prev = None] /\ ix[k].prev = to
  BY <1>1 DEF IndexAbove, Ids
<1>3. \A k \in DOMAIN new : ix[k] \in Header /\ k \in 1..n
  BY <1>2 DEF IsIndex
<1>4. ASSUME NEW k \in DOMAIN new
      PROVE  /\ new[k] \in Header
             /\ new[k].patch = ix[k].patch /\ new[k].deleted = ix[k].deleted
             /\ \/ new[k].prev = ix[k].prev
                \/ new[k].prev = None /\ ix[k].prev = to
  <2>1. CASE new[k] = ix[k]
    BY <1>3, <2>1
  <2>2. CASE new[k] = [ix[k] EXCEPT !.prev = None] /\ ix[k].prev = to
    BY <1>3, <2>2 DEF Header, None
  <2> QED  BY <1>2, <2>1, <2>2
<1>5. IsIndex(new, n)
  BY <1>2, <1>3, <1>4 DEF IsIndex, Ids
<1> QED  BY <1>1, <1>2, <1>4, <1>5 DEF Ids

\* delete_up_to() keeps links that name earlier messages.
LEMMA AboveTypes ==
    ASSUME NEW n \in Nat, NEW ix, IsIndex(ix, n), LinksNameIds(ix), NEW to \in Nat
    PROVE  IsIndex(IndexAbove(ix, to), n) /\ LinksNameIds(IndexAbove(ix, to))
<1>1. PICK new : new = IndexAbove(ix, to)
  OBVIOUS
<1>2. \A id \in Ids(new) : id \in Ids(ix) /\ (new[id].prev = ix[id].prev \/ new[id].prev = None)
  BY <1>1, AboveCases
<1>3. IsIndex(new, n)
  BY <1>1, AboveCases
<1> QED  BY <1>1, <1>2, <1>3 DEF LinksNameIds

\* delete_up_to() leaves no live message out, if none is deleted.
LEMMA AboveSound ==
    ASSUME NEW n \in Nat, NEW ix, IsIndex(ix, n), NEW to \in Nat, NEW L \in SUBSET Nat,
           \A k \in L : k > to, PatchesApart(ix), NothingBetween(ix, L)
    PROVE  /\ PatchesApart(IndexAbove(ix, to)) /\ NothingBetween(IndexAbove(ix, to), L)
           /\ DeletedIn(IndexAbove(ix, to)) \subseteq DeletedIn(ix)
<1>1. PICK new : new = IndexAbove(ix, to)
  OBVIOUS
<1>2. /\ Ids(new) = {id \in Ids(ix) : id > to}
      /\ \A id \in Ids(new) :
            /\ new[id].patch = ix[id].patch /\ new[id].deleted = ix[id].deleted
            /\ \/ new[id].prev = ix[id].prev
               \/ new[id].prev = None /\ ix[id].prev = to
  BY <1>1, AboveCases
<1>3. to # None
  BY DEF None
<1>4. PatchesApart(new)
  BY <1>2, <1>3 DEF PatchesApart
<1>5. \A k \in L : k \in Shown(ix) => k \in Shown(new)
  BY <1>2 DEF Shown
<1>6. NothingBetween(new, L)
  <2> SUFFICES ASSUME NEW id \in Ids(new), ~new[id].patch, NEW k \in L, k < id
               PROVE  k <= new[id].prev \/ k \in Shown(new)
    BY DEF NothingBetween
  <2>1. id \in Ids(ix) /\ ~ix[id].patch
    BY <1>2
  <2>2. k <= ix[id].prev \/ k \in Shown(ix)
    BY <2>1 DEF NothingBetween
  <2>3. CASE new[id].prev = ix[id].prev
    BY <1>5, <2>2, <2>3
  <2>4. CASE ix[id].prev = to
    <3>1. k > to /\ id \in Int /\ to \in Nat
      BY <2>1 DEF IsIndex
    <3> QED  BY <1>5, <2>2, <2>4, <3>1
  <2> QED  BY <1>2, <2>3, <2>4
<1>7. DeletedIn(new) \subseteq DeletedIn(ix)
  BY <1>2 DEF DeletedIn
<1> QED  BY <1>1, <1>4, <1>6, <1>7

-----------------------------------------------------------------------------

\* An index in which the search reaches the last header, and of which no message has a
\* live one between it and the one it names, shows all that is live below its newest.
LEMMA ReachedIsAll ==
    ASSUME NEW n \in Nat, NEW ix, IsIndex(ix, n), NEW L \in SUBSET Nat, NothingBetween(ix, L),
           GetNextHole(ix, None, None).error = "last_reached",
           NEW m \in Shown(ix), NEW k \in L, k < m
    PROVE  k \in Shown(ix)
<1>1. Shown(ix) \in SUBSET (1..n)
  BY DEF Shown, IsIndex
<1>2. \A id \in Shown(ix) : ix[id].prev = Before(ix, id)
  <2> DEFINE ids == {j \in Shown(ix) : None = None \/ j <= None}
  <2>1. PICK got : got = GetNextHole(ix, None, None)
    OBVIOUS
  <2>2. got.error = "last_reached"
    BY <2>1
  <2>3. \A h : got # Found(h)
    BY <2>2 DEF Found
  <2>4. got # NoHole("index_not_found") /\ got # NoHole("depth_reached")
    BY <2>2 DEF NoHole
  <2>5. Broken(ix, ids) = {}
    BY ONLY <2>1, <2>3, <2>4, NextHoleCases
  <2>6. \A id \in Shown(ix) : id \in ids
    OBVIOUS
  <2> HIDE DEF ids
  <2> QED  BY <2>5, <2>6 DEF Broken
<1> SUFFICES ASSUME k \notin Shown(ix) PROVE FALSE
  OBVIOUS
<1> DEFINE above == {id \in Shown(ix) : k < id}
<1>3. above \in SUBSET (1..n) /\ above # {}
  BY <1>1
<1>4. PICK j : j \in above /\ \A i \in above : j <= i
  BY <1>3, LeastId
<1>5. j \in Shown(ix) /\ k < j /\ j \in Int /\ k \in Nat
  BY <1>1, <1>4
<1>6. k <= ix[j].prev
  BY <1>5 DEF NothingBetween, Shown
<1>7. PICK p : p = Before(ix, j)
  OBVIOUS
<1>8. k <= p /\ p # None
  BY <1>2, <1>5, <1>6, <1>7 DEF None
<1>9. p \in Shown(ix) /\ p < j
  BY <1>5, <1>7, <1>8, BeforeIsNext DEF ShownBelow
<1>10. p \in Int /\ k # p
  BY <1>1, <1>9
<1>11. p \in above
  BY <1>5, <1>8, <1>9, <1>10
<1> QED
  BY <1>4, <1>5, <1>9, <1>10, <1>11

\* Ids can be put in order, and none is left out.
LEMMA InOrderSorted ==
    ASSUME NEW n \in Nat, NEW S \in SUBSET (1..n)
    PROVE  /\ Cardinality(S) \in Nat
           /\ InOrder(S) \in [1..Cardinality(S) -> S]
           /\ \A i, j \in 1..Cardinality(S) : i < j => InOrder(S)[i] < InOrder(S)[j]
           /\ \A k \in S : \E i \in 1..Cardinality(S) : InOrder(S)[i] = k
<1> DEFINE T(k) == {l \in S : l <= k}
           Sorts(f, R) == /\ f \in [1..Cardinality(R) -> R]
                          /\ \A i, j \in 1..Cardinality(R) : i < j => f[i] < f[j]
           A == {k \in 0..n : IsFiniteSet(T(k)) /\ \E f : Sorts(f, T(k))}
<1>0. \A l \in S : l \in Int /\ 1 <= l /\ l <= n
  OBVIOUS
<1>1. 0 \in A
  <2>1. T(0) = {}
    <3>1. \A l \in S : ~(l <= 0)
      BY <1>0
    <3> QED  BY <3>1
  <2>2. Cardinality({}) = 0 /\ IsFiniteSet({})
    BY FS_EmptySet
  <2>3. Sorts([i \in 1..0 |-> 0], {})
    BY <2>2
  <2>4. IsFiniteSet(T(0)) /\ (\E f : Sorts(f, T(0))) /\ 0 \in 0..n
    <3>1. Sorts([i \in 1..0 |-> 0], T(0)) /\ IsFiniteSet(T(0))
      BY <2>1, <2>2, <2>3
    <3>2. 0 \in 0..n
      OBVIOUS
    <3> HIDE DEF Sorts, T
    <3> QED  BY <3>1, <3>2
  <2> QED  BY <2>4
<1>2. ASSUME NEW k \in 1..n, k - 1 \in A PROVE k \in A
  <2>1. IsFiniteSet(T(k - 1)) /\ k \in Nat
    BY <1>2
  <2>2. PICK f : Sorts(f, T(k - 1))
    BY <1>2
  <2>3. PICK c : c = Cardinality(T(k - 1)) /\ c \in Nat
    BY <2>1, FS_CardinalityType
  <2>4. CASE k \in S
    <3>1. T(k) = T(k - 1) \union {k} /\ k \notin T(k - 1)
      <4>1. \A l \in S : l <= k <=> l = k \/ l <= k - 1
        BY <1>0, <2>1
      <4>2. ~(k <= k - 1)
        BY <2>1
      <4> QED  BY <2>4, <4>1, <4>2
    <3> HIDE DEF T
    <3>2. IsFiniteSet(T(k)) /\ Cardinality(T(k)) = c + 1
      BY <2>1, <2>3, <3>1, FS_AddElement
    <3> DEFINE g == [i \in 1..(c + 1) |-> IF i <= c THEN f[i] ELSE k]
    <3>3. f \in [1..c -> T(k - 1)] /\ \A i, j \in 1..c : i < j => f[i] < f[j]
      BY <2>2, <2>3
    <3>4. \A i \in 1..(c + 1) : i \in 1..c \/ i = c + 1
      BY <2>3
    <3>5. \A i \in 1..c : g[i] = f[i] /\ i # c + 1
      BY <2>3
    <3>6. g[c + 1] = k /\ g = [i \in 1..(c + 1) |-> g[i]]
      BY <2>3
    <3>7. \A i \in 1..c : f[i] \in T(k - 1) /\ f[i] < k
      <4>1. \A l \in T(k - 1) : l < k
        BY DEF T
      <4> QED  BY <3>3, <4>1
    <3> HIDE DEF g
    <3>8. g \in [1..(c + 1) -> T(k)]
      <4>1. \A i \in 1..(c + 1) : g[i] \in T(k)
        BY <3>1, <3>4, <3>5, <3>6, <3>7
      <4> QED  BY <3>6, <4>1
    <3>9. \A i, j \in 1..(c + 1) : i < j => g[i] < g[j]
      <4> SUFFICES ASSUME NEW i \in 1..(c + 1), NEW j \in 1..(c + 1), i < j PROVE g[i] < g[j]
        OBVIOUS
      <4>1. i \in 1..c
        BY <2>3
      <4> QED  BY <3>3, <3>4, <3>5, <3>6, <3>7, <4>1
    <3>10. Sorts(g, T(k))
      BY <3>2, <3>8, <3>9
    <3> HIDE DEF Sorts
    <3> QED  BY <3>2, <3>10
  <2>5. CASE k \notin S
    <3>1. T(k) = T(k - 1)
      <4>1. \A l \in S : l <= k <=> l = k \/ l <= k - 1
        BY <1>0, <2>1
      <4> QED  BY <2>5, <4>1
    <3> HIDE DEF T, Sorts
    <3> QED  BY <2>1, <2>2, <3>1
  <2> QED  BY <2>4, <2>5
<1>3. n \in A
  <2> HIDE DEF A
  <2>1. \A k \in 0..n : k \in A
    BY ONLY <1>1, <1>2, UpTo, n \in Nat
  <2> QED  BY <2>1
<1>4. T(n) = S
  BY <1>0
<1>5. IsFiniteSet(S) /\ \E f : Sorts(f, S)
  <2> HIDE DEF T, Sorts
  <2> QED  BY <1>3, <1>4
<1>6. PICK c : c = Cardinality(S) /\ c \in Nat
  BY <1>5, FS_CardinalityType
<1>7. PICK s : s = InOrder(S)
  OBVIOUS
<1>8. s \in [1..c -> S] /\ \A i, j \in 1..c : i < j => s[i] < s[j]
  <2>1. PICK f : f \in [1..c -> S] /\ \A i, j \in DOMAIN f : i < j => f[i] < f[j]
    BY <1>5, <1>6
  <2>2. s = CHOOSE t \in [1..c -> S] : \A i, j \in DOMAIN t : i < j => t[i] < t[j]
    BY <1>6, <1>7 DEF InOrder
  <2>3. s \in [1..c -> S] /\ \A i, j \in DOMAIN s : i < j => s[i] < s[j]
    BY <2>1, <2>2
  <2> QED  BY <2>3
<1>9. \A k \in S : \E i \in 1..c : s[i] = k
  <2>1. \A i, j \in 1..c : s[i] = s[j] => i = j
    <3> SUFFICES ASSUME NEW i \in 1..c, NEW j \in 1..c, s[i] = s[j] PROVE i = j
      OBVIOUS
    <3>1. s[i] \in Int /\ i \in Int /\ j \in Int
      <4>1. s[i] \in S
        BY <1>8
      <4>2. i \in Int /\ j \in Int
        BY <1>6
      <4> QED  BY ONLY <1>0, <4>1, <4>2
    <3>2. ~(i < j) /\ ~(j < i)
      BY <1>8, <3>1
    <3> QED  BY <3>1, <3>2
  <2>2. s \in Injection(1..c, S)
    BY <1>8, <2>1 DEF Injection, IsInjective
  <2>3. IsFiniteSet(1..c) /\ Cardinality(1..c) = c
    BY <1>6, FS_Interval
  <2>4. s \in Surjection(1..c, S)
    BY <1>5, <1>6, <2>2, <2>3, FS_Injection
  <2> QED  BY <2>4 DEF Surjection
<1> QED  BY <1>6, <1>7, <1>8, <1>9

-----------------------------------------------------------------------------
(* The server, and what it has told: the invariant of the types. *)

\* The server erases a message it has, once.
ServerFits ==
    /\ posted \in 0..MaxId /\ upTo \in 0..posted
    /\ erased \in Seq(1..posted) /\ Len(erased) <= MaxErased
    /\ \A i, j \in DOMAIN erased : i # j => erased[i] # erased[j]

\* What a state of the dialog, kept or told, may be.
StateFits(s) == s \in [last : Opt(1..posted), upTo : 0..upTo, version : 0..Len(erased)]
\* A block is what the server has, or had.
BlockFits(b) == BlockUpTo(b, posted) /\ IdsDiffer(b) /\ Truthful(b, Live, Erased)
TailFits(b) == BlockFits(b) /\ PatchesOf(b) = {}
HoleFits(h) == h.from \in Opt(1..posted) /\ h.to \in Int
RequestFits(r) ==
    /\ r.from \in Opt(1..posted) /\ r.till \in Int /\ r.count \in Nat
    /\ r.version \in 0..Len(erased)
    /\ r.then = Nothing \/ r.then.kind \in {"download", "validate"}
\* An answer has the patches since the version asked for, and all there is below a
\* message if it says so.
AnswerFits(r, a) ==
    /\ BlockFits(a.block)
    /\ a.version \in r.version..Len(erased)
    /\ a.last \in Opt(1..posted)
    /\ AllBelow(a.block, r.from, a.older, Live)
    /\ \A i \in (r.version + 1)..a.version : erased[i] \in PatchesOf(a.block)
NewFits(new) ==
    /\ new.last \in Opt(1..posted) /\ new.upTo \in {None} \union 0..upTo
    /\ new.version \in 0..Len(erased)

\* What a task of the archive thread may carry, and a callback of the core thread.
TaskFits(t) ==
    /\ t.kind = "limits" => HoleFits(t.hole)
    /\ t.kind \in {"answered", "set"} => RequestFits(t.req) /\ AnswerFits(t.req, t.answer)
    /\ t.kind = "event" => StateFits(t.news) /\ TailFits(t.tail)
    /\ t.kind \in {"set", "eventset", "clearset"} => NewFits(t.new)
    /\ t.kind = "set" => t.new.version = t.answer.version
    /\ t.kind = "eventset" => TailFits(t.tail) /\ t.new.version = 0
    /\ t.kind = "update" => /\ BlockFits(t.block)
                            /\ AllBelow(t.block, t.from, t.hasOlder, Live)
                            /\ t.from \in Opt(1..posted)
                            /\ t.then = Nothing \/ t.then.kind \in {"download", "validate"}
    /\ t.kind = "eventupdate" => TailFits(t.block) /\ t.from = None /\ StateFits(t.state)
    /\ t.kind = "delete" => t.upTo \in 0..upTo

StateKinds ==
    {"download", "limits", "answered", "open", "event", "clear", "set", "eventset"}
CallbackFits(c) ==
    /\ TaskFits(c.what)
    /\ c.what.kind \in StateKinds => StateFits(c.got)
    /\ c.what.kind = "next" /\ c.got.error = "ok" => HoleFits(c.got.hole)
    /\ c.what.kind \in {"answer", "fail"} => RequestFits(c.what.req)
    /\ c.what.kind = "answer" => AnswerFits(c.what.req, c.got)
SentFits(s) ==
    /\ s = [req |-> s.req, answer |-> s.answer]
    /\ RequestFits(s.req) /\ (s.answer # <<>> => AnswerFits(s.req, s.answer[1]))

\* The queues.
IsQueue(q) == q \in Seq(ToSet(q))
TasksFit(q) == IsQueue(q) /\ \A t \in ToSet(q) : TaskFits(t)
CallbacksFit(q) == IsQueue(q) /\ \A c \in ToSet(q) : CallbackFits(c)
NetFits(q) ==
    /\ IsQueue(q)
    /\ \A i \in DOMAIN q : SentFits(q[i]) /\ (i # 1 => q[i].answer = <<>>)
EventFits(e) == e # <<>> => StateFits(e[1].news) /\ TailFits(e[1].tail)
IndexFits(ix) == IsIndex(ix, posted) /\ LinksNameIds(ix) /\ DeletedIn(ix) \subseteq Erased

DialogFits ==
    /\ StateFits(state) /\ IndexFits(index)
    /\ TasksFit(archive) /\ CallbacksFit(core) /\ NetFits(net) /\ EventFits(event)
DialogInv == ServerFits /\ DialogFits

-----------------------------------------------------------------------------
(* What the server has told stays true. *)

ServerGrows ==
    /\ posted \in Nat /\ upTo \in Nat /\ posted' \in Nat /\ upTo' \in Nat
    /\ posted <= posted' /\ upTo <= upTo'
    /\ Len(erased) \in Nat /\ Len(erased') \in Nat /\ Len(erased) <= Len(erased')
    /\ \A i \in 1..Len(erased) : erased'[i] = erased[i]
    /\ \A k \in Live' : k \in Live \/ k > posted
    /\ Erased \subseteq Erased'
    /\ Live \subseteq 1..posted /\ Live' \subseteq 1..posted'

\* Ids of the server.
LEMMA LiveIds ==
    ASSUME ServerFits
    PROVE  /\ posted \in Nat /\ upTo \in Nat /\ upTo <= posted
           /\ Live \in SUBSET (1..posted) /\ Erased \in SUBSET (1..posted)
           /\ Live \in SUBSET Nat /\ Erased \intersect Live = {}
           /\ \A k \in Live : k > upTo
           /\ Len(erased) \in Nat
<1>1. posted \in Nat /\ upTo \in Nat /\ upTo <= posted /\ Len(erased) \in Nat
  BY DEF ServerFits
<1>2. Erased \in SUBSET (1..posted)
  BY DEF ServerFits, Erased
<1>3. \A k \in Live : k \in Nat /\ k > upTo /\ k <= posted /\ k >= 1 /\ k \notin Erased
  BY <1>1 DEF Live
<1> QED  BY <1>1, <1>2, <1>3

\* The steps of the server, and of the others.
LEMMA ServerStep ==
    ASSUME ServerFits, [Next]_vars
    PROVE  ServerFits' /\ ServerGrows
<1>0. /\ posted \in Nat /\ upTo \in Nat /\ upTo <= posted /\ Len(erased) \in Nat
      /\ Live \in SUBSET (1..posted) /\ Erased \in SUBSET (1..posted)
  BY LiveIds
<1>1. CASE Post
  <2>1. posted' = posted + 1 /\ posted < MaxId /\ erased' = erased /\ upTo' = upTo
    BY <1>1 DEF Post
  <2>2. Erased' = Erased
    BY <2>1 DEF Erased
  <2>3. \A k \in Live' : k \in Live \/ k > posted
    BY <1>0, <2>1, <2>2 DEF Live
  <2>4. Live' \subseteq 1..posted'
    BY <1>0, <2>1 DEF Live
  <2>5. ServerFits'
    <3>1. posted' \in 0..MaxId /\ upTo' \in 0..posted'
      BY <1>0, <2>1, DialogHistoryAssumption
    <3>2. erased' \in Seq(1..posted')
      <4>1. erased \in Seq(1..posted) /\ (1..posted) \subseteq 1..posted'
        BY <1>0, <2>1 DEF ServerFits
      <4>2. erased \in Seq(1..posted')
        BY ONLY <4>1, SeqMonotonic
      <4> QED  BY <2>1, <4>2
    <3> QED  BY <2>1, <3>1, <3>2 DEF ServerFits
  <2> QED  BY <1>0, <2>1, <2>2, <2>3, <2>4, <2>5 DEF ServerGrows
<1>2. CASE Erase
  <2>1. PICK id \in Live : erased' = Append(erased, id)
    BY <1>2 DEF Erase
  <2>2. posted' = posted /\ upTo' = upTo /\ Len(erased) < MaxErased
    BY <1>2 DEF Erase
  <2>3. id \in 1..posted /\ id \notin Erased
    BY <1>0 DEF Live
  <2>4. erased \in Seq(1..posted) /\ \A i, j \in DOMAIN erased : i # j => erased[i] # erased[j]
    BY DEF ServerFits
  <2>5. /\ erased' \in Seq(1..posted) /\ Len(erased') = Len(erased) + 1
        /\ DOMAIN erased' = 1..(Len(erased) + 1) /\ DOMAIN erased = 1..Len(erased)
        /\ \A i \in 1..Len(erased) : erased'[i] = erased[i]
        /\ erased'[Len(erased) + 1] = id
    BY <2>1, <2>3, <2>4, AppendProperties
  <2>6. \A i \in 1..(Len(erased) + 1) : i \in 1..Len(erased) \/ i = Len(erased) + 1
    BY <1>0
  <2>7. \A i \in 1..Len(erased) : i \in DOMAIN erased' /\ i # Len(erased) + 1
    BY <1>0, <2>5
  <2>8. Erased \subseteq Erased'
    BY <2>5, <2>7 DEF Erased
  <2>9. \A k \in Live' : k \in Live
    BY <2>2, <2>8 DEF Live
  <2>10. \A i, j \in DOMAIN erased' : i # j => erased'[i] # erased'[j]
    <3>1. \A i \in 1..Len(erased) : erased'[i] # id
      BY <2>3, <2>5 DEF Erased
    <3> QED  BY <2>4, <2>5, <2>6, <3>1
  <2>11. Len(erased') <= MaxErased /\ Len(erased') \in Nat /\ Len(erased) <= Len(erased')
    BY <1>0, <2>2, <2>5, DialogHistoryAssumption
  <2>12. ServerFits'
    BY <2>2, <2>5, <2>10, <2>11 DEF ServerFits
  <2>13. Live' \subseteq 1..posted'
    BY <1>0, <2>2, <2>9
  <2> QED  BY <1>0, <2>2, <2>5, <2>8, <2>9, <2>11, <2>12, <2>13 DEF ServerGrows
<1>3. CASE DeleteAll
  <2>1. upTo' > upTo /\ upTo' <= posted /\ upTo' \in UpTos /\ posted' = posted /\ erased' = erased
    BY <1>3 DEF DeleteAll
  <2>2. upTo' \in Nat
    BY <2>1, DialogHistoryAssumption
  <2>3. Erased' = Erased
    BY <2>1 DEF Erased
  <2>4. \A k \in Live' : k \in Live
    <3>1. \A k \in (upTo' + 1)..posted' : k \in (upTo + 1)..posted
      <4>1. PICK u \in Nat : u = upTo'
        BY <2>2
      <4>2. upTo \in Nat /\ u > upTo /\ posted \in Nat /\ posted' = posted
        BY <1>0, <2>1, <4>1
      <4>3. PICK v \in Nat, n \in Nat : v = upTo /\ n = posted
        BY <4>2
      <4>4. u > v
        BY <4>2, <4>3
      <4>5. \A k \in (u + 1)..n : k \in (v + 1)..n
        <5> SUFFICES ASSUME NEW k \in (u + 1)..n PROVE k \in (v + 1)..n
          OBVIOUS
        <5>1. k \in Int /\ u + 1 <= k /\ k <= n
          OBVIOUS
        <5>2. v + 1 <= k
          BY ONLY <4>4, <5>1, u \in Nat, v \in Nat
        <5> QED  BY ONLY <5>1, <5>2, v \in Nat, n \in Nat
      <4> QED  BY <4>1, <4>2, <4>3, <4>5
    <3> QED  BY <2>3, <3>1 DEF Live
  <2>5. ServerFits'
    BY <1>0, <2>1, <2>2 DEF ServerFits
  <2>6. Live' \subseteq 1..posted'
    BY <1>0, <2>1, <2>4
  <2>7. upTo <= upTo' /\ posted <= posted' /\ posted' \in Nat
    BY <1>0, <2>1, <2>2
  <2> QED  BY <1>0, <2>1, <2>2, <2>3, <2>4, <2>5, <2>6, <2>7 DEF ServerGrows
<1>4. CASE UNCHANGED server
  <2>1. posted' = posted /\ upTo' = upTo /\ erased' = erased
    BY <1>4 DEF server
  <2>2. Erased' = Erased
    BY <2>1 DEF Erased
  <2>3. Live' = Live
    BY <2>1, <2>2 DEF Live
  <2>4. ServerFits'
    BY <2>1 DEF ServerFits
  <2> QED  BY <1>0, <2>1, <2>2, <2>3, <2>4 DEF ServerGrows
<1>5. \/ Post \/ Erase \/ DeleteAll
      \/ UNCHANGED server
  <2>1. CASE Core
    BY <2>1 DEF Core, OnDownload, OnNextHole, OnLimits, OnValidated, OnAnswer, OnFailed,
       OnAnswered, OnSet, OnUpdated, OnOpen, OnEvent, OnEventSet, OnEventUpdated, OnDeleted,
       OnClear, Callback
  <2>2. CASE Server
    BY <2>2 DEF Server
  <2>3. CASE Network
    BY <2>3 DEF Network, Serve, Arrive, Fail, SendEvent, DeliverEvent
  <2>4. CASE Archive
    BY <2>4 DEF Archive, GetDlgState, SetDlgState, UpdateHistory, DeleteUpTo, DropHistory,
       GetNextHoleTask, ValidateTask, Task
  <2>5. CASE User
    BY <2>5 DEF User, OpenDialog, Resume
  <2>6. CASE UNCHANGED vars
    BY <2>6 DEF vars
  <2> QED  BY <2>1, <2>2, <2>3, <2>4, <2>5, <2>6 DEF Next, Others
<1> QED  BY <1>1, <1>2, <1>3, <1>4, <1>5

\* What fits goes on to fit: messages come behind all there were, and those that are
\* erased or deleted do not come back.
LEMMA BlockStays ==
    ASSUME ServerGrows, NEW b, BlockFits(b)
    PROVE  BlockFits(b)'
<1>1. /\ posted \in Nat /\ posted' \in Nat /\ posted <= posted'
      /\ (\A k \in Live' : k \in Live \/ k > posted) /\ Erased \subseteq Erased'
      /\ Live \subseteq 1..posted /\ Live' \subseteq 1..posted'
  BY DEF ServerGrows
<1>2. BlockUpTo(b, posted) /\ IdsDiffer(b) /\ Truthful(b, Live, Erased)
  BY DEF BlockFits
<1>3. \A i \in DOMAIN b : b[i].id \in 1..posted /\ b[i].id \in 1..posted'
  BY <1>1, <1>2 DEF BlockUpTo
<1>4. BlockUpTo(b, posted')
  BY <1>2, <1>3 DEF BlockUpTo
<1>5. ASSUME NEW i \in DOMAIN b, NEW k \in Live', k < b[i].id PROVE k \in Live
  <2>1. k \in Int /\ b[i].id \in Int /\ b[i].id <= posted
    BY <1>1, <1>3
  <2> QED  BY <1>1, <1>5, <2>1
<1>6. Truthful(b, Live', Erased')
  <2> SUFFICES ASSUME NEW i \in DOMAIN b
               PROVE  /\ b[i].patch => b[i].deleted /\ b[i].prev = None /\ b[i].id \in Erased'
                      /\ ~b[i].patch => ~b[i].deleted /\ \A k \in Live' : k < b[i].id => k <= b[i].prev
    BY DEF Truthful
  <2>1. /\ b[i].patch => b[i].deleted /\ b[i].prev = None /\ b[i].id \in Erased
        /\ ~b[i].patch => ~b[i].deleted /\ \A k \in Live : k < b[i].id => k <= b[i].prev
    BY <1>2 DEF Truthful
  <2> QED  BY <1>1, <1>5, <2>1
<1> QED  BY <1>2, <1>4, <1>6 DEF BlockFits

\* The same of the other parts.
LEMMA PartsStay ==
    ASSUME ServerGrows
    PROVE  /\ \A s : StateFits(s) => StateFits(s)'
           /\ \A h : HoleFits(h) => HoleFits(h)'
           /\ \A r : RequestFits(r) => RequestFits(r)'
           /\ \A new : NewFits(new) => NewFits(new)'
           /\ \A from : from \in Opt(1..posted) => from \in Opt(1..posted)'
           /\ \A to : to \in 0..upTo => (to \in 0..upTo)'
<1>1. /\ posted \in Nat /\ posted' \in Nat /\ posted <= posted'
      /\ upTo \in Nat /\ upTo' \in Nat /\ upTo <= upTo'
      /\ Len(erased) \in Nat /\ Len(erased') \in Nat /\ Len(erased) <= Len(erased')
  BY DEF ServerGrows
<1>2. /\ 1..posted \subseteq 1..posted' /\ 0..upTo \subseteq 0..upTo'
      /\ 0..Len(erased) \subseteq 0..Len(erased')
  BY <1>1
<1>3. Opt(1..posted) \subseteq Opt(1..posted')
  BY <1>2 DEF Opt
<1> QED  BY <1>2, <1>3 DEF StateFits, HoleFits, RequestFits, NewFits

\* The same of what there is below a message, and of an answer.
LEMMA AllBelowStays ==
    ASSUME ServerGrows, NEW b, NEW from \in Opt(1..posted), NEW hasOlder,
           AllBelow(b, from, hasOlder, Live)
    PROVE  AllBelow(b, from, hasOlder, Live')
<1>1. /\ posted \in Nat /\ (\A k \in Live' : k \in Live \/ k > posted)
      /\ posted' \in Nat /\ Live' \subseteq 1..posted'
  BY DEF ServerGrows
<1> SUFFICES ASSUME ~hasOlder, from # None, NEW k \in Live', k < from
             PROVE  k \in MessagesOf(b)
  BY DEF AllBelow
<1>2. from \in 1..posted
  BY DEF Opt
<1>3. ~(k > posted)
  BY <1>1, <1>2
<1> QED  BY <1>1, <1>3 DEF AllBelow

\* An answer of the server.
LEMMA AnswerStays ==
    ASSUME ServerGrows, NEW r, NEW a, RequestFits(r), AnswerFits(r, a)
    PROVE  AnswerFits(r, a)'
<1>1. /\ Len(erased) \in Nat /\ Len(erased') \in Nat /\ Len(erased) <= Len(erased')
      /\ \A i \in 1..Len(erased) : erased'[i] = erased[i]
  BY DEF ServerGrows
<1>2. /\ BlockFits(a.block) /\ a.version \in r.version..Len(erased)
      /\ a.last \in Opt(1..posted) /\ AllBelow(a.block, r.from, a.older, Live)
      /\ \A i \in (r.version + 1)..a.version : erased[i] \in PatchesOf(a.block)
  BY DEF AnswerFits
<1>3. BlockFits(a.block)'
  BY <1>2, BlockStays
<1>4. r.version \in 0..Len(erased) /\ r.from \in Opt(1..posted)
  BY DEF RequestFits
<1>5. AllBelow(a.block, r.from, a.older, Live')
  BY <1>2, <1>4, AllBelowStays
<1>6. a.version \in r.version..Len(erased')
  BY <1>1, <1>2, <1>4
<1>7. \A i \in (r.version + 1)..a.version : i \in 1..Len(erased)
  BY <1>1, <1>2, <1>4
<1>8. \A i \in (r.version + 1)..a.version : erased'[i] \in PatchesOf(a.block)
  BY <1>1, <1>2, <1>7
<1>9. (a.last \in Opt(1..posted))'
  BY <1>2, PartsStay
<1> QED  BY <1>3, <1>5, <1>6, <1>8, <1>9 DEF AnswerFits

\* What a task carries.
LEMMA TaskStays ==
    ASSUME ServerGrows, NEW t, TaskFits(t)
    PROVE  TaskFits(t)'
<1>1. t.kind = "limits" => HoleFits(t.hole)'
  BY PartsStay DEF TaskFits
<1>2. t.kind \in {"answered", "set"} => RequestFits(t.req)' /\ AnswerFits(t.req, t.answer)'
  BY PartsStay, AnswerStays DEF TaskFits
<1>3. \A b : TailFits(b) => TailFits(b)'
  BY BlockStays DEF TailFits
<1>4. t.kind = "event" => StateFits(t.news)' /\ TailFits(t.tail)'
  BY <1>3, PartsStay DEF TaskFits
<1>5. t.kind \in {"set", "eventset", "clearset"} => NewFits(t.new)'
  BY PartsStay DEF TaskFits
<1>6. t.kind = "eventset" => TailFits(t.tail)'
  BY <1>3 DEF TaskFits
<1>7. t.kind = "update" => /\ BlockFits(t.block)'
                           /\ AllBelow(t.block, t.from, t.hasOlder, Live')
                           /\ (t.from \in Opt(1..posted))'
  <2> SUFFICES ASSUME t.kind = "update"
               PROVE  /\ BlockFits(t.block)'
                      /\ AllBelow(t.block, t.from, t.hasOlder, Live')
                      /\ (t.from \in Opt(1..posted))'
    OBVIOUS
  <2>1. /\ BlockFits(t.block) /\ AllBelow(t.block, t.from, t.hasOlder, Live)
        /\ t.from \in Opt(1..posted)
    BY DEF TaskFits
  <2> QED  BY <2>1, BlockStays, AllBelowStays, PartsStay
<1>8. t.kind = "eventupdate" => TailFits(t.block)' /\ StateFits(t.state)'
  BY <1>3, PartsStay DEF TaskFits
<1>9. t.kind = "delete" => (t.upTo \in 0..upTo)'
  BY PartsStay DEF TaskFits
<1>10. /\ t.kind = "set" => t.new.version = t.answer.version
       /\ t.kind = "eventset" => t.new.version = 0
       /\ t.kind = "update" => (t.then = Nothing \/ t.then.kind \in {"download", "validate"})
       /\ t.kind = "eventupdate" => t.from = None
  BY DEF TaskFits
<1> QED  BY <1>1, <1>2, <1>4, <1>5, <1>6, <1>7, <1>8, <1>9, <1>10 DEF TaskFits

\* What a callback carries.
LEMMA CallbackStays ==
    ASSUME ServerGrows, NEW c, CallbackFits(c)
    PROVE  CallbackFits(c)'
<1>1. TaskFits(c.what)'
  BY TaskStays DEF CallbackFits
<1>2. c.what.kind \in StateKinds => StateFits(c.got)'
  BY PartsStay DEF CallbackFits
<1>3. c.what.kind = "next" /\ c.got.error = "ok" => HoleFits(c.got.hole)'
  BY PartsStay DEF CallbackFits
<1>4. c.what.kind \in {"answer", "fail"} => RequestFits(c.what.req)'
  BY PartsStay DEF CallbackFits
<1>5. c.what.kind = "answer" => AnswerFits(c.what.req, c.got)'
  BY AnswerStays DEF CallbackFits
<1> QED  BY <1>1, <1>2, <1>3, <1>4, <1>5 DEF CallbackFits

\* The whole dialog, if its parts fit the server there was before the step.
LEMMA DialogStays ==
    ASSUME ServerGrows,
           StateFits(state'), IndexFits(index'), TasksFit(archive'), CallbacksFit(core'),
           NetFits(net'), EventFits(event')
    PROVE  DialogFits'
<1>1. PICK s, ix, ts, cs, ns, e :
         s = state' /\ ix = index' /\ ts = archive' /\ cs = core' /\ ns = net' /\ e = event'
  OBVIOUS
<1>2. /\ StateFits(s) /\ IndexFits(ix) /\ TasksFit(ts) /\ CallbacksFit(cs)
      /\ NetFits(ns) /\ EventFits(e)
  BY <1>1
<1>3. StateFits(s)'
  BY <1>2, PartsStay
<1>4. TasksFit(ts)'
  BY <1>2, TaskStays DEF TasksFit
<1>5. CallbacksFit(cs)'
  BY <1>2, CallbackStays DEF CallbacksFit
<1>6. ASSUME NEW x, SentFits(x) PROVE SentFits(x)'
  <2>1. /\ RequestFits(x.req) /\ (x.answer # <<>> => AnswerFits(x.req, x.answer[1]))
        /\ x = [req |-> x.req, answer |-> x.answer]
    BY <1>6 DEF SentFits
  <2>2. RequestFits(x.req)'
    BY <2>1, PartsStay
  <2>3. x.answer # <<>> => AnswerFits(x.req, x.answer[1])'
    BY <2>1, AnswerStays
  <2> QED  BY <2>1, <2>2, <2>3 DEF SentFits
<1>7. NetFits(ns)'
  BY <1>2, <1>6 DEF NetFits
<1>8. EventFits(e)'
  BY <1>2, BlockStays, PartsStay DEF EventFits, TailFits
<1>9. IndexFits(ix)'
  <2>1. posted \in Nat /\ posted' \in Nat /\ posted <= posted' /\ Erased \subseteq Erased'
    BY DEF ServerGrows
  <2>2. 1..posted \subseteq 1..posted'
    BY <2>1
  <2> QED  BY <1>2, <2>1, <2>2 DEF IndexFits, IsIndex
<1> QED  BY <1>1, <1>3, <1>4, <1>5, <1>7, <1>8, <1>9 DEF DialogFits

\* The newest of a set of ids, or none.
LEMMA NewestIs ==
    ASSUME NEW n \in Nat, NEW S \in SUBSET (1..n)
    PROVE  /\ Newest(S) \in Opt(S)
           /\ \A k \in S : k <= Newest(S)
           /\ Newest(S) = None => S = {}
<1>1. CASE S = {}
  BY <1>1 DEF Newest, Opt
<1>2. CASE S # {}
  <2>1. Max(S) \in S /\ \A i \in S : i <= Max(S)
    BY <1>2, GreatestId
  <2>2. Newest(S) = Max(S)
    BY <1>2 DEF Newest
  <2>3. Max(S) # None
    BY <2>1 DEF None
  <2> QED  BY <2>1, <2>2, <2>3 DEF Opt
<1> QED  BY <1>1, <1>2

\* What a message names: the newest of those below it.
LEMMA LiveBelowIs ==
    ASSUME ServerFits, NEW id \in 1..posted
    PROVE  /\ LiveBelow(id) \in {None} \union 1..(id - 1)
           /\ \A k \in Live : k < id => k <= LiveBelow(id)
           /\ LiveBelow(id) = None => \A k \in Live : ~(k < id)
<1> DEFINE S == {k \in Live : k < id}
<1>1. posted \in Nat /\ S \in SUBSET (1..posted)
  BY LiveIds
<1>2. PICK p : p = LiveBelow(id)
  OBVIOUS
<1>3. p = Newest(S)
  BY <1>2 DEF LiveBelow
<1>4. \A k \in S : k \in 1..(id - 1)
  BY <1>1
<1>5. \A k \in Live : k < id => k \in S
  OBVIOUS
<1> HIDE DEF S
<1>6. p \in Opt(S) /\ (\A k \in S : k <= p) /\ (p = None => S = {})
  BY ONLY <1>1, <1>3, NewestIs
<1> QED  BY <1>2, <1>4, <1>5, <1>6 DEF Opt

\* A message of the server fits, and a patch.
LEMMA EntriesFit ==
    ASSUME ServerFits
    PROVE  /\ \A id \in Live :
                 LET m == Message(id, LiveBelow(id))
                 IN /\ m \in Entries /\ LinksOfMessage(m) /\ m.id = id /\ id \in 1..posted
                    /\ ~m.patch /\ ~m.deleted
                    /\ \A k \in Live : k < m.id => k <= m.prev
           /\ \A id \in Erased :
                 LET m == DeletedPatch(id)
                 IN /\ m \in Entries /\ LinksOfMessage(m) /\ m.id = id /\ id \in 1..posted
                    /\ m.patch /\ m.deleted /\ m.prev = None
<1>1. Live \in SUBSET (1..posted) /\ Erased \in SUBSET (1..posted) /\ posted \in Nat
  BY LiveIds
<1>2. ASSUME NEW id \in Live
      PROVE  LET m == Message(id, LiveBelow(id))
             IN /\ m \in Entries /\ LinksOfMessage(m) /\ m.id = id /\ id \in 1..posted
                /\ ~m.patch /\ ~m.deleted
                /\ \A k \in Live : k < m.id => k <= m.prev
  <2>1. id \in 1..posted /\ id \in Nat
    BY <1>1
  <2>2. PICK p : p = LiveBelow(id)
    OBVIOUS
  <2>3. p \in {None} \union 1..(id - 1) /\ \A k \in Live : k < id => k <= p
    BY <2>1, <2>2, LiveBelowIs
  <2>4. p \in Int
    BY <2>1, <2>3 DEF None
  <2> QED  BY <2>1, <2>2, <2>3, <2>4 DEF Message, Entries, LinksOfMessage
<1>3. ASSUME NEW id \in Erased
      PROVE  LET m == DeletedPatch(id)
             IN /\ m \in Entries /\ LinksOfMessage(m) /\ m.id = id /\ id \in 1..posted
                /\ m.patch /\ m.deleted /\ m.prev = None
  <2>1. id \in 1..posted /\ id \in Nat
    BY <1>1
  <2> QED  BY <2>1 DEF DeletedPatch, Entries, LinksOfMessage, None
<1> QED  BY <1>2, <1>3

\* What the server answers fits.
LEMMA AnswerIsFit ==
    ASSUME ServerFits, NEW r, RequestFits(r)
    PROVE  AnswerFits(r, Answer(r)) /\ MessagesOf(Answer(r).block) \subseteq Live
<1> DEFINE S == Page(r)
           n == Len(erased)
           v == r.version
<1>1. /\ Live \in SUBSET (1..posted) /\ Erased \in SUBSET (1..posted) /\ posted \in Nat
      /\ n \in Nat /\ Erased \intersect Live = {}
  BY LiveIds
<1>2. /\ r.from \in Opt(1..posted) /\ r.till \in Int /\ r.count \in Nat
      /\ v \in 0..n
  BY DEF RequestFits
<1>3. S \subseteq Live
  BY DEF Page
<1>4. PICK c \in Nat : c = Cardinality(S)
  BY <1>1, <1>3, InOrderSorted
<1>5. PICK ids : ids = InOrder(S)
  OBVIOUS
<1>6. /\ ids \in [1..c -> S]
      /\ \A i, j \in 1..c : i < j => ids[i] < ids[j]
      /\ \A k \in S : \E i \in 1..c : ids[i] = k
  BY <1>1, <1>3, <1>4, <1>5, InOrderSorted
<1> DEFINE A == [i \in 1..c |-> Message(ids[i], LiveBelow(ids[i]))]
           B == [i \in 1..(n - v) |-> DeletedPatch(erased[v + i])]
           b == A \o B
           older == IF ids # <<>> THEN LiveBelow(ids[1])
                    ELSE IF r.from # None THEN LiveBelow(r.from) ELSE Newest(Live)
<1>7. DOMAIN ids = 1..c
  BY <1>6
<1>8. PICK a : a = Answer(r)
  OBVIOUS
<1>9. a = [block |-> b, older |-> older # None, last |-> Newest(Live), version |-> n]
  BY <1>5, <1>7, <1>8 DEF Answer
<1>10. \A i \in 1..c : ids[i] \in Live /\ ids[i] \in 1..posted
  BY <1>1, <1>3, <1>6
<1>11. /\ \A i \in 1..n : erased[i] \in Erased
       /\ \A i, j \in 1..n : i # j => erased[i] # erased[j]
  BY DEF ServerFits, Erased
<1>12. \A i \in 1..(n - v) : v + i \in 1..n
  BY <1>1, <1>2
<1>13. A \in [1..c -> Entries] /\ B \in [1..(n - v) -> Entries]
  <2>1. \A i \in 1..c : Message(ids[i], LiveBelow(ids[i])) \in Entries
    BY <1>10, EntriesFit
  <2>2. \A i \in 1..(n - v) : DeletedPatch(erased[v + i]) \in Entries
    BY <1>11, <1>12, EntriesFit
  <2> QED  BY <2>1, <2>2
<1>14. PICK p \in Nat : p = n - v
  BY <1>1, <1>2
<1>15. /\ \A i \in 1..c : A[i] = Message(ids[i], LiveBelow(ids[i]))
       /\ \A i \in 1..p : B[i] = DeletedPatch(erased[v + i])
  BY <1>14
<1> HIDE DEF A, B
<1>16. A \in Seq(Entries) /\ Len(A) = c /\ B \in Seq(Entries) /\ Len(B) = p
  BY <1>13, <1>14
<1>17. /\ b \in Seq(Entries) /\ Len(b) = c + p
       /\ \A i \in 1..(c + p) : b[i] = IF i <= c THEN A[i] ELSE B[i - c]
  BY ONLY <1>16, ConcatProperties, c \in Nat, p \in Nat
<1>18. DOMAIN b = 1..(c + p)
  BY <1>17
<1> HIDE DEF b
<1>19. ASSUME NEW i \in 1..(c + p)
       PROVE  \/ i \in 1..c /\ b[i] = Message(ids[i], LiveBelow(ids[i]))
              \/ /\ i - c \in 1..p /\ i > c
                 /\ b[i] = DeletedPatch(erased[v + (i - c)])
  <2>1. CASE i <= c
    <3>1. i \in 1..c
      BY <1>19, <2>1
    <3> QED  BY <1>15, <1>17, <2>1, <3>1
  <2>2. CASE ~(i <= c)
    <3>1. i - c \in 1..p /\ i > c
      BY <2>2
    <3> QED  BY <1>15, <1>17, <2>2, <3>1
  <2> QED  BY <2>1, <2>2
<1>20. ASSUME NEW i \in 1..(c + p)
       PROVE  \/ i \in 1..c /\ ~b[i].patch /\ b[i].id = ids[i]
              \/ /\ i - c \in 1..p /\ i > c /\ v + (i - c) \in 1..n
                 /\ b[i].patch /\ b[i].id = erased[v + (i - c)]
  <2>1. \A k \in 1..p : v + k \in 1..n
    BY <1>12, <1>14
  <2>2. CASE i \in 1..c /\ b[i] = Message(ids[i], LiveBelow(ids[i]))
    BY <1>10, <2>2, EntriesFit
  <2>3. CASE /\ i - c \in 1..p /\ i > c
             /\ b[i] = DeletedPatch(erased[v + (i - c)])
    BY <1>11, <2>1, <2>3, EntriesFit
  <2> QED  BY ONLY <1>19, <2>2, <2>3
<1>21. BlockUpTo(b, posted)
  <2> SUFFICES ASSUME NEW i \in 1..(c + p)
               PROVE  b[i].id \in 1..posted /\ LinksOfMessage(b[i])
    BY <1>17, <1>18 DEF BlockUpTo
  <2>1. \A k \in 1..p : v + k \in 1..n
    BY <1>12, <1>14
  <2> QED  BY <1>10, <1>11, <1>19, <2>1, EntriesFit
<1>22. IdsDiffer(b)
  <2> SUFFICES ASSUME NEW i \in 1..(c + p), NEW j \in 1..(c + p), i # j PROVE b[i].id # b[j].id
    BY <1>18 DEF IdsDiffer
  <2>0. i \in Int /\ j \in Int /\ v \in Int
    BY <1>1, <1>2
  <2>1. CASE i \in 1..c /\ j \in 1..c
    <3>1. ids[i] < ids[j] \/ ids[j] < ids[i]
      BY <1>6, <2>0, <2>1
    <3>2. ids[i] \in Int /\ ids[j] \in Int
      BY <1>10, <2>1
    <3> QED  BY <1>20, <2>1, <3>1, <3>2
  <2>2. CASE i \in 1..c /\ ~(j \in 1..c)
    <3>1. b[i].id \in Live
      <4>1. ~(i > c)
        BY <2>2
      <4>2. b[i].id = ids[i]
        BY ONLY <1>20, <4>1, i \in 1..(c + p)
      <4> QED  BY <1>10, <2>2, <4>2
    <3>2. b[j].id \in Erased
      BY <1>11, <1>20, <2>2
    <3> QED  BY <1>1, <3>1, <3>2
  <2>3. CASE ~(i \in 1..c) /\ j \in 1..c
    <3>1. b[j].id \in Live
      <4>1. ~(j > c)
        BY <2>3
      <4>2. b[j].id = ids[j]
        BY ONLY <1>20, <4>1, j \in 1..(c + p)
      <4> QED  BY <1>10, <2>3, <4>2
    <3>2. b[i].id \in Erased
      BY <1>11, <1>20, <2>3
    <3> QED  BY <1>1, <3>1, <3>2
  <2>4. CASE ~(i \in 1..c) /\ ~(j \in 1..c)
    <3>1. v + (i - c) # v + (j - c)
      BY <2>0
    <3> QED  BY <1>11, <1>20, <2>4, <3>1
  <2> QED  BY <2>1, <2>2, <2>3, <2>4
<1>23. Truthful(b, Live, Erased)
  <2> SUFFICES ASSUME NEW i \in 1..(c + p)
               PROVE  /\ b[i].patch => b[i].deleted /\ b[i].prev = None /\ b[i].id \in Erased
                      /\ ~b[i].patch => /\ ~b[i].deleted
                                        /\ \A k \in Live : k < b[i].id => k <= b[i].prev
    BY <1>18 DEF Truthful
  <2>1. \A k \in 1..p : v + k \in 1..n
    BY <1>12, <1>14
  <2> QED  BY <1>10, <1>11, <1>19, <2>1, EntriesFit
<1>24. \A i \in (v + 1)..n : erased[i] \in PatchesOf(b)
  <2> SUFFICES ASSUME NEW i \in (v + 1)..n PROVE erased[i] \in PatchesOf(b)
    OBVIOUS
  <2>1. PICK j : j = c + (i - v)
    OBVIOUS
  <2>2. i \in Int /\ v \in Int /\ v + 1 <= i /\ i <= n
    BY <1>1, <1>2
  <2>3. j \in 1..(c + p) /\ ~(j \in 1..c) /\ v + (j - c) = i
    <3>1. n \in Int /\ c \in Nat /\ p = n - v
      BY <1>1, <1>14
    <3> HIDE DEF n, v
    <3>2. j \in Int /\ c < j /\ j <= c + p /\ v + (j - c) = i
      BY ONLY <2>1, <2>2, <3>1
    <3> QED  BY ONLY <3>1, <3>2
  <2>4. b[j].patch /\ b[j].id = erased[i]
    BY <1>20, <2>3
  <2> QED  BY <1>18, <2>3, <2>4 DEF PatchesOf
<1>25. \A k \in S : k \in MessagesOf(b)
  <2> SUFFICES ASSUME NEW k \in S PROVE k \in MessagesOf(b)
    OBVIOUS
  <2>1. PICK i \in 1..c : ids[i] = k
    BY <1>6
  <2>2. i \in 1..(c + p)
    OBVIOUS
  <2>3. ~b[i].patch /\ b[i].id = k
    BY <1>20, <2>1, <2>2
  <2> QED  BY <1>18, <2>2, <2>3 DEF MessagesOf
<1>26. AllBelow(b, r.from, a.older, Live)
  <2> SUFFICES ASSUME ~(older # None), r.from # None, NEW k \in Live, k < r.from
               PROVE  k \in S
    BY <1>9, <1>25 DEF AllBelow
  <2>1. r.from \in 1..posted /\ k \in Int
    BY <1>1, <1>2 DEF Opt
  <2>2. CASE ids = <<>>
    <3>1. LiveBelow(r.from) = None
      BY <2>2
    <3> QED  BY <2>1, <3>1, LiveBelowIs
  <2>3. CASE ids # <<>>
    <3>1. ids \in Seq(S) /\ Len(ids) = c
      BY <1>6
    <3>2. 1 \in 1..c
      BY <2>3, <3>1, EmptySeq
    <3>3. LiveBelow(ids[1]) = None /\ ids[1] \in S /\ ids[1] \in 1..posted
      BY <1>6, <1>10, <2>3, <3>2
    <3>4. ~(k < ids[1])
      BY <3>3, LiveBelowIs
    <3> DEFINE asked == {l \in Live : (r.from = None \/ l < r.from) /\ l > r.till}
               U == {l \in asked : l > ids[1]}
               T == {l \in asked : l > k}
    <3>5. ids[1] \in asked /\ Cardinality(U) < r.count
      BY <3>3 DEF Page
    <3>6. k \in asked
      BY <1>2, <2>1, <3>3, <3>4, <3>5
    <3>7. T \subseteq U
      <4> SUFFICES ASSUME NEW l \in T PROVE l \in U
        OBVIOUS
      <4>1. l \in asked /\ l > k /\ l \in Int
        BY <1>1
      <4>2. ids[1] \in Int
        BY <3>3
      <4>3. l > ids[1]
        BY ONLY <2>1, <3>4, <4>1, <4>2
      <4> QED  BY <4>1, <4>3
    <3>8. IsFiniteSet(U)
      <4>1. IsFiniteSet(1..posted)
        BY <1>1, FS_Interval
      <4>2. U \in SUBSET (1..posted)
        BY <1>1
      <4> QED  BY <4>1, <4>2, FS_Subset
    <3> HIDE DEF T, U
    <3>9. Cardinality(T) <= Cardinality(U) /\ Cardinality(T) \in Nat /\ Cardinality(U) \in Nat
      <4>1. IsFiniteSet(T)
        BY <3>7, <3>8, FS_Subset
      <4> QED  BY <3>7, <3>8, <4>1, FS_Subset, FS_CardinalityType
    <3>10. Cardinality(T) < r.count
      <4>1. r.count \in Int /\ c \in Int
        BY <1>2
      <4> HIDE DEF T
      <4> QED  BY <3>5, <3>9, <4>1
    <3> QED  BY <3>6, <3>10 DEF Page, T
  <2> QED  BY <2>2, <2>3
<1>27. Newest(Live) \in Opt(1..posted)
  <2>1. Newest(Live) \in Opt(Live)
    BY <1>1, NewestIs
  <2> QED  BY <1>1, <2>1 DEF Opt
<1>28. n \in v..n
  BY <1>1, <1>2
<1>29. BlockFits(b)
  BY <1>21, <1>22, <1>23 DEF BlockFits
<1>30. a.block = b /\ a.version = n /\ a.last = Newest(Live)
  BY <1>9
<1>31. ASSUME NEW k \in MessagesOf(b) PROVE k \in Live
  <2>1. PICK i \in 1..(c + p) : ~b[i].patch /\ b[i].id = k
    BY <1>18 DEF MessagesOf
  <2>2. i \in 1..c /\ k = ids[i]
    BY <1>20, <2>1
  <2>3. ids[i] \in Live
    BY ONLY <1>10, <2>2
  <2> QED  BY ONLY <2>2, <2>3
<1>32. AnswerFits(r, a)
  <2>1. BlockFits(a.block) /\ a.version \in v..n /\ a.last \in Opt(1..posted)
    BY <1>27, <1>28, <1>29, <1>30
  <2>2. AllBelow(a.block, r.from, a.older, Live)
    BY <1>26, <1>30
  <2>3. \A i \in (v + 1)..a.version : erased[i] \in PatchesOf(a.block)
    BY <1>24, <1>30
  <2> QED  BY ONLY <2>1, <2>2, <2>3 DEF AnswerFits
<1> QED  BY <1>8, <1>30, <1>31, <1>32

\* A sequence is a queue of what it holds.
LEMMA QueueOf ==
    ASSUME NEW S, NEW q \in Seq(S)
    PROVE  IsQueue(q)
<1>1. Len(q) \in Nat /\ DOMAIN q = 1..Len(q) /\ q = [i \in 1..Len(q) |-> q[i]]
  OBVIOUS
<1>2. \A i \in 1..Len(q) : q[i] \in ToSet(q)
  BY <1>1 DEF ToSet
<1>3. PICK T : T = ToSet(q)
  OBVIOUS
<1>4. q \in [1..Len(q) -> T]
  BY <1>1, <1>2, <1>3
<1>5. q \in Seq(T)
  BY <1>1, <1>4
<1> QED  BY <1>3, <1>5 DEF IsQueue

\* Appending to a queue, taking its head, and putting one behind another.
LEMMA QueueAppend ==
    ASSUME NEW q, IsQueue(q), NEW e
    PROVE  /\ IsQueue(Append(q, e))
           /\ \A x \in ToSet(Append(q, e)) : x \in ToSet(q) \/ x = e
<1>1. PICK S : S = ToSet(q) \union {e}
  OBVIOUS
<1>2. q \in Seq(S) /\ e \in S
  BY <1>1, SeqMonotonic DEF IsQueue
<1>3. ToSet(Append(q, e)) = ToSet(q) \union {e}
  BY <1>2, ToSetAppend
<1>4. Append(q, e) \in Seq(S)
  BY <1>2
<1> QED  BY <1>3, <1>4, QueueOf

\* Taking the head of a queue.
LEMMA QueueTail ==
    ASSUME NEW q, IsQueue(q), q # <<>>
    PROVE  /\ IsQueue(Tail(q)) /\ Head(q) \in ToSet(q)
           /\ \A x \in ToSet(Tail(q)) : x \in ToSet(q)
<1>1. PICK S : S = ToSet(q) /\ q \in Seq(S)
  BY DEF IsQueue
<1>2. Tail(q) \in Seq(S) /\ Head(q) \in S /\ ToSet(q) = ToSet(Tail(q)) \union {Head(q)}
  BY <1>1, ToSetTail
<1> QED  BY <1>1, <1>2, QueueOf

\* Putting one queue behind another.
LEMMA QueueConcat ==
    ASSUME NEW q, IsQueue(q), NEW r, IsQueue(r)
    PROVE  /\ IsQueue(q \o r)
           /\ \A x \in ToSet(q \o r) : x \in ToSet(q) \/ x \in ToSet(r)
<1>1. PICK S : S = ToSet(q) \union ToSet(r)
  OBVIOUS
<1>2. q \in Seq(S) /\ r \in Seq(S)
  BY <1>1, SeqMonotonic DEF IsQueue
<1>3. q \o r \in Seq(S)
  BY <1>2
<1>4. ToSet(q \o r) = ToSet(q) \union ToSet(r)
  BY <1>2, ToSetOfConcat
<1> QED  BY <1>3, <1>4, QueueOf

\* Queues of none, one or two.
LEMMA QueueOfFew ==
    /\ IsQueue(<<>>) /\ \A x : x \notin ToSet(<<>>)
    /\ \A e : IsQueue(<<e>>) /\ \A x \in ToSet(<<e>>) : x = e
    /\ \A e, f : IsQueue(<<e, f>>) /\ \A x \in ToSet(<<e, f>>) : x = e \/ x = f
<1>1. IsQueue(<<>>) /\ \A x : x \notin ToSet(<<>>)
  BY DEF IsQueue, ToSet
<1>2. ASSUME NEW e PROVE IsQueue(<<e>>) /\ \A x \in ToSet(<<e>>) : x = e
  <2>1. PICK q : q = <<e>>
    OBVIOUS
  <2>2. PICK S : S = {e}
    OBVIOUS
  <2>3. q \in Seq(S)
    BY <2>1, <2>2
  <2>4. \A x \in ToSet(q) : x = e
    BY <2>1 DEF ToSet
  <2>5. IsQueue(q)
    BY <2>3, QueueOf
  <2> QED  BY <2>1, <2>4, <2>5
<1>3. ASSUME NEW e, NEW f
      PROVE  IsQueue(<<e, f>>) /\ \A x \in ToSet(<<e, f>>) : x = e \/ x = f
  <2>1. PICK q : q = <<e, f>>
    OBVIOUS
  <2>2. PICK S : S = {e, f}
    OBVIOUS
  <2>3. q \in Seq(S)
    BY <2>1, <2>2
  <2>4. \A x \in ToSet(q) : x = e \/ x = f
    BY <2>1 DEF ToSet
  <2>5. IsQueue(q)
    BY <2>3, QueueOf
  <2> QED  BY <2>1, <2>4, <2>5
<1> QED  BY <1>1, <1>2, <1>3

\* Tasks that fit are posted.
LEMMA PostFits ==
    ASSUME TasksFit(archive), NEW ts, TasksFit(ts), PostTasks(ts)
    PROVE  TasksFit(archive')
<1>1. PICK q : q = archive \o ts
  OBVIOUS
<1>2. IsQueue(q) /\ \A x \in ToSet(q) : x \in ToSet(archive) \/ x \in ToSet(ts)
  BY <1>1, QueueConcat DEF TasksFit
<1>3. archive' = q
  BY <1>1 DEF PostTasks
<1> QED  BY <1>2, <1>3 DEF TasksFit

\* A few tasks that fit.
LEMMA TasksOf ==
    /\ TasksFit(<<>>)
    /\ \A t : TaskFits(t) => TasksFit(<<t>>)
    /\ \A t, u : TaskFits(t) /\ TaskFits(u) => TasksFit(<<t, u>>)
BY QueueOfFew DEF TasksFit

\* One task that fits is posted.
LEMMA PostOneFits ==
    ASSUME TasksFit(archive), NEW t, TaskFits(t), PostTask(t)
    PROVE  TasksFit(archive')
<1>1. TasksFit(<<t>>)
  BY TasksOf
<1>2. PostTasks(<<t>>)
  BY DEF PostTask
<1> QED  BY <1>1, <1>2, PostFits

\* The task the archive thread takes fits, and its callback.
LEMMA TaskTaken ==
    ASSUME TasksFit(archive), NEW kinds, Task(kinds)
    PROVE  TaskFits(Head(archive)) /\ Head(archive).kind \in kinds /\ TasksFit(archive')
<1>1. archive # <<>> /\ Head(archive).kind \in kinds /\ archive' = Tail(archive)
  BY DEF Task
<1>2. /\ IsQueue(Tail(archive)) /\ Head(archive) \in ToSet(archive)
      /\ \A x \in ToSet(Tail(archive)) : x \in ToSet(archive)
  BY <1>1, QueueTail DEF TasksFit
<1> QED  BY <1>1, <1>2 DEF TasksFit

\* A callback that fits comes behind the others.
LEMMA CallbackAppended ==
    ASSUME CallbacksFit(core), NEW c, CallbackFits(c), core' = Append(core, c)
    PROVE  CallbacksFit(core')
<1>1. PICK q : q = Append(core, c)
  OBVIOUS
<1>2. IsQueue(q) /\ \A x \in ToSet(q) : x \in ToSet(core) \/ x = c
  BY <1>1, QueueAppend DEF CallbacksFit
<1> QED  BY <1>1, <1>2 DEF CallbacksFit

\* The callback the core thread runs fits.
LEMMA CallbackTaken ==
    ASSUME CallbacksFit(core), NEW kind, Callback(kind)
    PROVE  CallbackFits(Head(core)) /\ Head(core).what.kind = kind /\ CallbacksFit(core')
<1>1. core # <<>> /\ Head(core).what.kind = kind /\ core' = Tail(core)
  BY DEF Callback
<1>2. /\ IsQueue(Tail(core)) /\ Head(core) \in ToSet(core)
      /\ \A x \in ToSet(Tail(core)) : x \in ToSet(core)
  BY <1>1, QueueTail DEF CallbacksFit
<1> QED  BY <1>1, <1>2 DEF CallbacksFit

\* A request that fits is sent.
LEMMA SendFits ==
    ASSUME NetFits(net), NEW r, RequestFits(r), Send(r)
    PROVE  NetFits(net')
<1>1. PICK s : s = Sent(r)
  OBVIOUS
<1>2. s.req = r /\ s.answer = <<>> /\ SentFits(s)
  BY <1>1 DEF Sent, SentFits
<1>3. PICK q : q = Append(net, s)
  OBVIOUS
<1>4. IsQueue(q)
  BY <1>3, QueueAppend DEF NetFits
<1>5. net \in Seq(ToSet(net) \union {s})
  BY SeqMonotonic DEF NetFits, IsQueue
<1>6. /\ DOMAIN q = 1..(Len(net) + 1) /\ Len(net) \in Nat /\ DOMAIN net = 1..Len(net)
      /\ \A i \in 1..Len(net) : q[i] = net[i]
      /\ q[Len(net) + 1] = s
  BY <1>3, <1>5, AppendProperties
<1>7. \A i \in DOMAIN q : i \in 1..Len(net) \/ i = Len(net) + 1
  BY <1>6
<1>8. \A i \in DOMAIN q : SentFits(q[i]) /\ (i # 1 => q[i].answer = <<>>)
  BY <1>2, <1>6, <1>7 DEF NetFits
<1>9. net' = q
  BY <1>1, <1>3 DEF Send
<1> QED  BY <1>4, <1>8, <1>9 DEF NetFits

\* The first request is done with.
LEMMA NetTail ==
    ASSUME NetFits(net), net # <<>>
    PROVE  SentFits(Head(net)) /\ NetFits(Tail(net))
<1>1. net \in Seq(ToSet(net)) /\ \A i \in DOMAIN net : SentFits(net[i]) /\ (i # 1 => net[i].answer = <<>>)
  BY DEF NetFits, IsQueue
<1>2. IsQueue(Tail(net))
  BY QueueTail DEF NetFits
<1>3. 1 \in DOMAIN net /\ Head(net) = net[1]
  BY <1>1
<1>4. /\ \A i \in DOMAIN Tail(net) : i + 1 \in DOMAIN net /\ Tail(net)[i] = net[i + 1] /\ i + 1 # 1
  BY <1>1
<1> QED  BY <1>1, <1>2, <1>3, <1>4 DEF NetFits

\* The greater of two numbers.
LEMMA MaxOfTwo ==
    ASSUME NEW a \in Int, NEW b \in Int
    PROVE  Max({a, b}) = IF a >= b THEN a ELSE b
<1>1. CASE a >= b
  <2>1. \A y \in {a, b} : a >= y
    BY <1>1
  <2>2. \A x \in {a, b} : (\A y \in {a, b} : x >= y) => x = a
    BY <1>1
  <2> QED  BY <1>1, <2>1, <2>2 DEF Max
<1>2. CASE ~(a >= b)
  <2>1. \A y \in {a, b} : b >= y
    BY <1>2
  <2>2. \A x \in {a, b} : (\A y \in {a, b} : x >= y) => x = b
    BY <1>2
  <2> QED  BY <1>2, <2>1, <2>2 DEF Max
<1> QED  BY <1>1, <1>2

\* What the merged state of the dialog is.
LEMMA MergedFits ==
    ASSUME ServerFits, StateFits(state), NEW new, NewFits(new)
    PROVE  StateFits(Merged(new))
<1>1. /\ state \in [last : Opt(1..posted), upTo : 0..upTo, version : 0..Len(erased)]
      /\ new.last \in Opt(1..posted) /\ new.upTo \in {None} \union 0..upTo
      /\ new.version \in 0..Len(erased)
  BY DEF StateFits, NewFits
<1>2. upTo \in Nat
  BY LiveIds
<1>3. PICK m : m = Max({new.upTo, state.upTo})
  OBVIOUS
<1>4. new.upTo \in Int /\ state.upTo \in 0..upTo
  BY <1>1, <1>2 DEF None
<1>5. m \in 0..upTo
  <2>1. m = IF new.upTo >= state.upTo THEN new.upTo ELSE state.upTo
    BY <1>2, <1>3, <1>4, MaxOfTwo
  <2> QED  BY <1>1, <1>2, <1>4, <2>1 DEF None
<1>6. PICK s : s = Merged(new)
  OBVIOUS
<1>7. \/ s = state
      \/ s = [state EXCEPT !.upTo = m]
      \/ \E v \in {new.version, state.version} : s = [last |-> new.last, upTo |-> m, version |-> v]
  BY <1>3, <1>6 DEF Merged
<1>8. s \in [last : Opt(1..posted), upTo : 0..upTo, version : 0..Len(erased)]
  BY <1>1, <1>5, <1>7
<1> QED  BY <1>6, <1>8 DEF StateFits

\* What the search for holes finds is a hole.
LEMMA NextHoleFits ==
    ASSUME ServerFits, IndexFits(index), NEW from, NEW depth,
           GetNextHole(index, from, depth).error = "ok"
    PROVE  HoleFits(GetNextHole(index, from, depth).hole)
<1> DEFINE ids == {k \in Shown(index) : from = None \/ k <= from}
<1>1. PICK got : got = GetNextHole(index, from, depth)
  OBVIOUS
<1>2. PICK top : top = Max(Broken(index, ids))
  OBVIOUS
<1>3. got.error = "ok"
  BY <1>1
<1>4. \/ got = Found(Hole(None, None, 0))
      \/ Ids(index) # {} /\ got = Found(Hole(None, LastId(index), 0))
      \/ /\ Broken(index, ids) # {} /\ Before(index, top) = None
         /\ got = Found(Hole(top, None, 0))
      \/ /\ Broken(index, ids) # {} /\ Before(index, top) # None
         /\ got = Found(Hole(top, Before(index, top), DepthAt(ids, top)))
  <2>1. got # NoHole("index_not_found") /\ got # NoHole("depth_reached")
        /\ got # NoHole("last_reached")
    BY <1>3 DEF NoHole
  <2> QED  BY ONLY <1>1, <1>2, <2>1, NextHoleCases
<1>5. posted \in Nat /\ IsIndex(index, posted) /\ Ids(index) \in SUBSET (1..posted)
  BY LiveIds DEF IndexFits, IsIndex
<1>6. Broken(index, ids) # {} => top \in 1..posted
  <2>1. Broken(index, ids) \in SUBSET (1..posted)
    BY <1>5 DEF Broken, Shown
  <2> QED  BY <1>2, <1>5, <2>1, GreatestId
<1>7. \A id \in 1..posted : Before(index, id) # None => Before(index, id) \in Int
  <2> SUFFICES ASSUME NEW id \in 1..posted, Before(index, id) # None
               PROVE  Before(index, id) \in Int
    OBVIOUS
  <2>1. id \in Int
    BY <1>5
  <2>2. Before(index, id) \in ShownBelow(index, id)
    BY <1>5, <2>1, BeforeIsNext
  <2> QED  BY <1>5, <2>2 DEF ShownBelow, Shown
<1>8. Ids(index) # {} => LastId(index) \in Int
  <2> SUFFICES ASSUME Ids(index) # {} PROVE LastId(index) \in Int
    OBVIOUS
  <2>1. PICK S : S = Ids(index)
    OBVIOUS
  <2>2. Max(S) \in S
    BY <1>5, <2>1, GreatestId
  <2>3. LastId(index) = Max(S)
    BY <2>1 DEF LastId
  <2> QED  BY <1>5, <2>1, <2>2, <2>3
<1>9. None \in Int /\ None \in Opt(1..posted) /\ \A k \in 1..posted : k \in Opt(1..posted)
  BY DEF None, Opt
<1>10. PICK h : h = got.hole
  OBVIOUS
<1>11. h.from \in Opt(1..posted) /\ h.to \in Int
  <2>1. CASE got = Found(Hole(None, None, 0))
    BY <1>9, <1>10, <2>1 DEF Found, Hole
  <2>2. CASE Ids(index) # {} /\ got = Found(Hole(None, LastId(index), 0))
    BY <1>8, <1>9, <1>10, <2>2 DEF Found, Hole
  <2>3. CASE /\ Broken(index, ids) # {} /\ Before(index, top) = None
             /\ got = Found(Hole(top, None, 0))
    BY <1>6, <1>9, <1>10, <2>3 DEF Found, Hole
  <2>4. CASE /\ Broken(index, ids) # {} /\ Before(index, top) # None
             /\ got = Found(Hole(top, Before(index, top), DepthAt(ids, top)))
    <3>1. h.from = top /\ h.to = Before(index, top)
      BY <1>10, <2>4 DEF Found, Hole
    <3> QED  BY <1>6, <1>7, <1>9, <2>4, <3>1
  <2> QED  BY <1>4, <2>1, <2>2, <2>3, <2>4
<1> QED  BY <1>1, <1>10, <1>11 DEF HoleFits

\* A block that fits keeps an index that fits.
LEMMA InsertFits ==
    ASSUME ServerFits, StateFits(state), IndexFits(index), NEW b, BlockFits(b),
           NEW from, NEW hasOlder
    PROVE  IndexFits(InsertHistoryBlock(index, b, state.upTo, from, hasOlder))
<1>1. /\ posted \in Nat /\ state.upTo \in Nat
  BY LiveIds DEF StateFits
<1>2. IsIndex(index, posted) /\ LinksNameIds(index) /\ DeletedIn(index) \subseteq Erased
  BY DEF IndexFits
<1>3. BlockUpTo(b, posted) /\ IdsDiffer(b) /\ Truthful(b, Live, Erased)
  BY DEF BlockFits
<1>4. PICK new : new = InsertHistoryBlock(index, b, state.upTo, from, hasOlder)
  OBVIOUS
<1>5. IsIndex(new, posted) /\ LinksNameIds(new)
  BY ONLY <1>1, <1>2, <1>3, <1>4, BlockTypes
<1>6. \A id \in DeletedIn(new) : id \in DeletedIn(index) \/ id \in PatchesOf(b)
  BY ONLY <1>1, <1>2, <1>3, <1>4, BlockShows
<1>7. PatchesOf(b) \subseteq Erased
  BY <1>3 DEF PatchesOf, Truthful
<1> QED  BY <1>2, <1>4, <1>5, <1>6, <1>7 DEF IndexFits

\* What a step makes of the dialog fits what the server had before it.
NextFits ==
    /\ StateFits(state') /\ IndexFits(index') /\ TasksFit(archive') /\ CallbacksFit(core')
    /\ NetFits(net') /\ EventFits(event')

\* The steps of the network.
LEMMA NetworkFits ==
    ASSUME DialogInv, Network
    PROVE  NextFits
<1>1. /\ ServerFits /\ StateFits(state) /\ IndexFits(index) /\ TasksFit(archive)
      /\ CallbacksFit(core) /\ NetFits(net) /\ EventFits(event)
  BY DEF DialogInv, DialogFits
<1>2. CASE Serve
  <2>1. /\ net # <<>> /\ state' = state /\ index' = index /\ archive' = archive
        /\ core' = core /\ event' = event
        /\ net' = [net EXCEPT ![1].answer = <<Answer(Head(net).req)>>]
    BY <1>2 DEF Serve, client, wire
  <2>2. PICK s : s = Head(net)
    OBVIOUS
  <2>3. PICK a : a = Answer(s.req)
    OBVIOUS
  <2>4. net \in Seq(ToSet(net)) /\ \A i \in DOMAIN net : SentFits(net[i]) /\ (i # 1 => net[i].answer = <<>>)
    BY <1>1 DEF NetFits, IsQueue
  <2>5. 1 \in DOMAIN net /\ s = net[1] /\ DOMAIN net = 1..Len(net) /\ Len(net) \in Nat
    BY <2>1, <2>2, <2>4
  <2>6. RequestFits(s.req)
    BY <2>4, <2>5 DEF SentFits
  <2>7. AnswerFits(s.req, a)
    BY <1>1, <2>3, <2>6, AnswerIsFit
  <2>8. PICK t : t = [s EXCEPT !.answer = <<a>>]
    OBVIOUS
  <2>9. PICK q : q = [net EXCEPT ![1] = t]
    OBVIOUS
  <2>10. net' = q
    BY <2>1, <2>2, <2>3, <2>5, <2>8, <2>9
  <2>11. /\ DOMAIN q = 1..Len(net) /\ q[1] = t
         /\ \A i \in DOMAIN net : i # 1 => q[i] = net[i]
    BY <2>4, <2>5, <2>9
  <2>12. IsQueue(q)
    <3>1. PICK S : S = ToSet(net) \union {t}
      OBVIOUS
    <3>2. net \in Seq(S) /\ t \in S
      BY <2>4, <3>1, SeqMonotonic
    <3>3. q \in Seq(S)
      BY <2>5, <2>9, <3>2, ExceptSeq
    <3> QED  BY <3>3, QueueOf
  <2>13. SentFits(t)
    <3>1. t.req = s.req /\ (t.answer # <<>> => t.answer[1] = a)
      <4>1. s = [req |-> s.req, answer |-> s.answer]
        BY <2>4, <2>5 DEF SentFits
      <4>2. PICK r, b : s = [req |-> r, answer |-> b]
        BY <4>1
      <4>3. t = [req |-> r, answer |-> <<a>>]
        BY <2>8, <4>2
      <4> QED  BY <4>2, <4>3
    <3>2. t = [req |-> t.req, answer |-> t.answer]
      <4>1. PICK r, b : s = [req |-> r, answer |-> b]
        BY <2>4, <2>5 DEF SentFits
      <4>2. t = [req |-> r, answer |-> <<a>>]
        BY <2>8, <4>1
      <4> QED  BY <4>2
    <3> QED  BY <2>6, <2>7, <3>1, <3>2 DEF SentFits
  <2>14. NetFits(q)
    BY <2>4, <2>5, <2>11, <2>12, <2>13 DEF NetFits
  <2> QED  BY <1>1, <2>1, <2>10, <2>14 DEF NextFits
<1>3. CASE Arrive
  <2>1. /\ net # <<>> /\ Head(net).answer # <<>> /\ net' = Tail(net)
        /\ core' = Append(core, Result([kind |-> "answer", req |-> Head(net).req],
                                       Head(net).answer[1]))
        /\ state' = state /\ index' = index /\ archive' = archive /\ event' = event
    BY <1>3 DEF Arrive, client, wire
  <2>2. SentFits(Head(net)) /\ NetFits(net')
    BY <1>1, <2>1, NetTail
  <2>3. PICK r, a : r = Head(net).req /\ a = Head(net).answer[1]
    OBVIOUS
  <2>4. RequestFits(r) /\ AnswerFits(r, a)
    BY <2>1, <2>2, <2>3 DEF SentFits
  <2>5. PICK c : c = Result([kind |-> "answer", req |-> r], a)
    OBVIOUS
  <2>6. CallbackFits(c)
    BY <2>4, <2>5 DEF CallbackFits, TaskFits, Result, StateKinds
  <2>7. core' = Append(core, c)
    BY <2>1, <2>3, <2>5
  <2>8. CallbacksFit(core')
    BY <1>1, <2>6, <2>7, CallbackAppended
  <2> QED  BY <1>1, <2>1, <2>2, <2>8 DEF NextFits
<1>4. CASE Fail
  <2>1. /\ net # <<>> /\ net' = Tail(net)
        /\ state' = state /\ index' = index /\ archive' = archive /\ event' = event
    BY <1>4 DEF Fail, client, wire
  <2>2. SentFits(Head(net)) /\ NetFits(net')
    BY <1>1, <2>1, NetTail
  <2>3. PICK r : r = Head(net).req
    OBVIOUS
  <2>4. RequestFits(r)
    BY <2>2, <2>3 DEF SentFits
  <2>5. PICK error : core' = Append(core, Result([kind |-> "fail", req |-> r], error))
    BY <1>4, <2>3 DEF Fail
  <2>6. PICK c : c = Result([kind |-> "fail", req |-> r], error)
    OBVIOUS
  <2>7. CallbackFits(c)
    BY <2>4, <2>6 DEF CallbackFits, TaskFits, Result, StateKinds
  <2>8. CallbacksFit(core')
    BY <1>1, <2>5, <2>6, <2>7, CallbackAppended
  <2> QED  BY <1>1, <2>1, <2>2, <2>8 DEF NextFits
<1>5. CASE SendEvent
  <2>1. /\ state' = state /\ index' = index /\ archive' = archive /\ core' = core /\ net' = net
    BY <1>5 DEF SendEvent, client, queues
  <2>2. PICK tail \in Tails : event' = <<[news |-> News, tail |-> tail]>>
    BY <1>5 DEF SendEvent
  <2>3. StateFits(News)
    <3>1. Newest(Live) \in Opt(Live)
      BY <1>1, LiveIds, NewestIs
    <3>2. Newest(Live) \in Opt(1..posted) /\ upTo \in 0..upTo /\ Len(erased) \in 0..Len(erased)
      BY <1>1, <3>1, LiveIds DEF Opt
    <3> QED  BY <3>2 DEF StateFits, News
  <2>4. TailFits(tail)
    <3>1. \/ tail = <<>>
          \/ \E id \in Live : tail = <<Message(id, LiveBelow(id))>>
      BY DEF Tails
    <3>2. CASE tail = <<>>
      BY <3>2 DEF TailFits, BlockFits, BlockUpTo, IdsDiffer, Truthful, PatchesOf
    <3>3. CASE \E id \in Live : tail = <<Message(id, LiveBelow(id))>>
      <4>1. PICK id \in Live : tail = <<Message(id, LiveBelow(id))>>
        BY <3>3
      <4>2. PICK m : m = Message(id, LiveBelow(id))
        OBVIOUS
      <4>3. /\ m \in Entries /\ LinksOfMessage(m) /\ m.id \in 1..posted
            /\ ~m.patch /\ ~m.deleted /\ \A k \in Live : k < m.id => k <= m.prev
        BY <1>1, <4>2, EntriesFit
      <4>4. tail \in Seq(Entries) /\ DOMAIN tail = {1} /\ tail[1] = m
        BY <4>1, <4>2, <4>3
      <4> QED  BY <4>3, <4>4 DEF TailFits, BlockFits, BlockUpTo, IdsDiffer, Truthful, PatchesOf
    <3> QED  BY <3>1, <3>2, <3>3
  <2>5. EventFits(event')
    BY <2>2, <2>3, <2>4 DEF EventFits
  <2> QED  BY <1>1, <2>1, <2>5 DEF NextFits
<1>6. CASE DeliverEvent
  <2>1. /\ state' = state /\ index' = index /\ core' = core /\ net' = net
        /\ event # <<>> /\ event' = <<>>
        /\ PostTask([kind |-> "event", news |-> event[1].news, tail |-> event[1].tail])
    BY <1>6 DEF DeliverEvent, client
  <2>2. PICK t : t = [kind |-> "event", news |-> event[1].news, tail |-> event[1].tail]
    OBVIOUS
  <2>3. TaskFits(t)
    BY <1>1, <2>1, <2>2 DEF TaskFits, EventFits
  <2>4. TasksFit(archive')
    BY <1>1, <2>1, <2>2, <2>3, PostOneFits
  <2>5. EventFits(event')
    BY <2>1 DEF EventFits
  <2> QED  BY <1>1, <2>1, <2>4, <2>5 DEF NextFits
<1> QED  BY <1>2, <1>3, <1>4, <1>5, <1>6 DEF Network

\* The tasks of the archive thread.
LEMMA ArchiveFits ==
    ASSUME DialogInv, Archive
    PROVE  NextFits
<1>1. /\ ServerFits /\ StateFits(state) /\ IndexFits(index) /\ TasksFit(archive)
      /\ CallbacksFit(core) /\ NetFits(net) /\ EventFits(event)
  BY DEF DialogInv, DialogFits
<1>2. PICK t : t = Head(archive)
  OBVIOUS
<1> DEFINE C(got) == Result(t, got)
<1>3. ASSUME NEW kinds, Task(kinds)
      PROVE  /\ TaskFits(t) /\ t.kind \in kinds /\ TasksFit(archive')
             /\ NetFits(net') /\ EventFits(event')
  <2>1. TaskFits(t) /\ t.kind \in kinds /\ TasksFit(archive')
    BY <1>1, <1>2, <1>3, TaskTaken
  <2>2. net' = net /\ event' = event
    BY <1>3 DEF Task, wire
  <2> QED  BY <1>1, <2>1, <2>2
<1>4. ASSUME NEW got, Called(got), CallbackFits(C(got)) PROVE CallbacksFit(core')
  <2>1. core' = Append(core, C(got))
    BY <1>2, <1>4 DEF Called
  <2> QED  BY <1>1, <1>4, <2>1, CallbackAppended
<1>5. CASE GetDlgState
  <2>1. /\ Task({"download", "limits", "answered", "open", "event", "clear"})
        /\ Called(state) /\ index' = index /\ state' = state
    BY <1>5 DEF GetDlgState
  <2>2. TaskFits(t) /\ t.kind \in {"download", "limits", "answered", "open", "event", "clear"}
    BY <1>3, <2>1
  <2>3. CallbackFits(C(state))
    BY <1>1, <2>2 DEF CallbackFits, Result
  <2>4. CallbacksFit(core')
    BY <1>4, <2>1, <2>3
  <2> QED  BY <1>1, <1>3, <2>1, <2>4 DEF NextFits
<1>6. CASE GetNextHoleTask
  <2>1. Task({"next"}) /\ index' = index /\ state' = state
    BY <1>6 DEF GetNextHoleTask
  <2>2. PICK got : got = GetNextHole(index, t.call.from, t.call.depth)
    OBVIOUS
  <2>3. Called(got)
    BY <1>2, <1>6, <2>2 DEF GetNextHoleTask
  <2>4. TaskFits(t) /\ t.kind = "next"
    BY <1>3, <2>1
  <2>5. got.error = "ok" => HoleFits(got.hole)
    BY <1>1, <2>2, NextHoleFits
  <2>6. CallbackFits(C(got))
    BY <2>4, <2>5 DEF CallbackFits, Result, StateKinds
  <2>7. CallbacksFit(core')
    BY <1>4, <2>3, <2>6
  <2> QED  BY <1>1, <1>3, <2>1, <2>7 DEF NextFits
<1>7. CASE ValidateTask
  <2>1. Task({"validate"}) /\ index' = index /\ state' = state
    BY <1>7 DEF ValidateTask
  <2>2. PICK got : Called(got)
    BY <1>7 DEF ValidateTask
  <2>3. TaskFits(t) /\ t.kind = "validate"
    BY <1>3, <2>1
  <2>4. CallbackFits(C(got))
    BY <2>3 DEF CallbackFits, Result, StateKinds
  <2>5. CallbacksFit(core')
    BY <1>4, <2>2, <2>4
  <2> QED  BY <1>1, <1>3, <2>1, <2>5 DEF NextFits
<1>8. CASE SetDlgState
  <2>1. Task({"set", "eventset", "clearset"}) /\ index' = index /\ state' = Merged(t.new)
    BY <1>2, <1>8 DEF SetDlgState
  <2>2. TaskFits(t) /\ t.kind \in {"set", "eventset", "clearset"}
    BY <1>3, <2>1
  <2>3. NewFits(t.new)
    BY <2>2 DEF TaskFits
  <2>4. StateFits(state')
    BY <1>1, <2>1, <2>3, MergedFits
  <2>5. CASE t.kind = "clearset"
    <3>1. core' = core
      BY <1>2, <1>8, <2>5 DEF SetDlgState
    <3> QED  BY <1>1, <1>3, <2>1, <2>4, <3>1 DEF NextFits
  <2>6. CASE t.kind # "clearset"
    <3>1. PICK got : got = state'
      OBVIOUS
    <3>2. Called(got)
      BY <1>2, <1>8, <2>6, <3>1 DEF SetDlgState
    <3>3. CallbackFits(C(got))
      BY <2>2, <2>4, <2>6, <3>1 DEF CallbackFits, Result
    <3>4. CallbacksFit(core')
      BY <1>4, <3>2, <3>3
    <3> QED  BY <1>1, <1>3, <2>1, <2>4, <3>4 DEF NextFits
  <2> QED  BY <2>5, <2>6
<1>9. CASE UpdateHistory
  <2>1. /\ Task({"update", "eventupdate"}) /\ Called("ok") /\ state' = state
        /\ index' = InsertHistoryBlock(index, t.block, state.upTo, t.from, t.hasOlder)
    BY <1>2, <1>9 DEF UpdateHistory
  <2>2. TaskFits(t) /\ t.kind \in {"update", "eventupdate"}
    BY <1>3, <2>1
  <2>3. BlockFits(t.block)
    BY <2>2 DEF TaskFits, TailFits
  <2>4. IndexFits(index')
    BY <1>1, <2>1, <2>3, InsertFits
  <2>5. CallbackFits(C("ok"))
    BY <2>2 DEF CallbackFits, Result, StateKinds
  <2>6. CallbacksFit(core')
    BY <1>4, <2>1, <2>5
  <2> QED  BY <1>1, <1>3, <2>1, <2>4, <2>6 DEF NextFits
<1>10. CASE DeleteUpTo
  <2>1. /\ Task({"delete"}) /\ Called("ok") /\ index' = IndexAbove(index, t.upTo)
        /\ state' = IF t.upTo >= state.last THEN [state EXCEPT !.last = None] ELSE state
    BY <1>2, <1>10 DEF DeleteUpTo
  <2>2. TaskFits(t) /\ t.kind = "delete"
    BY <1>3, <2>1
  <2>3. t.upTo \in Nat
    BY <1>1, <2>2, LiveIds DEF TaskFits
  <2>4. StateFits(state')
    BY <1>1, <2>1 DEF StateFits, Opt
  <2>5. IndexFits(index')
    <3>1. posted \in Nat /\ IsIndex(index, posted) /\ LinksNameIds(index) /\ DeletedIn(index) \subseteq Erased
      BY <1>1, LiveIds DEF IndexFits
    <3>2. PICK new : new = IndexAbove(index, t.upTo)
      OBVIOUS
    <3>3. IsIndex(new, posted) /\ LinksNameIds(new)
      BY <2>3, <3>1, <3>2, AboveTypes
    <3>4. DeletedIn(new) \subseteq DeletedIn(index)
      BY <2>3, <3>1, <3>2, AboveCases DEF DeletedIn
    <3> QED  BY <2>1, <3>1, <3>2, <3>3, <3>4 DEF IndexFits
  <2>6. CallbackFits(C("ok"))
    BY <2>2 DEF CallbackFits, Result, StateKinds
  <2>7. CallbacksFit(core')
    BY <1>4, <2>1, <2>6
  <2> QED  BY <1>1, <1>3, <2>1, <2>4, <2>5, <2>7 DEF NextFits
<1>11. CASE DropHistory
  <2>1. Task({"drop"}) /\ index' = <<>> /\ state' = state /\ core' = core
    BY <1>11 DEF DropHistory
  <2>2. IndexFits(index')
    BY <2>1 DEF IndexFits, IsIndex, LinksNameIds, DeletedIn, Ids
  <2> QED  BY <1>1, <1>3, <2>1, <2>2 DEF NextFits
<1> QED  BY <1>5, <1>6, <1>7, <1>8, <1>9, <1>10, <1>11 DEF Archive

\* The callbacks of the core thread.
LEMMA CoreFits ==
    ASSUME DialogInv, Core
    PROVE  NextFits
<1>1. /\ ServerFits /\ StateFits(state) /\ IndexFits(index) /\ TasksFit(archive)
      /\ CallbacksFit(core) /\ NetFits(net) /\ EventFits(event)
  BY DEF DialogInv, DialogFits
<1>2. PICK c : c = Head(core)
  OBVIOUS
<1>3. PICK what, got : what = c.what /\ got = c.got
  OBVIOUS
<1>4. What = what /\ Got = got
  BY <1>2, <1>3 DEF What, Got
<1>5. ASSUME NEW kind, Callback(kind)
      PROVE  /\ CallbackFits(c) /\ what.kind = kind /\ TaskFits(what)
             /\ CallbacksFit(core') /\ StateFits(state') /\ IndexFits(index') /\ EventFits(event')
             /\ kind \in StateKinds => StateFits(got)
  <2>1. CallbackFits(c) /\ what.kind = kind /\ CallbacksFit(core')
    BY <1>1, <1>2, <1>3, <1>5, CallbackTaken
  <2>2. state' = state /\ index' = index /\ event' = event
    BY <1>5 DEF Callback
  <2>3. TaskFits(what) /\ (kind \in StateKinds => StateFits(got))
    BY <1>3, <2>1 DEF CallbackFits
  <2> QED  BY <1>1, <2>1, <2>2, <2>3
<1>6. ASSUME NEW t, TaskFits(t), PostTask(t) PROVE TasksFit(archive')
  BY <1>1, <1>6, PostOneFits
<1>7. net' = net => NetFits(net')
  BY <1>1
<1>8. archive' = archive => TasksFit(archive')
  BY <1>1
<1>9. \A call : TaskFits(NextHoleTask(call))
  BY DEF TaskFits, NextHoleTask
<1>10. CASE OnDownload
  <2>1. Callback("download") /\ net' = net
    BY <1>10 DEF OnDownload
  <2>2. PICK call : PostTask(NextHoleTask(call))
    BY <1>10 DEF OnDownload
  <2>3. TasksFit(archive')
    BY <1>6, <1>9, <2>2
  <2> QED  BY <1>5, <1>7, <2>1, <2>3 DEF NextFits
<1>11. CASE OnNextHole
  <2>1. /\ Callback("next") /\ net' = net
        /\ \/ archive' = archive
           \/ /\ got.error = "ok"
              /\ PostTask([kind |-> "limits", call |-> what.call, hole |-> got.hole])
    BY <1>4, <1>11 DEF OnNextHole
  <2>2. CASE archive' = archive
    BY <1>5, <1>7, <1>8, <2>1, <2>2 DEF NextFits
  <2>3. CASE /\ got.error = "ok"
             /\ PostTask([kind |-> "limits", call |-> what.call, hole |-> got.hole])
    <3>1. HoleFits(got.hole)
      BY <1>3, <1>5, <2>1, <2>3 DEF CallbackFits
    <3>2. PICK t : t = [kind |-> "limits", call |-> what.call, hole |-> got.hole]
      OBVIOUS
    <3>3. TaskFits(t)
      BY <3>1, <3>2 DEF TaskFits
    <3>4. TasksFit(archive')
      BY <1>6, <2>3, <3>2, <3>3
    <3> QED  BY <1>5, <1>7, <2>1, <3>4 DEF NextFits
  <2> QED  BY <2>1, <2>2, <2>3
<1>12. CASE OnLimits
  <2>1. Callback("limits") /\ archive' = archive
    BY <1>12 DEF OnLimits
  <2>2. HoleFits(what.hole) /\ StateFits(got)
    BY <1>5, <2>1 DEF TaskFits, StateKinds
  <2>3. NetFits(net')
    <3>1. \/ net' = net
          \/ \E depth : Send(Request(what.hole.from, what.hole.to, PageSize, got.version,
                             Validate(what.hole, depth, what.call)))
      BY <1>4, <1>12 DEF OnLimits
    <3>2. ASSUME NEW depth,
                 Send(Request(what.hole.from, what.hole.to, PageSize, got.version,
                              Validate(what.hole, depth, what.call)))
          PROVE  NetFits(net')
      <4>1. PICK then : then = Validate(what.hole, depth, what.call)
        OBVIOUS
      <4>2. PICK r : r = Request(what.hole.from, what.hole.to, PageSize, got.version, then)
        OBVIOUS
      <4>3. /\ r.from = what.hole.from /\ r.till = what.hole.to /\ r.count = PageSize
            /\ r.version = got.version /\ r.then = then /\ then.kind = "validate"
        BY <4>1, <4>2 DEF Request, Validate
      <4>4. RequestFits(r)
        BY <2>2, <4>3, DialogHistoryAssumption DEF RequestFits, HoleFits, StateFits
      <4>5. Send(r)
        BY <3>2, <4>1, <4>2
      <4> QED  BY <1>1, <4>4, <4>5, SendFits
    <3> QED  BY <1>7, <3>1, <3>2
  <2> QED  BY <1>5, <1>8, <2>1, <2>3 DEF NextFits
<1>13. CASE OnValidated
  <2>1. Callback("validate") /\ net' = net
    BY <1>13 DEF OnValidated
  <2>2. PICK call : PostTask(NextHoleTask(call))
    BY <1>13 DEF OnValidated
  <2>3. TasksFit(archive')
    BY <1>6, <1>9, <2>2
  <2> QED  BY <1>5, <1>7, <2>1, <2>3 DEF NextFits
<1>14. CASE OnAnswer
  <2>1. Callback("answer") /\ net' = net
        /\ PostTask([kind |-> "answered", req |-> what.req, answer |-> got])
    BY <1>4, <1>14 DEF OnAnswer
  <2>2. RequestFits(what.req) /\ AnswerFits(what.req, got)
    BY <1>3, <1>5, <2>1 DEF CallbackFits
  <2>3. PICK t : t = [kind |-> "answered", req |-> what.req, answer |-> got]
    OBVIOUS
  <2>4. TaskFits(t)
    BY <2>2, <2>3 DEF TaskFits
  <2>5. TasksFit(archive')
    BY <1>6, <2>1, <2>3, <2>4
  <2> QED  BY <1>5, <1>7, <2>1, <2>5 DEF NextFits
<1>15. CASE OnFailed
  <2>1. Callback("fail") /\ net' = net /\ (archive' = archive \/ PostTask(DownloadAll))
    BY <1>15 DEF OnFailed
  <2>2. TaskFits(DownloadAll)
    BY DEF DownloadAll, TaskFits
  <2>3. TasksFit(archive')
    BY <1>6, <1>8, <2>1, <2>2
  <2> QED  BY <1>5, <1>7, <2>1, <2>3 DEF NextFits
<1>16. CASE OnAnswered
  <2>1. Callback("answered") /\ net' = net
    BY <1>16 DEF OnAnswered
  <2>2. RequestFits(what.req) /\ AnswerFits(what.req, what.answer)
    BY <1>5, <2>1 DEF TaskFits
  <2>3. PICK new : new = [last |-> what.answer.last, upTo |-> None,
                          version |-> what.answer.version, known |-> 0]
    OBVIOUS
  <2>4. PICK t : t = [kind |-> "set", new |-> new, req |-> what.req, answer |-> what.answer]
    OBVIOUS
  <2>5. \/ PostTasks(<<[kind |-> "drop"]>> \o <<OpenTask>>)
        \/ PostTasks(<<[kind |-> "drop"]>> \o <<>>)
        \/ PostTask(t)
    BY <1>4, <1>16, <2>3, <2>4 DEF OnAnswered
  <2>6. TaskFits(t)
    <3>1. Len(erased) \in Nat
      BY <1>1, LiveIds
    <3>2. NewFits(new)
      BY <2>2, <2>3, <3>1 DEF NewFits, AnswerFits, RequestFits
    <3> QED  BY <2>2, <2>3, <2>4, <3>2 DEF TaskFits
  <2>7. TaskFits([kind |-> "drop"]) /\ TaskFits(OpenTask)
    BY DEF TaskFits, OpenTask
  <2>8. CASE PostTasks(<<[kind |-> "drop"]>> \o <<OpenTask>>)
    <3>1. PICK d, o : d = [kind |-> "drop"] /\ o = OpenTask
      OBVIOUS
    <3>2. PICK q : q = <<d>> \o <<o>>
      OBVIOUS
    <3>3. TasksFit(<<d>>) /\ TasksFit(<<o>>)
      BY <2>7, <3>1, TasksOf
    <3>4. TasksFit(q)
      BY <3>2, <3>3, QueueConcat DEF TasksFit
    <3>5. PostTasks(q)
      BY <2>8, <3>1, <3>2
    <3>6. TasksFit(archive')
      BY <1>1, <3>4, <3>5, PostFits
    <3> QED  BY <1>5, <1>7, <2>1, <3>6 DEF NextFits
  <2>9. CASE PostTasks(<<[kind |-> "drop"]>> \o <<>>)
    <3>1. PICK d : d = [kind |-> "drop"]
      OBVIOUS
    <3>2. PostTasks(<<d>>)
      BY <2>9, <3>1
    <3>3. TasksFit(<<d>>)
      BY <2>7, <3>1, TasksOf
    <3>4. TasksFit(archive')
      BY <1>1, <3>2, <3>3, PostFits
    <3> QED  BY <1>5, <1>7, <2>1, <3>4 DEF NextFits
  <2>10. CASE PostTask(t)
    <3>1. TasksFit(archive')
      BY <1>6, <2>6, <2>10
    <3> QED  BY <1>5, <1>7, <2>1, <3>1 DEF NextFits
  <2> QED  BY <2>5, <2>8, <2>9, <2>10
<1>17. CASE OnSet
  <2>1. Callback("set") /\ net' = net
    BY <1>17 DEF OnSet
  <2>2. RequestFits(what.req) /\ AnswerFits(what.req, what.answer)
    BY <1>5, <2>1 DEF TaskFits
  <2>3. PICK from : from = IF what.req.editing THEN None ELSE what.req.from
    OBVIOUS
  <2>4. PICK t : t = [kind |-> "update", block |-> what.answer.block, from |-> from,
                      hasOlder |-> what.answer.older, then |-> what.req.then]
    OBVIOUS
  <2>5. PostTask(t)
    BY <1>4, <1>17, <2>3, <2>4 DEF OnSet
  <2>6. from \in {None, what.req.from}
    BY <2>3
  <2>7. AllBelow(what.answer.block, from, what.answer.older, Live) /\ from \in Opt(1..posted)
    BY <2>2, <2>6 DEF AnswerFits, RequestFits, AllBelow, Opt
  <2>8. TaskFits(t)
    BY <2>2, <2>4, <2>7 DEF TaskFits, AnswerFits, RequestFits
  <2>9. TasksFit(archive')
    BY <1>6, <2>5, <2>8
  <2> QED  BY <1>5, <1>7, <2>1, <2>9 DEF NextFits
<1>18. CASE OnUpdated
  <2>1. Callback("update") /\ net' = net
        /\ (archive' = archive \/ (what.then # Nothing /\ PostTask(what.then)))
    BY <1>4, <1>18 DEF OnUpdated
  <2>2. what.then # Nothing => what.then.kind \in {"download", "validate"}
    BY <1>5, <2>1 DEF TaskFits
  <2>3. what.then # Nothing => TaskFits(what.then)
    BY <2>2 DEF TaskFits
  <2>4. TasksFit(archive')
    BY <1>6, <1>8, <2>1, <2>3
  <2> QED  BY <1>5, <1>7, <2>1, <2>4 DEF NextFits
<1>19. CASE OnOpen
  <2>1. Callback("open") /\ archive' = archive
        /\ Send(Request(None, None, 1, got.version, DownloadAll))
    BY <1>4, <1>19 DEF OnOpen
  <2>2. StateFits(got)
    BY <1>5, <2>1 DEF StateKinds
  <2>3. PICK r : r = Request(None, None, 1, got.version, DownloadAll)
    OBVIOUS
  <2>4. RequestFits(r)
    BY <2>2, <2>3 DEF RequestFits, Request, DownloadAll, StateFits, Opt, None
  <2>5. NetFits(net')
    BY <1>1, <2>1, <2>3, <2>4, SendFits
  <2> QED  BY <1>5, <1>8, <2>1, <2>5 DEF NextFits
<1>20. CASE OnEvent
  <2>1. Callback("event") /\ net' = net
    BY <1>20 DEF OnEvent
  <2>2. StateFits(what.news) /\ TailFits(what.tail)
    BY <1>5, <2>1 DEF TaskFits
  <2>3. PICK new : new = [last |-> what.news.last, upTo |-> what.news.upTo, version |-> 0,
                          known |-> what.news.version]
    OBVIOUS
  <2>4. PICK changes :
          PostTask([kind |-> "eventset", new |-> new, tail |-> what.tail, changes |-> changes])
    BY <1>4, <1>20, <2>3 DEF OnEvent
  <2>5. PICK t : t = [kind |-> "eventset", new |-> new, tail |-> what.tail, changes |-> changes]
    OBVIOUS
  <2>6. NewFits(new)
    <3>1. Len(erased) \in Nat
      BY <1>1, LiveIds
    <3> QED  BY <2>2, <2>3, <3>1 DEF NewFits, StateFits
  <2>7. TaskFits(t)
    BY <2>2, <2>3, <2>5, <2>6 DEF TaskFits
  <2>8. TasksFit(archive')
    BY <1>6, <2>4, <2>5, <2>7
  <2> QED  BY <1>5, <1>7, <2>1, <2>8 DEF NextFits
<1>21. CASE OnEventSet
  <2>1. Callback("eventset")
    BY <1>21 DEF OnEventSet
  <2>2. TailFits(what.tail) /\ StateFits(got)
    BY <1>5, <2>1 DEF TaskFits, StateKinds
  <2>3. NetFits(net')
    <3>1. \/ net' = net
          \/ Send([Request(None, None, 1, got.version, Nothing) EXCEPT !.editing = TRUE])
      BY <1>4, <1>21 DEF OnEventSet
    <3>2. PICK r : r = [Request(None, None, 1, got.version, Nothing) EXCEPT !.editing = TRUE]
      OBVIOUS
    <3>3. r.from = None /\ r.till = None /\ r.count = 1 /\ r.version = got.version /\ r.then = Nothing
      BY <3>2 DEF Request
    <3>4. RequestFits(r)
      BY <2>2, <3>3 DEF RequestFits, StateFits, Opt, None
    <3>5. Send(r) => NetFits(net')
      BY <1>1, <3>4, SendFits
    <3> QED  BY <1>7, <3>1, <3>2, <3>5
  <2>4. PICK d, cl : d = DeleteTask(got.upTo) /\ cl = [kind |-> "clear"]
    OBVIOUS
  <2>5. PICK t : t = [kind |-> "eventupdate", block |-> what.tail, from |-> None,
                      hasOlder |-> FALSE, changes |-> what.changes, state |-> got]
    OBVIOUS
  <2>6. PostTasks(<<d, cl>>) \/ PostTask(t)
    BY <1>4, <1>21, <2>4, <2>5 DEF OnEventSet
  <2>7. TaskFits(d) /\ TaskFits(cl)
    BY <2>2, <2>4 DEF TaskFits, DeleteTask, StateFits
  <2>8. TaskFits(t)
    BY <2>2, <2>5 DEF TaskFits
  <2>9. TasksFit(<<d, cl>>)
    BY <2>7, TasksOf
  <2>10. PostTasks(<<d, cl>>) => TasksFit(archive')
    BY <1>1, <2>9, PostFits
  <2>11. PostTask(t) => TasksFit(archive')
    BY <1>6, <2>8
  <2> QED  BY <1>5, <2>1, <2>3, <2>6, <2>10, <2>11 DEF NextFits
<1>22. CASE OnEventUpdated
  <2>1. Callback("eventupdate") /\ net' = net
    BY <1>22 DEF OnEventUpdated
  <2>2. StateFits(what.state)
    BY <1>5, <2>1 DEF TaskFits
  <2>3. PICK call, download, deletes :
          PostTasks((IF download THEN <<NextHoleTask(call)>> ELSE <<>>)
                    \o (IF deletes THEN <<DeleteTask(what.state.upTo)>> ELSE <<>>))
    BY <1>4, <1>22 DEF OnEventUpdated
  <2>4. PICK h, d : h = NextHoleTask(call) /\ d = DeleteTask(what.state.upTo)
    OBVIOUS
  <2>5. PICK a, b : /\ a = IF download THEN <<h>> ELSE <<>>
                    /\ b = IF deletes THEN <<d>> ELSE <<>>
    OBVIOUS
  <2>6. TaskFits(h) /\ TaskFits(d)
    BY <1>9, <2>2, <2>4 DEF TaskFits, DeleteTask, StateFits
  <2>7. TasksFit(a) /\ TasksFit(b)
    <3>1. (a = <<h>> \/ a = <<>>) /\ (b = <<d>> \/ b = <<>>)
      BY <2>5
    <3> QED  BY <2>6, <3>1, TasksOf
  <2>8. PICK q : q = a \o b
    OBVIOUS
  <2>9. TasksFit(q)
    BY <2>7, <2>8, QueueConcat DEF TasksFit
  <2>10. PostTasks(q)
    BY <2>3, <2>4, <2>5, <2>8
  <2>11. TasksFit(archive')
    BY <1>1, <2>9, <2>10, PostFits
  <2> QED  BY <1>5, <1>7, <2>1, <2>11 DEF NextFits
<1>23. CASE OnDeleted
  <2>1. Callback("delete") /\ net' = net /\ archive' = archive
    BY <1>23 DEF OnDeleted
  <2> QED  BY <1>5, <1>7, <1>8, <2>1 DEF NextFits
<1>24. CASE OnClear
  <2>1. Callback("clear") /\ net' = net
    BY <1>24 DEF OnClear
  <2>2. StateFits(got)
    BY <1>5, <2>1 DEF StateKinds
  <2>3. PICK new : new = [last |-> got.last, upTo |-> got.upTo, version |-> got.version,
                          known |-> 0]
    OBVIOUS
  <2>4. PICK t : t = [kind |-> "clearset", new |-> new]
    OBVIOUS
  <2>5. PostTask(t)
    BY <1>4, <1>24, <2>3, <2>4 DEF OnClear
  <2>6. TaskFits(t)
    BY <2>2, <2>3, <2>4 DEF TaskFits, NewFits, StateFits
  <2>7. TasksFit(archive')
    BY <1>6, <2>5, <2>6
  <2> QED  BY <1>5, <1>7, <2>1, <2>7 DEF NextFits
<1> QED
  BY <1>10, <1>11, <1>12, <1>13, <1>14, <1>15, <1>16, <1>17, <1>18, <1>19, <1>20, <1>21,
     <1>22, <1>23, <1>24 DEF Core

\* Every step keeps the invariant of the types.
LEMMA DialogStep ==
    ASSUME DialogInv, [Next]_vars
    PROVE  DialogInv'
<1>1. ServerFits' /\ ServerGrows
  BY ServerStep DEF DialogInv
<1>2. /\ ServerFits /\ StateFits(state) /\ IndexFits(index) /\ TasksFit(archive)
      /\ CallbacksFit(core) /\ NetFits(net) /\ EventFits(event)
  BY DEF DialogInv, DialogFits
<1>3. ASSUME Server \/ UNCHANGED vars PROVE NextFits
  <2>1. /\ state' = state /\ index' = index /\ archive' = archive /\ core' = core
        /\ net' = net /\ event' = event
    BY <1>3 DEF Server, Post, Erase, DeleteAll, vars, client, queues, wire
  <2> QED  BY <1>2, <2>1 DEF NextFits
<1>4. ASSUME User PROVE NextFits
  <2>1. /\ state' = state /\ index' = index /\ core' = core /\ net' = net /\ event' = event
    BY <1>4 DEF User, OpenDialog, Resume, wire
  <2>2. PICK t : PostTask(t) /\ (t = OpenTask \/ \E call : t = NextHoleTask(call))
    BY <1>4 DEF User, OpenDialog, Resume
  <2>3. TaskFits(t)
    BY <2>2 DEF TaskFits, OpenTask, NextHoleTask
  <2>4. TasksFit(archive')
    BY <1>2, <2>2, <2>3, PostOneFits
  <2> QED  BY <1>2, <2>1, <2>4 DEF NextFits
<1>5. NextFits
  <2>1. \/ Core \/ Archive \/ Network
        \/ Server \/ User
        \/ UNCHANGED vars
    BY DEF Next, Others
  <2> QED  BY <1>3, <1>4, <2>1, CoreFits, ArchiveFits, NetworkFits
<1> QED
  BY <1>1, <1>5, DialogStays DEF DialogInv, NextFits

\* At first nothing is under way and the index is empty.
LEMMA DialogInit ==
    ASSUME Init
    PROVE  DialogInv
<1>1. ServerFits
  BY DialogHistoryAssumption DEF Init, ServerFits
<1>2. posted \in Nat /\ upTo = 0 /\ Len(erased) = 0
  BY DialogHistoryAssumption DEF Init
<1>3. StateFits(state)
  BY <1>2 DEF Init, StateFits, Opt
<1>4. IndexFits(index)
  BY DEF Init, IndexFits, IsIndex, LinksNameIds, DeletedIn, Ids
<1>5. TasksFit(archive) /\ CallbacksFit(core) /\ NetFits(net)
  BY QueueOfFew DEF Init, TasksFit, CallbacksFit, NetFits
<1>6. EventFits(event)
  BY DEF Init, EventFits
<1> QED  BY <1>1, <1>3, <1>4, <1>5, <1>6 DEF DialogInv, DialogFits

\* TypeOK is part of that: what the server has and has erased, the links of the index
\* going back to earlier messages, and the state of the dialog.
LEMMA DialogTypes ==
    ASSUME DialogInv
    PROVE  TypeOK
<1>1. /\ posted \in 0..MaxId /\ upTo \in 0..posted /\ Len(erased) <= MaxErased
      /\ Len(erased) \in Nat /\ posted \in Nat /\ upTo \in Nat /\ upTo <= posted
      /\ Erased \in SUBSET (1..posted)
  BY LiveIds DEF DialogInv, ServerFits
<1>2. IsIndex(index, posted) /\ LinksNameIds(index)
  BY DEF DialogInv, DialogFits, IndexFits
<1>3. (1..posted) \subseteq Ids0 /\ 0..upTo \subseteq 0..MaxId /\ 0..Len(erased) \subseteq 0..MaxErased
  BY <1>1, DialogHistoryAssumption DEF Ids0
<1>4. ASSUME NEW id \in Ids(index)
      PROVE  index[id] \in [prev : Opt(1..(id - 1)), patch : BOOLEAN, deleted : BOOLEAN]
  <2>1. index[id] \in [prev : Int, patch : BOOLEAN, deleted : BOOLEAN]
    BY <1>2 DEF IsIndex, Header
  <2>2. index[id].prev \in Opt(1..(id - 1))
    BY <1>2 DEF LinksNameIds, Opt
  <2> QED  BY <2>1, <2>2
<1>5. state \in [last : Opt(Ids0), upTo : 0..MaxId, version : 0..MaxErased]
  <2>1. state \in [last : Opt(1..posted), upTo : 0..upTo, version : 0..Len(erased)]
    BY DEF DialogInv, DialogFits, StateFits
  <2>2. Opt(1..posted) \subseteq Opt(Ids0)
    BY <1>3 DEF Opt
  <2> QED  BY <1>3, <2>1, <2>2
<1> QED  BY <1>1, <1>2, <1>3, <1>4, <1>5 DEF TypeOK, IsIndex

\* Whatever is under way between the server, the core thread and the archive thread is what
\* the server has or had: answers, states read before they are set, pages and patches of an
\* index that has changed since (get_history_from_server, on_history_insert).
THEOREM DialogAlwaysFits == Spec => []DialogInv
<1>1. DialogInv /\ [Next]_vars => DialogInv'
  BY DialogStep
<1> QED  BY <1>1, DialogInit, PTL DEF Spec

\* TypeOK, of every dialog: whatever answers insert_history_block() and delete_up_to() are
\* called with, every header names an earlier message, or none.
THEOREM TypesHold == Spec => []TypeOK
<1>1. DialogInv => TypeOK
  BY DialogTypes
<1> QED  BY <1>1, DialogAlwaysFits, PTL

-----------------------------------------------------------------------------
(* The blocks on their way from the server into the index, and the order in *)
(* which they come.                                                         *)

\* How far an answer is: 0 at the server, 1 with the core thread, 2 with the archive
\* thread that reads the state, and so on to 6, where its block waits to be inserted.
CallStage(c) ==
    CASE c.what.kind = "answer" -> 1
      [] c.what.kind = "answered" -> 3
      [] c.what.kind = "set" -> 5
      [] OTHER -> None
CallBlock(c) == IF c.what.kind = "answer" THEN c.got.block ELSE c.what.answer.block
TaskStage(t) ==
    CASE t.kind = "answered" -> 2
      [] t.kind = "set" -> 4
      [] t.kind = "update" -> 6
      [] OTHER -> None
TaskBlock(t) == IF t.kind = "update" THEN t.block ELSE t.answer.block

\* The blocks that are so far.
NetBlocks(ns, s) == {ns[i].answer[1].block : i \in {j \in DOMAIN ns : s = 0 /\ ns[j].answer # <<>>}}
CallBlocks(cs, s) == {CallBlock(c) : c \in {d \in ToSet(cs) : CallStage(d) = s}}
TaskBlocks(ts, s) == {TaskBlock(t) : t \in {u \in ToSet(ts) : TaskStage(u) = s}}
Blocks(s) == NetBlocks(net, s) \union CallBlocks(core, s) \union TaskBlocks(archive, s)
Stages == 0..6

\* A block that comes behind another has no message the other erases: it was answered
\* after that message was erased.
Behind(b, c) == MessagesOf(b) \intersect PatchesOf(c) = {}
CallsInOrder(cs) ==
    \A i, j \in DOMAIN cs :
        i < j /\ CallStage(cs[i]) \in Stages /\ CallStage(cs[i]) = CallStage(cs[j])
            => Behind(CallBlock(cs[j]), CallBlock(cs[i]))
TasksInOrder(ts) ==
    \A i, j \in DOMAIN ts :
        i < j /\ TaskStage(ts[i]) \in Stages /\ TaskStage(ts[i]) = TaskStage(ts[j])
            => Behind(TaskBlock(ts[j]), TaskBlock(ts[i]))
AnswersInOrder ==
    /\ CallsInOrder(core) /\ TasksInOrder(archive)
    /\ \A s, t \in Stages : s < t => \A b \in Blocks(s), c \in Blocks(t) : Behind(b, c)

\* No message is on its way that is marked as deleted already.
NothingReturns ==
    \A s \in Stages : \A b \in Blocks(s) : MessagesOf(b) \intersect DeletedIn(index) = {}

\* No live message is left out between a header and the one it names.
IndexIsSound == ~late => PatchesApart(index) /\ NothingBetween(index, Live)

\* The patch versions there are of the dialog: that of its state, and those that were
\* read from it and may yet be asked for or set again.
CallVersions(c) ==
    IF c.what.kind \in {"open", "limits", "clear", "eventset"} THEN {c.got.version}
    ELSE IF c.what.kind \in {"answer", "answered"} THEN {c.what.req.version}
    ELSE {}
TaskVersions(t) ==
    IF t.kind \in {"answered", "set"} THEN {t.req.version}
    ELSE IF t.kind = "clearset" THEN {t.new.version}
    ELSE {}

\* What was erased and is no longer shown, or will not be once the blocks on their way
\* are inserted.
Shows(q) == q \in Shown(index) /\ q > state.upTo
Gone(q) == ~Shows(q) /\ \A s \in Stages : \A b \in Blocks(s) : q \notin MessagesOf(b)
PatchWaits(q) == \E s \in {5, 6} : \E b \in Blocks(s) : q \in PatchesOf(b)
Settled(q) == Gone(q) \/ PatchWaits(q)
Known(v) == \A i \in 1..v : Settled(erased[i])
VersionsKnown ==
    ~late =>
        /\ Known(state.version)
        /\ \A i \in DOMAIN net : Known(net[i].req.version)
        /\ \A c \in ToSet(core) : \A v \in CallVersions(c) : Known(v)
        /\ \A t \in ToSet(archive) : \A v \in TaskVersions(t) : Known(v)

\* What is read of up to where the history is deleted is not more than is set; an event
\* that would set more says so.
CallDeletes(c) == c.what.kind \in {"event", "clear"} => c.got.upTo <= state.upTo
TaskDeletes(t) ==
    /\ t.kind \in {"set", "clearset"} => t.new.upTo <= state.upTo
    /\ t.kind = "eventset" => t.new.upTo <= state.upTo \/ t.changes.upTo
\* The index is deleted up to there, or will be.
CallWillDelete(c) ==
    \/ c.what.kind = "eventset" /\ c.what.changes.upTo /\ state.upTo <= c.got.upTo
    \/ c.what.kind = "eventupdate" /\ c.what.changes.upTo /\ state.upTo <= c.what.state.upTo
TaskWillDelete(t) ==
    \/ t.kind = "eventupdate" /\ t.changes.upTo /\ state.upTo <= t.state.upTo
    \/ t.kind = "delete" /\ state.upTo <= t.upTo
DeletedUpTo ==
    /\ \A c \in ToSet(core) : CallDeletes(c)
    /\ \A t \in ToSet(archive) : TaskDeletes(t)
    /\ \/ \A id \in Ids(index) : id > state.upTo
       \/ \E c \in ToSet(core) : CallWillDelete(c)
       \/ \E t \in ToSet(archive) : TaskWillDelete(t)

-----------------------------------------------------------------------------
(* Queues of tasks and of callbacks, and the blocks in them.               *)

\* The first task is taken: its block was ahead of the others that are as far.
LEMMA TaskGoes ==
    ASSUME NEW q, IsQueue(q), q # <<>>, TasksInOrder(q)
    PROVE  /\ TasksInOrder(Tail(q))
           /\ \A s \in Stages : \A c \in TaskBlocks(Tail(q), s) : c \in TaskBlocks(q, s)
           /\ \A s \in Stages : \A c \in TaskBlocks(q, s) :
                 c \in TaskBlocks(Tail(q), s) \/ (s = TaskStage(Head(q)) /\ c = TaskBlock(Head(q)))
           /\ \A s \in Stages : s = TaskStage(Head(q)) =>
                 /\ TaskBlock(Head(q)) \in TaskBlocks(q, s)
                 /\ \A c \in TaskBlocks(Tail(q), s) : Behind(c, TaskBlock(Head(q)))
<1>1. PICK S : S = ToSet(q) /\ q \in Seq(S)
  BY DEF IsQueue
<1>2. PICK r, h : r = Tail(q) /\ h = Head(q)
  OBVIOUS
<1>3. /\ Len(q) \in Nat /\ Len(q) # 0 /\ DOMAIN q = 1..Len(q) /\ r \in Seq(S)
      /\ DOMAIN r = 1..(Len(q) - 1) /\ h = q[1]
      /\ \A i \in 1..(Len(q) - 1) : r[i] = q[i + 1]
  BY <1>1, <1>2
<1>4. \A i \in DOMAIN r : i \in Int /\ i + 1 \in DOMAIN q /\ 1 \in DOMAIN q /\ 1 < i + 1 /\ r[i] = q[i + 1]
  BY <1>3
<1>5. TasksInOrder(r)
  <2> SUFFICES ASSUME NEW i \in DOMAIN r, NEW j \in DOMAIN r, i < j,
                      TaskStage(r[i]) \in Stages, TaskStage(r[i]) = TaskStage(r[j])
               PROVE  Behind(TaskBlock(r[j]), TaskBlock(r[i]))
    BY DEF TasksInOrder
  <2>1. i + 1 \in DOMAIN q /\ j + 1 \in DOMAIN q /\ r[i] = q[i + 1] /\ r[j] = q[j + 1]
    BY <1>4
  <2>2. i + 1 < j + 1
    BY <1>4
  <2> QED  BY <2>1, <2>2 DEF TasksInOrder
<1>6. \A t \in ToSet(r) : \E i \in DOMAIN r : r[i] = t
  BY DEF ToSet
<1>7. ASSUME NEW t \in ToSet(r), TaskStage(h) \in Stages, TaskStage(t) = TaskStage(h)
      PROVE  Behind(TaskBlock(t), TaskBlock(h))
  <2>1. PICK i \in DOMAIN r : r[i] = t
    BY <1>6
  <2>2. 1 \in DOMAIN q /\ i + 1 \in DOMAIN q /\ 1 < i + 1 /\ q[1] = h /\ q[i + 1] = t
    BY <1>3, <1>4, <2>1
  <2> QED  BY <1>7, <2>2 DEF TasksInOrder
<1>8. ToSet(q) = ToSet(r) \union {h}
  BY <1>1, <1>2, ToSetTail
<1>9. \A s : TaskBlocks(r, s) \subseteq TaskBlocks(q, s)
  BY <1>8 DEF TaskBlocks
<1>10. \A s : \A c \in TaskBlocks(q, s) : c \in TaskBlocks(r, s) \/ (s = TaskStage(h) /\ c = TaskBlock(h))
  BY <1>8 DEF TaskBlocks
<1>11. \A s : s = TaskStage(h) => TaskBlock(h) \in TaskBlocks(q, s)
  BY <1>8 DEF TaskBlocks
<1>12. \A s \in Stages : s = TaskStage(h) => \A c \in TaskBlocks(r, s) : Behind(c, TaskBlock(h))
  BY <1>7 DEF TaskBlocks
<1> QED  BY <1>2, <1>5, <1>9, <1>10, <1>11, <1>12

\* Tasks come behind those there are.
LEMMA TasksCome ==
    ASSUME NEW q, IsQueue(q), NEW r, IsQueue(r), TasksInOrder(q), TasksInOrder(r),
           \A s \in Stages : \A c \in TaskBlocks(q, s), d \in TaskBlocks(r, s) : Behind(d, c)
    PROVE  /\ TasksInOrder(q \o r)
           /\ \A s : TaskBlocks(q \o r, s) = TaskBlocks(q, s) \union TaskBlocks(r, s)
<1>1. PICK S : S = ToSet(q) \union ToSet(r)
  OBVIOUS
<1>2. q \in Seq(S) /\ r \in Seq(S)
  BY <1>1, SeqMonotonic DEF IsQueue
<1>3. PICK p : p = q \o r
  OBVIOUS
<1>4. /\ Len(q) \in Nat /\ Len(r) \in Nat /\ DOMAIN q = 1..Len(q) /\ DOMAIN r = 1..Len(r)
      /\ DOMAIN p = 1..(Len(q) + Len(r))
      /\ \A i \in DOMAIN p : p[i] = IF i <= Len(q) THEN q[i] ELSE r[i - Len(q)]
  BY <1>2, <1>3, ConcatProperties
<1>5. \A x : x \in ToSet(p) <=> x \in ToSet(q) \/ x \in ToSet(r)
  BY ONLY <1>2, <1>3, ToSetOfConcat
<1>6. \A s : TaskBlocks(p, s) = TaskBlocks(q, s) \union TaskBlocks(r, s)
  BY <1>5 DEF TaskBlocks
<1>7. \A i \in DOMAIN p :
         /\ i \in Int
         /\ i <= Len(q) => i \in DOMAIN q /\ p[i] = q[i]
         /\ ~(i <= Len(q)) => i - Len(q) \in DOMAIN r /\ p[i] = r[i - Len(q)]
  BY <1>4
<1>8. /\ \A i \in DOMAIN q : q[i] \in ToSet(q)
      /\ \A i \in DOMAIN r : r[i] \in ToSet(r)
  BY DEF ToSet
<1>9. TasksInOrder(p)
  <2> SUFFICES ASSUME NEW i \in DOMAIN p, NEW j \in DOMAIN p, i < j,
                      TaskStage(p[i]) \in Stages, TaskStage(p[i]) = TaskStage(p[j])
               PROVE  Behind(TaskBlock(p[j]), TaskBlock(p[i]))
    BY DEF TasksInOrder
  <2>1. CASE j <= Len(q)
    <3>1. i <= Len(q)
      BY <1>4, <1>7, <2>1
    <3> QED  BY <1>7, <2>1, <3>1 DEF TasksInOrder
  <2>2. CASE i <= Len(q) /\ ~(j <= Len(q))
    <3>1. p[i] \in ToSet(q) /\ p[j] \in ToSet(r)
      BY <1>7, <1>8, <2>2
    <3>2. PICK s \in Stages : s = TaskStage(p[i])
      OBVIOUS
    <3>3. TaskBlock(p[i]) \in TaskBlocks(q, s) /\ TaskBlock(p[j]) \in TaskBlocks(r, s)
      BY <3>1, <3>2 DEF TaskBlocks
    <3> QED  BY <3>3
  <2>3. CASE ~(i <= Len(q)) /\ ~(j <= Len(q))
    <3>1. i - Len(q) < j - Len(q)
      BY <1>4, <1>7
    <3>2. PICK a \in DOMAIN r, b \in DOMAIN r : a < b /\ p[i] = r[a] /\ p[j] = r[b]
      BY <1>7, <2>3, <3>1
    <3> QED  BY <3>2 DEF TasksInOrder
  <2> QED  BY <2>1, <2>2, <2>3
<1> QED  BY <1>3, <1>6, <1>9

\* The same of the callbacks: the first one is run.
LEMMA CallGoes ==
    ASSUME NEW q, IsQueue(q), q # <<>>, CallsInOrder(q)
    PROVE  /\ CallsInOrder(Tail(q))
           /\ \A s \in Stages : \A c \in CallBlocks(Tail(q), s) : c \in CallBlocks(q, s)
           /\ \A s \in Stages : \A c \in CallBlocks(q, s) :
                 c \in CallBlocks(Tail(q), s) \/ (s = CallStage(Head(q)) /\ c = CallBlock(Head(q)))
           /\ \A s \in Stages : s = CallStage(Head(q)) =>
                 /\ CallBlock(Head(q)) \in CallBlocks(q, s)
                 /\ \A c \in CallBlocks(Tail(q), s) : Behind(c, CallBlock(Head(q)))
<1>1. PICK S : S = ToSet(q) /\ q \in Seq(S)
  BY DEF IsQueue
<1>2. PICK r, h : r = Tail(q) /\ h = Head(q)
  OBVIOUS
<1>3. /\ Len(q) \in Nat /\ Len(q) # 0 /\ DOMAIN q = 1..Len(q) /\ r \in Seq(S)
      /\ DOMAIN r = 1..(Len(q) - 1) /\ h = q[1]
      /\ \A i \in 1..(Len(q) - 1) : r[i] = q[i + 1]
  BY <1>1, <1>2
<1>4. \A i \in DOMAIN r : i \in Int /\ i + 1 \in DOMAIN q /\ 1 \in DOMAIN q /\ 1 < i + 1 /\ r[i] = q[i + 1]
  BY <1>3
<1>5. CallsInOrder(r)
  <2> SUFFICES ASSUME NEW i \in DOMAIN r, NEW j \in DOMAIN r, i < j,
                      CallStage(r[i]) \in Stages, CallStage(r[i]) = CallStage(r[j])
               PROVE  Behind(CallBlock(r[j]), CallBlock(r[i]))
    BY DEF CallsInOrder
  <2>1. i + 1 \in DOMAIN q /\ j + 1 \in DOMAIN q /\ r[i] = q[i + 1] /\ r[j] = q[j + 1]
    BY <1>4
  <2>2. i + 1 < j + 1
    BY <1>4
  <2> QED  BY <2>1, <2>2 DEF CallsInOrder
<1>6. \A t \in ToSet(r) : \E i \in DOMAIN r : r[i] = t
  BY DEF ToSet
<1>7. ASSUME NEW t \in ToSet(r), CallStage(h) \in Stages, CallStage(t) = CallStage(h)
      PROVE  Behind(CallBlock(t), CallBlock(h))
  <2>1. PICK i \in DOMAIN r : r[i] = t
    BY <1>6
  <2>2. 1 \in DOMAIN q /\ i + 1 \in DOMAIN q /\ 1 < i + 1 /\ q[1] = h /\ q[i + 1] = t
    BY <1>3, <1>4, <2>1
  <2> QED  BY <1>7, <2>2 DEF CallsInOrder
<1>8. ToSet(q) = ToSet(r) \union {h}
  BY <1>1, <1>2, ToSetTail
<1>9. \A s : CallBlocks(r, s) \subseteq CallBlocks(q, s)
  BY <1>8 DEF CallBlocks
<1>10. \A s : \A c \in CallBlocks(q, s) : c \in CallBlocks(r, s) \/ (s = CallStage(h) /\ c = CallBlock(h))
  BY <1>8 DEF CallBlocks
<1>11. \A s : s = CallStage(h) => CallBlock(h) \in CallBlocks(q, s)
  BY <1>8 DEF CallBlocks
<1>12. \A s \in Stages : s = CallStage(h) => \A c \in CallBlocks(r, s) : Behind(c, CallBlock(h))
  BY <1>7 DEF CallBlocks
<1> QED  BY <1>2, <1>5, <1>9, <1>10, <1>11, <1>12

\* Callbacks come behind those there are.
LEMMA CallsCome ==
    ASSUME NEW q, IsQueue(q), NEW r, IsQueue(r), CallsInOrder(q), CallsInOrder(r),
           \A s \in Stages : \A c \in CallBlocks(q, s), d \in CallBlocks(r, s) : Behind(d, c)
    PROVE  /\ CallsInOrder(q \o r)
           /\ \A s : CallBlocks(q \o r, s) = CallBlocks(q, s) \union CallBlocks(r, s)
<1>1. PICK S : S = ToSet(q) \union ToSet(r)
  OBVIOUS
<1>2. q \in Seq(S) /\ r \in Seq(S)
  BY <1>1, SeqMonotonic DEF IsQueue
<1>3. PICK p : p = q \o r
  OBVIOUS
<1>4. /\ Len(q) \in Nat /\ Len(r) \in Nat /\ DOMAIN q = 1..Len(q) /\ DOMAIN r = 1..Len(r)
      /\ DOMAIN p = 1..(Len(q) + Len(r))
      /\ \A i \in DOMAIN p : p[i] = IF i <= Len(q) THEN q[i] ELSE r[i - Len(q)]
  BY <1>2, <1>3, ConcatProperties
<1>5. \A x : x \in ToSet(p) <=> x \in ToSet(q) \/ x \in ToSet(r)
  BY ONLY <1>2, <1>3, ToSetOfConcat
<1>6. \A s : CallBlocks(p, s) = CallBlocks(q, s) \union CallBlocks(r, s)
  BY <1>5 DEF CallBlocks
<1>7. \A i \in DOMAIN p :
         /\ i \in Int
         /\ i <= Len(q) => i \in DOMAIN q /\ p[i] = q[i]
         /\ ~(i <= Len(q)) => i - Len(q) \in DOMAIN r /\ p[i] = r[i - Len(q)]
  BY <1>4
<1>8. /\ \A i \in DOMAIN q : q[i] \in ToSet(q)
      /\ \A i \in DOMAIN r : r[i] \in ToSet(r)
  BY DEF ToSet
<1>9. CallsInOrder(p)
  <2> SUFFICES ASSUME NEW i \in DOMAIN p, NEW j \in DOMAIN p, i < j,
                      CallStage(p[i]) \in Stages, CallStage(p[i]) = CallStage(p[j])
               PROVE  Behind(CallBlock(p[j]), CallBlock(p[i]))
    BY DEF CallsInOrder
  <2>1. CASE j <= Len(q)
    <3>1. i <= Len(q)
      BY <1>4, <1>7, <2>1
    <3> QED  BY <1>7, <2>1, <3>1 DEF CallsInOrder
  <2>2. CASE i <= Len(q) /\ ~(j <= Len(q))
    <3>1. p[i] \in ToSet(q) /\ p[j] \in ToSet(r)
      BY <1>7, <1>8, <2>2
    <3>2. PICK s \in Stages : s = CallStage(p[i])
      OBVIOUS
    <3>3. CallBlock(p[i]) \in CallBlocks(q, s) /\ CallBlock(p[j]) \in CallBlocks(r, s)
      BY <3>1, <3>2 DEF CallBlocks
    <3> QED  BY <3>3
  <2>3. CASE ~(i <= Len(q)) /\ ~(j <= Len(q))
    <3>1. i - Len(q) < j - Len(q)
      BY <1>4, <1>7
    <3>2. PICK a \in DOMAIN r, b \in DOMAIN r : a < b /\ p[i] = r[a] /\ p[j] = r[b]
      BY <1>7, <2>3, <3>1
    <3> QED  BY <3>2 DEF CallsInOrder
  <2> QED  BY <2>1, <2>2, <2>3
<1> QED  BY <1>3, <1>6, <1>9

\* Few tasks are in order, and bring what blocks they have.
LEMMA FewTasks ==
    /\ TasksInOrder(<<>>) /\ \A s : TaskBlocks(<<>>, s) = {}
    /\ \A e : /\ TasksInOrder(<<e>>)
              /\ \A s : TaskBlocks(<<e>>, s) = IF TaskStage(e) = s THEN {TaskBlock(e)} ELSE {}
<1>1. TasksInOrder(<<>>) /\ \A s : TaskBlocks(<<>>, s) = {}
  BY QueueOfFew DEF TasksInOrder, TaskBlocks
<1>2. ASSUME NEW e
      PROVE  /\ TasksInOrder(<<e>>)
             /\ \A s : TaskBlocks(<<e>>, s) = IF TaskStage(e) = s THEN {TaskBlock(e)} ELSE {}
  <2>1. PICK q : q = <<e>>
    OBVIOUS
  <2>2. \A i, j \in DOMAIN q : ~(i < j)
    BY <2>1
  <2>3. TasksInOrder(q)
    BY <2>2 DEF TasksInOrder
  <2>4. ToSet(q) = {e}
    BY <2>1 DEF ToSet
  <2>5. \A s : TaskBlocks(q, s) = IF TaskStage(e) = s THEN {TaskBlock(e)} ELSE {}
    BY <2>4 DEF TaskBlocks
  <2> QED  BY <2>1, <2>3, <2>5
<1> QED  BY <1>1, <1>2

\* One callback is in order.
LEMMA FewCalls ==
    \A e : /\ CallsInOrder(<<e>>)
           /\ \A s : CallBlocks(<<e>>, s) = IF CallStage(e) = s THEN {CallBlock(e)} ELSE {}
<1>2. ASSUME NEW e
      PROVE  /\ CallsInOrder(<<e>>)
             /\ \A s : CallBlocks(<<e>>, s) = IF CallStage(e) = s THEN {CallBlock(e)} ELSE {}
  <2>1. PICK q : q = <<e>>
    OBVIOUS
  <2>2. \A i, j \in DOMAIN q : ~(i < j)
    BY <2>1
  <2>3. CallsInOrder(q)
    BY <2>2 DEF CallsInOrder
  <2>4. ToSet(q) = {e}
    BY <2>1 DEF ToSet
  <2>5. \A s : CallBlocks(q, s) = IF CallStage(e) = s THEN {CallBlock(e)} ELSE {}
    BY <2>4 DEF CallBlocks
  <2> QED  BY <2>1, <2>3, <2>5
<1> QED  BY <1>2

\* A task of no block is posted, or one of a block that is behind those that are as far.
LEMMA TaskComes ==
    ASSUME NEW q, IsQueue(q), TasksInOrder(q), NEW e,
           TaskStage(e) \in Stages =>
               \A c \in TaskBlocks(q, TaskStage(e)) : Behind(TaskBlock(e), c)
    PROVE  /\ TasksInOrder(q \o <<e>>)
           /\ \A s : TaskBlocks(q \o <<e>>, s)
                     = TaskBlocks(q, s) \union IF TaskStage(e) = s THEN {TaskBlock(e)} ELSE {}
<1>1. PICK r : r = <<e>>
  OBVIOUS
<1>2. IsQueue(r) /\ TasksInOrder(r)
      /\ \A s : TaskBlocks(r, s) = IF TaskStage(e) = s THEN {TaskBlock(e)} ELSE {}
  BY <1>1, QueueOfFew, FewTasks
<1>3. \A s \in Stages : \A c \in TaskBlocks(q, s), d \in TaskBlocks(r, s) : Behind(d, c)
  BY <1>2
<1> QED  BY <1>1, <1>2, <1>3, TasksCome

\* A callback comes behind those there are.
LEMMA CallComes ==
    ASSUME NEW q, IsQueue(q), CallsInOrder(q), NEW e,
           CallStage(e) \in Stages =>
               \A c \in CallBlocks(q, CallStage(e)) : Behind(CallBlock(e), c)
    PROVE  /\ CallsInOrder(Append(q, e))
           /\ \A s : CallBlocks(Append(q, e), s)
                     = CallBlocks(q, s) \union IF CallStage(e) = s THEN {CallBlock(e)} ELSE {}
<1>1. PICK r : r = <<e>>
  OBVIOUS
<1>2. IsQueue(r) /\ CallsInOrder(r)
      /\ \A s : CallBlocks(r, s) = IF CallStage(e) = s THEN {CallBlock(e)} ELSE {}
  BY <1>1, QueueOfFew, FewCalls
<1>3. \A s \in Stages : \A c \in CallBlocks(q, s), d \in CallBlocks(r, s) : Behind(d, c)
  BY <1>2
<1>4. Append(q, e) = q \o r
  <2>1. PICK S : S = ToSet(q) \union {e}
    OBVIOUS
  <2>2. q \in Seq(S) /\ e \in S
    BY <2>1, SeqMonotonic DEF IsQueue
  <2> QED  BY ONLY <1>1, <2>2, AppendIsConcat
<1> QED  BY <1>2, <1>3, <1>4, CallsCome

-----------------------------------------------------------------------------
(* What a step does to the blocks on their way.                            *)

InOrderNext == TasksInOrder(archive') /\ CallsInOrder(core')

\* They stay where they are, or are dropped before the state is set.
Keeps ==
    /\ InOrderNext
    /\ \A s \in Stages : Blocks(s)' \subseteq Blocks(s)
    /\ \A s \in {5, 6} : Blocks(s) \subseteq Blocks(s)'

\* The first that is so far goes on.
Moves(s, b) ==
    /\ InOrderNext
    /\ s \in 0..5 /\ b \in Blocks(s) /\ b \in Blocks(s + 1)'
    /\ \A c \in Blocks(s)' : Behind(c, b)
    /\ \A t \in Stages : \A c \in Blocks(t)' : c \in Blocks(t) \/ (t = s + 1 /\ c = b)
    /\ \A t \in {5, 6} : \A c \in Blocks(t) : c \in Blocks(t)' \/ (t = s /\ c = b)

\* The server answers.
Serves(b) ==
    /\ InOrderNext
    /\ MessagesOf(b) \subseteq Live
    /\ \A t \in Stages : \A c \in Blocks(t)' : c \in Blocks(t) \/ (t = 0 /\ c = b)
    /\ \A t \in {5, 6} : Blocks(t) \subseteq Blocks(t)'

\* The first of all is inserted.
InsertsFirst(b) ==
    /\ InOrderNext
    /\ b \in Blocks(6)
    /\ \A t \in Stages : Blocks(t)' \subseteq Blocks(t)
    /\ \A t \in Stages : \A c \in Blocks(t)' : Behind(c, b)
    /\ \A t \in {5, 6} : \A c \in Blocks(t) : c \in Blocks(t)' \/ c = b

\* Where blocks are.
LEMMA BlocksAre ==
    /\ \A ns, s : s # 0 => NetBlocks(ns, s) = {}
    /\ \A cs, s : s \in Stages /\ s \notin {1, 3, 5} => CallBlocks(cs, s) = {}
    /\ \A ts, s : s \in Stages /\ s \notin {2, 4, 6} => TaskBlocks(ts, s) = {}
<1>1. \A c : CallStage(c) \in {1, 3, 5, None}
  BY DEF CallStage
<1>2. \A t : TaskStage(t) \in {2, 4, 6, None}
  BY DEF TaskStage
<1>3. None \notin Stages
  BY DEF None, Stages
<1>4. \A cs, s : s \in Stages /\ s \notin {1, 3, 5} => CallBlocks(cs, s) = {}
  BY <1>1, <1>3 DEF CallBlocks
<1>5. \A ts, s : s \in Stages /\ s \notin {2, 4, 6} => TaskBlocks(ts, s) = {}
  BY <1>2, <1>3 DEF TaskBlocks
<1> QED  BY <1>4, <1>5 DEF NetBlocks

\* The queues are queues.
LEMMA Queues ==
    ASSUME DialogInv
    PROVE  IsQueue(archive) /\ IsQueue(core) /\ IsQueue(net)
BY DEF DialogInv, DialogFits, TasksFit, CallbacksFit, NetFits

\* A request that is sent brings no block yet.
LEMMA SendBlocks ==
    ASSUME IsQueue(net), NEW r, Send(r)
    PROVE  \A s : NetBlocks(net', s) = NetBlocks(net, s)
<1>1. PICK e : e = Sent(r)
  OBVIOUS
<1>2. e.answer = <<>>
  BY <1>1 DEF Sent
<1>3. PICK q : q = Append(net, e)
  OBVIOUS
<1>4. net' = q
  BY <1>1, <1>3 DEF Send
<1>5. net \in Seq(ToSet(net) \union {e})
  BY SeqMonotonic DEF IsQueue
<1>6. /\ DOMAIN q = 1..(Len(net) + 1) /\ Len(net) \in Nat /\ DOMAIN net = 1..Len(net)
      /\ \A i \in 1..Len(net) : q[i] = net[i]
      /\ q[Len(net) + 1] = e
  BY <1>3, <1>5, AppendProperties
<1>7. \A i : i \in DOMAIN q /\ q[i].answer # <<>> <=> i \in DOMAIN net /\ net[i].answer # <<>>
  <2>1. \A i : i \in DOMAIN q <=> i \in DOMAIN net \/ i = Len(net) + 1
    BY <1>6
  <2>2. \A i \in DOMAIN net : q[i] = net[i]
    BY <1>6
  <2> QED  BY <1>2, <1>6, <2>1, <2>2
<1>8. \A i \in DOMAIN net : q[i] = net[i]
  BY <1>6
<1> QED  BY <1>4, <1>7, <1>8 DEF NetBlocks

\* The core thread runs a callback that hands no block on.
LEMMA CoreKeeps ==
    ASSUME DialogInv, AnswersInOrder, NEW kind, Callback(kind), kind # "set",
           \A s : NetBlocks(net', s) = NetBlocks(net, s),
           TasksInOrder(archive'),
           \A s \in Stages : TaskBlocks(archive', s) = TaskBlocks(archive, s)
    PROVE  Keeps
<1>1. core # <<>> /\ Head(core).what.kind = kind /\ core' = Tail(core) /\ IsQueue(core)
  BY Queues DEF Callback
<1>2. CallsInOrder(core)
  BY DEF AnswersInOrder
<1>3. PICK c : c = Head(core)
  OBVIOUS
<1>4. CallStage(c) # 5
  BY <1>1, <1>3 DEF CallStage, None
<1>5. /\ CallsInOrder(core')
      /\ \A s \in Stages : \A b \in CallBlocks(core', s) : b \in CallBlocks(core, s)
      /\ \A s \in Stages : \A b \in CallBlocks(core, s) :
            b \in CallBlocks(core', s) \/ (s = CallStage(c) /\ b = CallBlock(c))
  BY <1>1, <1>2, <1>3, CallGoes
<1>6. \A s \in Stages : \A b \in Blocks(s)' : b \in Blocks(s)
  BY <1>5 DEF Blocks
<1>7. \A s \in {5, 6} : \A b \in Blocks(s) : b \in Blocks(s)'
  <2>1. \A s \in {5, 6} : \A b \in CallBlocks(core, s) : b \in CallBlocks(core', s)
    <3>1. CallBlocks(core, 6) = {} /\ 5 \in Stages /\ 6 \in Stages
      BY BlocksAre DEF Stages
    <3> QED  BY <1>4, <1>5, <3>1
  <2>2. \A s \in {5, 6} : s \in Stages
    BY DEF Stages
  <2> QED  BY <2>1, <2>2 DEF Blocks
<1> QED  BY <1>5, <1>6, <1>7 DEF Keeps, InOrderNext

\* It hands one to the archive thread.
LEMMA CoreMoves ==
    ASSUME DialogInv, AnswersInOrder, NEW kind, Callback(kind), net' = net,
           NEW s \in {1, 3, 5}, CallStage(Head(core)) = s,
           NEW t, PostTask(t), TaskStage(t) = s + 1, TaskBlock(t) = CallBlock(Head(core))
    PROVE  Moves(s, TaskBlock(t))
<1>1. /\ core # <<>> /\ core' = Tail(core) /\ archive' = archive \o <<t>>
      /\ IsQueue(core) /\ IsQueue(archive)
  BY Queues DEF Callback, PostTask, PostTasks
<1>2. /\ CallsInOrder(core) /\ TasksInOrder(archive)
      /\ \A r, u \in Stages : r < u => \A b \in Blocks(r), c \in Blocks(u) : Behind(b, c)
  BY DEF AnswersInOrder
<1>3. PICK b : b = TaskBlock(t)
  OBVIOUS
<1>4. s \in Stages /\ s + 1 \in Stages /\ s < s + 1 /\ s \in 0..5
  BY DEF Stages
<1>5. /\ CallsInOrder(core')
      /\ \A r \in Stages : \A c \in CallBlocks(core', r) : c \in CallBlocks(core, r)
      /\ \A r \in Stages : \A c \in CallBlocks(core, r) :
            c \in CallBlocks(core', r) \/ (r = s /\ c = b)
      /\ b \in CallBlocks(core, s)
      /\ \A c \in CallBlocks(core', s) : Behind(c, b)
  BY <1>1, <1>2, <1>3, <1>4, CallGoes
<1>6. b \in Blocks(s)
  BY <1>5 DEF Blocks
<1>7. \A c \in TaskBlocks(archive, s + 1) : Behind(b, c)
  BY <1>2, <1>4, <1>6 DEF Blocks
<1>8. /\ TasksInOrder(archive')
      /\ \A r : TaskBlocks(archive', r)
                = TaskBlocks(archive, r) \union IF s + 1 = r THEN {b} ELSE {}
  BY <1>1, <1>2, <1>3, <1>7, TaskComes
<1>9. b \in Blocks(s + 1)'
  BY <1>8 DEF Blocks
<1>10. \A c \in Blocks(s)' : Behind(c, b)
  <2>1. NetBlocks(net', s) = {} /\ TaskBlocks(archive', s) = {}
    BY <1>4, BlocksAre
  <2> QED  BY <1>5, <2>1 DEF Blocks
<1>11. \A r \in Stages : \A c \in Blocks(r)' : c \in Blocks(r) \/ (r = s + 1 /\ c = b)
  BY <1>5, <1>8 DEF Blocks
<1>12. \A r \in {5, 6} : \A c \in Blocks(r) : c \in Blocks(r)' \/ (r = s /\ c = b)
  <2>1. \A r \in {5, 6} : r \in Stages
    BY DEF Stages
  <2> QED  BY <1>5, <1>8, <2>1 DEF Blocks
<1>13. Moves(s, b)
  BY <1>4, <1>5, <1>6, <1>8, <1>9, <1>10, <1>11, <1>12 DEF Moves, InOrderNext
<1> QED  BY <1>3, <1>13

\* The archive thread does a task that has no block.
LEMMA ArchiveKeeps ==
    ASSUME DialogInv, AnswersInOrder, NEW kinds, Task(kinds),
           TaskStage(Head(archive)) \notin Stages,
           CallsInOrder(core'),
           \A s \in Stages : CallBlocks(core', s) = CallBlocks(core, s)
    PROVE  Keeps
<1>1. archive # <<>> /\ archive' = Tail(archive) /\ net' = net /\ IsQueue(archive)
  BY Queues DEF Task
<1>2. TasksInOrder(archive)
  BY DEF AnswersInOrder
<1>3. /\ TasksInOrder(archive')
      /\ \A s \in Stages : \A b \in TaskBlocks(archive', s) : b \in TaskBlocks(archive, s)
      /\ \A s \in Stages : \A b \in TaskBlocks(archive, s) :
            b \in TaskBlocks(archive', s) \/ s = TaskStage(Head(archive))
  BY <1>1, <1>2, TaskGoes
<1>4. \A s \in Stages : \A b \in Blocks(s)' : b \in Blocks(s)
  BY <1>1, <1>3 DEF Blocks
<1>5. \A s \in {5, 6} : s \in Stages
  BY DEF Stages
<1>6. \A s \in {5, 6} : \A b \in Blocks(s) : b \in Blocks(s)'
  BY <1>1, <1>3, <1>5 DEF Blocks
<1> QED  BY <1>3, <1>4, <1>6 DEF Keeps, InOrderNext

\* Its callback has none either, as a rule.
LEMMA CallOfNone ==
    ASSUME DialogInv, AnswersInOrder, NEW c, core' = Append(core, c), CallStage(c) \notin Stages
    PROVE  CallsInOrder(core') /\ \A s \in Stages : CallBlocks(core', s) = CallBlocks(core, s)
<1>1. IsQueue(core) /\ CallsInOrder(core)
  BY Queues DEF AnswersInOrder
<1>2. /\ CallsInOrder(core')
      /\ \A s : CallBlocks(core', s)
                = CallBlocks(core, s) \union IF CallStage(c) = s THEN {CallBlock(c)} ELSE {}
  BY <1>1, CallComes
<1> QED  BY <1>2

\* It hands the block on to the core thread.
LEMMA ArchiveMoves ==
    ASSUME DialogInv, AnswersInOrder, NEW kinds, Task(kinds),
           NEW s \in {2, 4}, TaskStage(Head(archive)) = s,
           NEW c, core' = Append(core, c), CallStage(c) = s + 1,
           CallBlock(c) = TaskBlock(Head(archive))
    PROVE  Moves(s, CallBlock(c))
<1>1. archive # <<>> /\ archive' = Tail(archive) /\ net' = net /\ IsQueue(core) /\ IsQueue(archive)
  BY Queues DEF Task
<1>2. /\ CallsInOrder(core) /\ TasksInOrder(archive)
      /\ \A r, u \in Stages : r < u => \A b \in Blocks(r), d \in Blocks(u) : Behind(b, d)
  BY DEF AnswersInOrder
<1>3. PICK b : b = CallBlock(c)
  OBVIOUS
<1>4. s \in Stages /\ s + 1 \in Stages /\ s < s + 1 /\ s \in 0..5
  BY DEF Stages
<1>5. /\ TasksInOrder(archive')
      /\ \A r \in Stages : \A d \in TaskBlocks(archive', r) : d \in TaskBlocks(archive, r)
      /\ \A r \in Stages : \A d \in TaskBlocks(archive, r) :
            d \in TaskBlocks(archive', r) \/ (r = s /\ d = b)
      /\ b \in TaskBlocks(archive, s)
      /\ \A d \in TaskBlocks(archive', s) : Behind(d, b)
  BY <1>1, <1>2, <1>3, <1>4, TaskGoes
<1>6. b \in Blocks(s)
  BY <1>5 DEF Blocks
<1>7. \A d \in CallBlocks(core, s + 1) : Behind(b, d)
  BY <1>2, <1>4, <1>6 DEF Blocks
<1>8. /\ CallsInOrder(core')
      /\ \A r : CallBlocks(core', r)
                = CallBlocks(core, r) \union IF s + 1 = r THEN {b} ELSE {}
  BY <1>1, <1>2, <1>3, <1>7, CallComes
<1>9. b \in Blocks(s + 1)'
  BY <1>8 DEF Blocks
<1>10. \A d \in Blocks(s)' : Behind(d, b)
  <2>1. NetBlocks(net', s) = {} /\ CallBlocks(core', s) = {}
    BY <1>4, BlocksAre
  <2> QED  BY <1>5, <2>1 DEF Blocks
<1>11. \A r \in Stages : \A d \in Blocks(r)' : d \in Blocks(r) \/ (r = s + 1 /\ d = b)
  BY <1>1, <1>5, <1>8 DEF Blocks
<1>12. \A r \in {5, 6} : \A d \in Blocks(r) : d \in Blocks(r)' \/ (r = s /\ d = b)
  <2>1. \A r \in {5, 6} : r \in Stages
    BY DEF Stages
  <2> QED  BY <1>1, <1>5, <1>8, <2>1 DEF Blocks
<1>13. Moves(s, b)
  BY <1>4, <1>5, <1>6, <1>8, <1>9, <1>10, <1>11, <1>12 DEF Moves, InOrderNext
<1> QED  BY <1>3, <1>13

\* It inserts the block.
LEMMA ArchiveInserts ==
    ASSUME DialogInv, AnswersInOrder, UpdateHistory, Head(archive).kind = "update"
    PROVE  InsertsFirst(Head(archive).block)
<1>1. /\ archive # <<>> /\ archive' = Tail(archive) /\ net' = net /\ IsQueue(archive)
      /\ core' = Append(core, Result(Head(archive), "ok"))
  BY Queues DEF UpdateHistory, Task, Called
<1>2. PICK t : t = Head(archive)
  OBVIOUS
<1>3. TaskStage(t) = 6 /\ TaskBlock(t) = t.block /\ t.kind = "update"
  BY <1>2 DEF TaskStage, TaskBlock
<1>4. PICK b : b = t.block
  OBVIOUS
<1>5. PICK c : c = Result(t, "ok")
  OBVIOUS
<1>6. c.what.kind = "update"
  BY <1>3, <1>5 DEF Result
<1>7. CallStage(c) \notin Stages
  BY <1>6 DEF CallStage, Stages, None
<1>8. CallsInOrder(core') /\ \A s \in Stages : CallBlocks(core', s) = CallBlocks(core, s)
  BY <1>1, <1>2, <1>5, <1>7, CallOfNone
<1>9. TasksInOrder(archive) /\ 6 \in Stages
      /\ \A r, u \in Stages : r < u => \A d \in Blocks(r), e \in Blocks(u) : Behind(d, e)
  BY DEF AnswersInOrder, Stages
<1>a. /\ 6 = TaskStage(t) /\ t = Head(archive) /\ TaskBlock(t) = b
  BY <1>2, <1>3, <1>4
<1>10. /\ TasksInOrder(archive')
       /\ \A r \in Stages : \A d \in TaskBlocks(archive', r) : d \in TaskBlocks(archive, r)
       /\ \A r \in Stages : \A d \in TaskBlocks(archive, r) :
             d \in TaskBlocks(archive', r) \/ d = b
       /\ b \in TaskBlocks(archive, 6)
       /\ \A d \in TaskBlocks(archive', 6) : Behind(d, b)
  BY <1>1, <1>9, <1>a, TaskGoes
<1>11. b \in Blocks(6)
  BY <1>10 DEF Blocks
<1>12. \A r \in Stages : \A d \in Blocks(r)' : d \in Blocks(r)
  BY <1>1, <1>8, <1>10 DEF Blocks
<1>13. ASSUME NEW r \in Stages, NEW d \in Blocks(r)' PROVE Behind(d, b)
  <2>1. CASE r = 6
    <3>1. NetBlocks(net', 6) = {} /\ CallBlocks(core', 6) = {}
      BY <1>9, BlocksAre
    <3> QED  BY <1>10, <1>13, <2>1, <3>1 DEF Blocks
  <2>2. CASE r < 6
    <3>1. d \in Blocks(r)
      BY <1>12, <1>13
    <3> QED  BY <1>9, <1>11, <2>2, <3>1
  <2> QED  BY <2>1, <2>2 DEF Stages
<1>14. \A r \in {5, 6} : \A d \in Blocks(r) : d \in Blocks(r)' \/ d = b
  <2>1. \A r \in {5, 6} : r \in Stages
    BY DEF Stages
  <2> QED  BY <1>1, <1>8, <1>10, <2>1 DEF Blocks
<1>15. InsertsFirst(b)
  BY <1>8, <1>10, <1>11, <1>12, <1>13, <1>14 DEF InsertsFirst, InOrderNext
<1> QED  BY <1>2, <1>4, <1>15

\* The tasks of the archive thread.
LEMMA ArchiveBlocks ==
    ASSUME DialogInv, AnswersInOrder, Archive
    PROVE  \/ Keeps
           \/ index' = index /\ late' = late /\ \E s, b : Moves(s, b)
           \/ /\ UpdateHistory /\ Head(archive).kind = "update"
              /\ InsertsFirst(Head(archive).block)
<1>1. PICK t : t = Head(archive)
  OBVIOUS
<1>2. ASSUME NEW kinds, Task(kinds), "answer" \notin kinds, TaskStage(t) \notin Stages,
             core' = core \/ \E got : Called(got)
      PROVE  Keeps
  <2>1. CallsInOrder(core) /\ t.kind # "answer"
    BY <1>1, <1>2 DEF AnswersInOrder, Task
  <2>2. CASE core' = core
    BY <1>1, <1>2, <2>1, <2>2, ArchiveKeeps
  <2>3. CASE \E got : Called(got)
    <3>1. PICK got : Called(got)
      BY <2>3
    <3>2. PICK c : c = Result(t, got)
      OBVIOUS
    <3>3. core' = Append(core, c)
      BY <1>1, <3>1, <3>2 DEF Called
    <3>4. c.what = t
      BY <3>2 DEF Result
    <3>5. t.kind \notin {"answered", "set"}
      BY <1>2 DEF TaskStage, Stages
    <3>6. CallStage(c) \notin Stages
      BY <2>1, <3>4, <3>5 DEF CallStage, Stages, None
    <3>7. CallsInOrder(core') /\ \A s \in Stages : CallBlocks(core', s) = CallBlocks(core, s)
      BY <3>3, <3>6, CallOfNone
    <3> QED  BY <1>1, <1>2, <3>7, ArchiveKeeps
  <2> QED  BY <1>2, <2>2, <2>3
<1>3. ASSUME NEW kinds, Task(kinds), NEW got, Called(got), TaskStage(t) \in {2, 4},
             t.kind \in {"answered", "set"}
      PROVE  \E s, b : Moves(s, b)
  <2>1. PICK s \in {2, 4} : TaskStage(t) = s
    BY <1>3
  <2>2. PICK c : c = Result(t, got)
    OBVIOUS
  <2>3. core' = Append(core, c)
    BY <1>1, <1>3, <2>2 DEF Called
  <2>4. c.what = t
    BY <2>2 DEF Result
  <2>5. CallStage(c) = s + 1 /\ CallBlock(c) = TaskBlock(t)
    BY <1>3, <2>1, <2>4 DEF CallStage, TaskStage, CallBlock, TaskBlock
  <2>6. Moves(s, CallBlock(c))
    BY <1>1, <1>3, <2>1, <2>3, <2>5, ArchiveMoves
  <2> QED  BY <2>6
<1>4. ASSUME NEW kinds, Task(kinds) PROVE t.kind \in kinds
  BY <1>1, <1>4 DEF Task
<1>5. t.kind = "answered" => TaskStage(t) = 2
  BY DEF TaskStage
<1>6. t.kind = "set" => TaskStage(t) = 4
  BY DEF TaskStage
<1>7. t.kind \notin {"answered", "set", "update"} => TaskStage(t) \notin Stages
  BY DEF TaskStage, Stages, None
<1>8. CASE GetDlgState
  <2>1. PICK kinds : /\ kinds = {"download", "limits", "answered", "open", "event", "clear"}
                     /\ Task(kinds)
    BY <1>8 DEF GetDlgState
  <2>2. Called(state) /\ index' = index /\ late' = late /\ t.kind \in kinds /\ "answer" \notin kinds
    BY <1>4, <1>8, <2>1 DEF GetDlgState
  <2>3. CASE t.kind = "answered"
    BY <1>3, <1>5, <2>1, <2>2, <2>3
  <2>4. CASE t.kind # "answered"
    <3>1. TaskStage(t) \notin Stages
      BY <1>7, <2>1, <2>2, <2>4
    <3> QED  BY <1>2, <2>1, <2>2, <3>1
  <2> QED  BY <2>3, <2>4
<1>9. CASE GetNextHoleTask
  <2>1. PICK kinds : kinds = {"next"} /\ Task(kinds)
    BY <1>9 DEF GetNextHoleTask
  <2>2. (\E got : Called(got)) /\ t.kind = "next" /\ "answer" \notin kinds
    BY <1>4, <1>9, <2>1 DEF GetNextHoleTask
  <2> QED  BY <1>2, <1>7, <2>1, <2>2
<1>10. CASE ValidateTask
  <2>1. PICK kinds : kinds = {"validate"} /\ Task(kinds)
    BY <1>10 DEF ValidateTask
  <2>2. (\E got : Called(got)) /\ t.kind = "validate" /\ "answer" \notin kinds
    BY <1>4, <1>10, <2>1 DEF ValidateTask
  <2> QED  BY <1>2, <1>7, <2>1, <2>2
<1>11. CASE SetDlgState
  <2>1. PICK kinds : kinds = {"set", "eventset", "clearset"} /\ Task(kinds)
    BY <1>11 DEF SetDlgState
  <2>2. /\ core' = core \/ \E got : Called(got)
        /\ t.kind = "set" => \E got : Called(got)
        /\ index' = index /\ late' = late /\ t.kind \in kinds /\ "answer" \notin kinds
    BY <1>1, <1>4, <1>11, <2>1 DEF SetDlgState
  <2>3. CASE t.kind = "set"
    BY <1>3, <1>6, <2>1, <2>2, <2>3
  <2>4. CASE t.kind # "set"
    <3>1. TaskStage(t) \notin Stages
      BY <1>7, <2>1, <2>2, <2>4
    <3> QED  BY <1>2, <2>1, <2>2, <3>1
  <2> QED  BY <2>3, <2>4
<1>12. CASE UpdateHistory
  <2>1. PICK kinds : kinds = {"update", "eventupdate"} /\ Task(kinds)
    BY <1>12 DEF UpdateHistory
  <2>2. Called("ok") /\ t.kind \in kinds /\ "answer" \notin kinds
    BY <1>4, <1>12, <2>1 DEF UpdateHistory
  <2>3. CASE t.kind = "update"
    BY <1>1, <1>12, <2>3, ArchiveInserts
  <2>4. CASE t.kind # "update"
    <3>1. TaskStage(t) \notin Stages
      BY <1>7, <2>1, <2>2, <2>4
    <3> QED  BY <1>2, <2>1, <2>2, <3>1
  <2> QED  BY <2>3, <2>4
<1>13. CASE DeleteUpTo
  <2>1. PICK kinds : kinds = {"delete"} /\ Task(kinds)
    BY <1>13 DEF DeleteUpTo
  <2>2. Called("ok") /\ t.kind = "delete" /\ "answer" \notin kinds
    BY <1>4, <1>13, <2>1 DEF DeleteUpTo
  <2> QED  BY <1>2, <1>7, <2>1, <2>2
<1>14. CASE DropHistory
  <2>1. PICK kinds : kinds = {"drop"} /\ Task(kinds)
    BY <1>14 DEF DropHistory
  <2>2. core' = core /\ t.kind = "drop" /\ "answer" \notin kinds
    BY <1>4, <1>14, <2>1 DEF DropHistory
  <2> QED  BY <1>2, <1>7, <2>1, <2>2
<1> QED  BY <1>8, <1>9, <1>10, <1>11, <1>12, <1>13, <1>14 DEF Archive

\* Tasks that have no block.
NoBlocks(r) == IsQueue(r) /\ \A t \in ToSet(r) : TaskStage(t) \notin Stages

\* Few of them, or two queues of them.
LEMMA FewNoBlocks ==
    /\ NoBlocks(<<>>)
    /\ \A t : TaskStage(t) \notin Stages => NoBlocks(<<t>>)
    /\ \A t, u : TaskStage(t) \notin Stages /\ TaskStage(u) \notin Stages => NoBlocks(<<t, u>>)
    /\ \A q, r : NoBlocks(q) /\ NoBlocks(r) => NoBlocks(q \o r)
<1>1. /\ NoBlocks(<<>>)
      /\ \A t : TaskStage(t) \notin Stages => NoBlocks(<<t>>)
      /\ \A t, u : TaskStage(t) \notin Stages /\ TaskStage(u) \notin Stages => NoBlocks(<<t, u>>)
  BY QueueOfFew DEF NoBlocks
<1>2. ASSUME NEW q, NEW r, NoBlocks(q), NoBlocks(r) PROVE NoBlocks(q \o r)
  <2>1. IsQueue(q) /\ IsQueue(r)
    BY <1>2 DEF NoBlocks
  <2>2. PICK p : p = q \o r
    OBVIOUS
  <2>3. IsQueue(p) /\ \A x \in ToSet(p) : x \in ToSet(q) \/ x \in ToSet(r)
    BY <2>1, <2>2, QueueConcat
  <2> QED  BY <1>2, <2>2, <2>3 DEF NoBlocks
<1> QED  BY <1>1, <1>2

\* They change nothing for the blocks.
LEMMA PostNoBlocks ==
    ASSUME DialogInv, AnswersInOrder, NEW r, NoBlocks(r), PostTasks(r)
    PROVE  /\ TasksInOrder(archive')
           /\ \A s \in Stages : TaskBlocks(archive', s) = TaskBlocks(archive, s)
<1>1. IsQueue(archive) /\ TasksInOrder(archive) /\ IsQueue(r) /\ archive' = archive \o r
  BY Queues DEF AnswersInOrder, NoBlocks, PostTasks
<1>2. \A i \in DOMAIN r : r[i] \in ToSet(r)
  BY DEF ToSet
<1>3. TasksInOrder(r)
  BY <1>2 DEF TasksInOrder, NoBlocks
<1>4. \A s \in Stages : TaskBlocks(r, s) = {}
  BY DEF NoBlocks, TaskBlocks
<1>5. /\ TasksInOrder(archive')
      /\ \A s : TaskBlocks(archive', s) = TaskBlocks(archive, s) \union TaskBlocks(r, s)
  BY <1>1, <1>3, <1>4, TasksCome
<1> QED  BY <1>4, <1>5

\* A task without a block is posted.
LEMMA PostNoBlock ==
    ASSUME DialogInv, AnswersInOrder, NEW t, TaskStage(t) \notin Stages, PostTask(t)
    PROVE  /\ TasksInOrder(archive')
           /\ \A s \in Stages : TaskBlocks(archive', s) = TaskBlocks(archive, s)
<1>1. NoBlocks(<<t>>) /\ PostTasks(<<t>>)
  BY FewNoBlocks DEF PostTask
<1> QED  BY <1>1, PostNoBlocks

\* Which tasks have none.
LEMMA KindsOfNone ==
    \A t : t.kind \notin {"answered", "set", "update"} => TaskStage(t) \notin Stages
BY DEF TaskStage, Stages, None

\* A step that leaves the queues' blocks alone.
LEMMA KeepsSame ==
    ASSUME InOrderNext,
           \A s \in Stages : /\ NetBlocks(net', s) \subseteq NetBlocks(net, s)
                             /\ CallBlocks(core', s) = CallBlocks(core, s)
                             /\ TaskBlocks(archive', s) = TaskBlocks(archive, s)
    PROVE  Keeps
<1>1. \A s \in Stages : Blocks(s)' \subseteq Blocks(s)
  BY DEF Blocks
<1>2. \A s \in {5, 6} : NetBlocks(net, s) = {} /\ s \in Stages
  BY BlocksAre DEF Stages
<1>3. \A s \in {5, 6} : Blocks(s) \subseteq Blocks(s)'
  BY <1>2 DEF Blocks
<1> QED  BY <1>1, <1>3 DEF Keeps

\* The steps of the network.
LEMMA NetworkBlocks ==
    ASSUME DialogInv, AnswersInOrder, Network
    PROVE  \/ Keeps
           \/ \E s, b : Moves(s, b)
           \/ \E b : Serves(b)
<1>1. /\ ServerFits /\ NetFits(net) /\ IsQueue(archive) /\ IsQueue(core)
      /\ CallsInOrder(core) /\ TasksInOrder(archive)
  BY Queues DEF DialogInv, DialogFits, AnswersInOrder
<1>2. /\ net \in Seq(ToSet(net))
      /\ \A i \in DOMAIN net : SentFits(net[i]) /\ (i # 1 => net[i].answer = <<>>)
  BY <1>1 DEF NetFits, IsQueue
<1>3. net # <<>> =>
        /\ 1 \in DOMAIN net /\ Head(net) = net[1] /\ DOMAIN net = 1..Len(net) /\ Len(net) \in Nat
        /\ \A i \in DOMAIN Tail(net) : i + 1 \in DOMAIN net /\ Tail(net)[i] = net[i + 1] /\ i + 1 # 1
  BY <1>2
<1>4. net # <<>> => \A s : NetBlocks(Tail(net), s) = {}
  BY <1>2, <1>3 DEF NetBlocks
<1>5. CASE Serve
  <2>1. /\ net # <<>> /\ archive' = archive /\ core' = core
        /\ net' = [net EXCEPT ![1].answer = <<Answer(Head(net).req)>>]
    BY <1>5 DEF Serve
  <2>2. PICK e : e = net[1]
    OBVIOUS
  <2>3. PICK a : a = Answer(e.req)
    OBVIOUS
  <2>4. RequestFits(e.req) /\ e = [req |-> e.req, answer |-> e.answer]
    BY <1>2, <1>3, <2>1, <2>2 DEF SentFits
  <2>5. MessagesOf(a.block) \subseteq Live
    BY <1>1, <2>3, <2>4, AnswerIsFit
  <2>6. PICK f : f = [e EXCEPT !.answer = <<a>>]
    OBVIOUS
  <2>7. f.answer[1] = a
    <3>1. PICK r, b : e = [req |-> r, answer |-> b]
      BY <2>4
    <3>2. f = [req |-> r, answer |-> <<a>>]
      BY <2>6, <3>1
    <3> QED  BY <3>2
  <2>8. PICK q : q = [net EXCEPT ![1] = f]
    OBVIOUS
  <2>9. net' = q
    BY <1>3, <2>1, <2>2, <2>3, <2>6, <2>8
  <2>10. DOMAIN q = DOMAIN net /\ q[1] = f /\ \A i \in DOMAIN net : i # 1 => q[i] = net[i]
    BY <1>2, <1>3, <2>1, <2>8
  <2>11. \A s : \A b \in NetBlocks(net', s) : b \in NetBlocks(net, s) \/ (s = 0 /\ b = a.block)
    BY <1>2, <2>7, <2>9, <2>10 DEF NetBlocks
  <2>12. \A t \in Stages : \A c \in Blocks(t)' : c \in Blocks(t) \/ (t = 0 /\ c = a.block)
    BY <2>1, <2>11 DEF Blocks
  <2>13. \A t \in {5, 6} : Blocks(t) \subseteq Blocks(t)'
    <3>1. \A t \in {5, 6} : NetBlocks(net, t) = {}
      BY BlocksAre
    <3> QED  BY <2>1, <3>1 DEF Blocks
  <2>14. Serves(a.block)
    BY <1>1, <2>1, <2>5, <2>12, <2>13 DEF Serves, InOrderNext
  <2> QED  BY <2>14
<1>6. CASE Arrive
  <2>1. /\ net # <<>> /\ Head(net).answer # <<>> /\ net' = Tail(net) /\ archive' = archive
        /\ core' = Append(core, Result([kind |-> "answer", req |-> Head(net).req],
                                       Head(net).answer[1]))
    BY <1>6 DEF Arrive
  <2>2. PICK r, a : r = Head(net).req /\ a = Head(net).answer[1]
    OBVIOUS
  <2>3. PICK c : c = Result([kind |-> "answer", req |-> r], a)
    OBVIOUS
  <2>4. core' = Append(core, c) /\ CallStage(c) = 1 /\ CallBlock(c) = a.block
    BY <2>1, <2>2, <2>3 DEF CallStage, CallBlock, Result
  <2>5. PICK b : b = a.block
    OBVIOUS
  <2>6. b \in NetBlocks(net, 0)
    BY <1>3, <2>1, <2>2, <2>5 DEF NetBlocks
  <2>7. 0 \in Stages /\ 1 \in Stages /\ 0 < 1 /\ b \in Blocks(0)
    BY <2>6 DEF Stages, Blocks
  <2>8. \A d \in CallBlocks(core, 1) : Behind(b, d)
    BY <2>7 DEF AnswersInOrder, Blocks
  <2>9. /\ CallsInOrder(core')
        /\ \A s : CallBlocks(core', s) = CallBlocks(core, s) \union IF 1 = s THEN {b} ELSE {}
    BY <1>1, <2>4, <2>5, <2>8, CallComes
  <2>10. \A s : NetBlocks(net', s) = {}
    BY <1>4, <2>1
  <2>11. Blocks(0)' = {}
    <3>1. CallBlocks(core', 0) = CallBlocks(core, 0)
      BY <2>9
    <3>2. CallBlocks(core, 0) = {} /\ TaskBlocks(archive, 0) = {}
      BY <2>7, BlocksAre
    <3>3. CallBlocks(core', 0) = {} /\ TaskBlocks(archive', 0) = {} /\ NetBlocks(net', 0) = {}
      BY ONLY <2>1, <2>10, <3>1, <3>2
    <3> QED  BY ONLY <3>3 DEF Blocks
  <2>12. b \in Blocks(1)'
    BY <2>9 DEF Blocks
  <2>13. \A t \in Stages : \A d \in Blocks(t)' : d \in Blocks(t) \/ (t = 1 /\ d = b)
    BY <2>1, <2>9, <2>10 DEF Blocks
  <2>14. \A t \in {5, 6} : \A d \in Blocks(t) : d \in Blocks(t)'
    <3>1. \A t \in {5, 6} : NetBlocks(net, t) = {}
      BY BlocksAre
    <3> QED  BY <2>1, <2>9, <3>1 DEF Blocks
  <2>15. Moves(0, b)
    BY <1>1, <2>1, <2>7, <2>9, <2>11, <2>12, <2>13, <2>14 DEF Moves, InOrderNext
  <2> QED  BY <2>15
<1>7. CASE Fail
  <2>1. net # <<>> /\ net' = Tail(net) /\ archive' = archive
    BY <1>7 DEF Fail
  <2>2. PICK r, error : core' = Append(core, Result([kind |-> "fail", req |-> r], error))
    BY <1>7 DEF Fail
  <2>3. PICK c : c = Result([kind |-> "fail", req |-> r], error)
    OBVIOUS
  <2>4. CallStage(c) \notin Stages
    BY <2>3 DEF CallStage, Result, Stages, None
  <2>5. CallsInOrder(core') /\ \A s \in Stages : CallBlocks(core', s) = CallBlocks(core, s)
    BY <2>2, <2>3, <2>4, CallOfNone
  <2>6. \A s : NetBlocks(net', s) = {}
    BY <1>4, <2>1
  <2> QED  BY <1>1, <2>1, <2>5, <2>6, KeepsSame DEF InOrderNext
<1>8. CASE SendEvent
  <2>1. net' = net /\ core' = core /\ archive' = archive
    BY <1>8 DEF SendEvent, queues
  <2> QED  BY <1>1, <2>1, KeepsSame DEF InOrderNext
<1>9. CASE DeliverEvent
  <2>1. /\ net' = net /\ core' = core
        /\ PostTask([kind |-> "event", news |-> event[1].news, tail |-> event[1].tail])
    BY <1>9 DEF DeliverEvent
  <2>2. PICK t : t = [kind |-> "event", news |-> event[1].news, tail |-> event[1].tail]
    OBVIOUS
  <2>3. TaskStage(t) \notin Stages
    BY <2>2, KindsOfNone
  <2>4. /\ TasksInOrder(archive')
        /\ \A s \in Stages : TaskBlocks(archive', s) = TaskBlocks(archive, s)
    BY <2>1, <2>2, <2>3, PostNoBlock
  <2> QED  BY <1>1, <2>1, <2>4, KeepsSame DEF InOrderNext
<1> QED  BY <1>5, <1>6, <1>7, <1>8, <1>9 DEF Network

\* The callbacks of the core thread.
LEMMA CoreBlocks ==
    ASSUME DialogInv, AnswersInOrder, Core
    PROVE  Keeps \/ \E s, b : Moves(s, b)
<1>1. IsQueue(net) /\ CallbacksFit(core) /\ TasksInOrder(archive)
  BY Queues DEF DialogInv, DialogFits, AnswersInOrder
<1>2. PICK c, what, got : c = Head(core) /\ what = c.what /\ got = c.got
  OBVIOUS
<1>3. What = what /\ Got = got
  BY <1>2 DEF What, Got
<1>4. ASSUME NEW kind, Callback(kind), kind # "set",
             net' = net \/ \E r : Send(r),
             archive' = archive \/ \E ts : NoBlocks(ts) /\ PostTasks(ts)
      PROVE  Keeps
  <2>1. \A s : NetBlocks(net', s) = NetBlocks(net, s)
    BY <1>1, <1>4, SendBlocks
  <2>2. /\ TasksInOrder(archive')
        /\ \A s \in Stages : TaskBlocks(archive', s) = TaskBlocks(archive, s)
    BY <1>1, <1>4, PostNoBlocks
  <2> QED  BY <1>4, <2>1, <2>2, CoreKeeps
<1>5. ASSUME NEW t, PostTask(t), t.kind \notin {"answered", "set", "update"}
      PROVE  \E ts : NoBlocks(ts) /\ PostTasks(ts)
  <2>1. NoBlocks(<<t>>) /\ PostTasks(<<t>>)
    BY <1>5, KindsOfNone, FewNoBlocks DEF PostTask
  <2> QED  BY <2>1
<1>6. ASSUME NEW kind, Callback(kind), net' = net, NEW s \in {1, 3, 5}, CallStage(c) = s,
             NEW t, PostTask(t), TaskStage(t) = s + 1, TaskBlock(t) = CallBlock(c)
      PROVE  \E r, b : Moves(r, b)
  <2>1. Moves(s, TaskBlock(t))
    BY <1>2, <1>6, CoreMoves
  <2> QED  BY <2>1
<1>7. CASE OnDownload
  <2>1. Callback("download") /\ net' = net
    BY <1>7 DEF OnDownload
  <2>2. PICK call : PostTask(NextHoleTask(call))
    BY <1>7 DEF OnDownload
  <2>3. NextHoleTask(call).kind = "next"
    BY DEF NextHoleTask
  <2> QED  BY <1>4, <1>5, <2>1, <2>2, <2>3
<1>8. CASE OnNextHole
  <2>1. /\ Callback("next") /\ net' = net
        /\ \/ archive' = archive
           \/ PostTask([kind |-> "limits", call |-> what.call, hole |-> got.hole])
    BY <1>3, <1>8 DEF OnNextHole
  <2>2. PICK t : t = [kind |-> "limits", call |-> what.call, hole |-> got.hole]
    OBVIOUS
  <2> QED  BY <1>4, <1>5, <2>1, <2>2
<1>9. CASE OnLimits
  <2>1. Callback("limits") /\ archive' = archive /\ (net' = net \/ \E r : Send(r))
    BY <1>9 DEF OnLimits
  <2> QED  BY <1>4, <2>1
<1>10. CASE OnValidated
  <2>1. Callback("validate") /\ net' = net
    BY <1>10 DEF OnValidated
  <2>2. PICK call : PostTask(NextHoleTask(call))
    BY <1>10 DEF OnValidated
  <2>3. NextHoleTask(call).kind = "next"
    BY DEF NextHoleTask
  <2> QED  BY <1>4, <1>5, <2>1, <2>2, <2>3
<1>11. CASE OnAnswer
  <2>1. Callback("answer") /\ net' = net
        /\ PostTask([kind |-> "answered", req |-> what.req, answer |-> got])
    BY <1>3, <1>11 DEF OnAnswer
  <2>2. PICK t : t = [kind |-> "answered", req |-> what.req, answer |-> got]
    OBVIOUS
  <2>3. what.kind = "answer"
    BY <1>2, <2>1 DEF Callback
  <2>4. CallStage(c) = 1 /\ TaskStage(t) = 1 + 1 /\ TaskBlock(t) = CallBlock(c)
    BY <1>2, <2>2, <2>3 DEF CallStage, TaskStage, TaskBlock, CallBlock
  <2>5. 1 \in {1, 3, 5}
    OBVIOUS
  <2> QED  BY <1>6, <2>1, <2>2, <2>4, <2>5
<1>12. CASE OnFailed
  <2>1. Callback("fail") /\ net' = net /\ (archive' = archive \/ PostTask(DownloadAll))
    BY <1>12 DEF OnFailed
  <2>2. DownloadAll.kind = "download"
    BY DEF DownloadAll
  <2> QED  BY <1>4, <1>5, <2>1, <2>2
<1>13. CASE OnAnswered
  <2>1. Callback("answered") /\ net' = net
    BY <1>13 DEF OnAnswered
  <2>2. PICK new : new = [last |-> what.answer.last, upTo |-> None,
                          version |-> what.answer.version, known |-> 0]
    OBVIOUS
  <2>3. PICK t : t = [kind |-> "set", new |-> new, req |-> what.req, answer |-> what.answer]
    OBVIOUS
  <2>4. \/ PostTasks(<<[kind |-> "drop"]>> \o <<OpenTask>>)
        \/ PostTasks(<<[kind |-> "drop"]>> \o <<>>)
        \/ PostTask(t)
    BY <1>3, <1>13, <2>2, <2>3 DEF OnAnswered
  <2>5. NoBlocks(<<[kind |-> "drop"]>>) /\ NoBlocks(<<OpenTask>>) /\ NoBlocks(<<>>)
    <3>1. [kind |-> "drop"].kind = "drop" /\ OpenTask.kind = "open"
      BY DEF OpenTask
    <3> QED  BY <3>1, KindsOfNone, FewNoBlocks
  <2>6. PICK a, b : a = <<[kind |-> "drop"]>> \o <<OpenTask>> /\ b = <<[kind |-> "drop"]>> \o <<>>
    OBVIOUS
  <2>7. NoBlocks(a) /\ NoBlocks(b)
    BY <2>5, <2>6, FewNoBlocks
  <2>8. CASE PostTasks(a) \/ PostTasks(b)
    BY <1>4, <2>1, <2>7, <2>8
  <2>9. CASE PostTask(t)
    <3>1. what.kind = "answered"
      BY <1>2, <2>1 DEF Callback
    <3>2. CallStage(c) = 3 /\ TaskStage(t) = 3 + 1 /\ TaskBlock(t) = CallBlock(c)
      BY <1>2, <2>3, <3>1 DEF CallStage, TaskStage, TaskBlock, CallBlock
    <3>3. 3 \in {1, 3, 5}
      OBVIOUS
    <3> QED  BY <1>6, <2>1, <2>9, <3>2, <3>3
  <2> QED  BY <2>4, <2>6, <2>8, <2>9
<1>14. CASE OnSet
  <2>1. Callback("set") /\ net' = net
    BY <1>14 DEF OnSet
  <2>2. PICK from : from = IF what.req.editing THEN None ELSE what.req.from
    OBVIOUS
  <2>3. PICK t : t = [kind |-> "update", block |-> what.answer.block, from |-> from,
                      hasOlder |-> what.answer.older, then |-> what.req.then]
    OBVIOUS
  <2>4. PostTask(t)
    BY <1>3, <1>14, <2>2, <2>3 DEF OnSet
  <2>5. what.kind = "set"
    BY <1>2, <2>1 DEF Callback
  <2>6. CallStage(c) = 5 /\ TaskStage(t) = 5 + 1 /\ TaskBlock(t) = CallBlock(c)
    BY <1>2, <2>3, <2>5 DEF CallStage, TaskStage, TaskBlock, CallBlock
  <2>7. 5 \in {1, 3, 5}
    OBVIOUS
  <2> QED  BY <1>6, <2>1, <2>4, <2>6, <2>7
<1>15. CASE OnUpdated
  <2>1. Callback("update") /\ net' = net
        /\ (archive' = archive \/ (what.then # Nothing /\ PostTask(what.then)))
    BY <1>3, <1>15 DEF OnUpdated
  <2>2. TaskFits(what) /\ what.kind = "update"
    <3>1. CallbackFits(Head(core)) /\ Head(core).what.kind = "update"
      BY <1>1, <2>1, CallbackTaken
    <3> QED  BY <1>2, <3>1 DEF CallbackFits
  <2>3. what.then # Nothing => what.then.kind \in {"download", "validate"}
    BY <2>2 DEF TaskFits
  <2> QED  BY <1>4, <1>5, <2>1, <2>3
<1>16. CASE OnOpen
  <2>1. Callback("open") /\ archive' = archive /\ \E r : Send(r)
    BY <1>16 DEF OnOpen
  <2> QED  BY <1>4, <2>1
<1>17. CASE OnEvent
  <2>1. Callback("event") /\ net' = net
    BY <1>17 DEF OnEvent
  <2>2. PICK new, tail, changes :
          PostTask([kind |-> "eventset", new |-> new, tail |-> tail, changes |-> changes])
    BY <1>17 DEF OnEvent
  <2>3. PICK t : t = [kind |-> "eventset", new |-> new, tail |-> tail, changes |-> changes]
    OBVIOUS
  <2> QED  BY <1>4, <1>5, <2>1, <2>2, <2>3
<1>18. CASE OnEventSet
  <2>1. Callback("eventset") /\ (net' = net \/ \E r : Send(r))
    BY <1>18 DEF OnEventSet
  <2>2. PICK d, cl : d = DeleteTask(got.upTo) /\ cl = [kind |-> "clear"]
    OBVIOUS
  <2>3. PICK t : t = [kind |-> "eventupdate", block |-> what.tail, from |-> None,
                      hasOlder |-> FALSE, changes |-> what.changes, state |-> got]
    OBVIOUS
  <2>4. PostTasks(<<d, cl>>) \/ PostTask(t)
    BY <1>3, <1>18, <2>2, <2>3 DEF OnEventSet
  <2>5. d.kind = "delete" /\ cl.kind = "clear" /\ t.kind = "eventupdate"
    BY <2>2, <2>3 DEF DeleteTask
  <2>6. NoBlocks(<<d, cl>>)
    BY <2>5, KindsOfNone, FewNoBlocks
  <2> QED  BY <1>4, <1>5, <2>1, <2>4, <2>5, <2>6
<1>19. CASE OnEventUpdated
  <2>1. Callback("eventupdate") /\ net' = net
    BY <1>19 DEF OnEventUpdated
  <2>2. PICK call, download, deletes :
          PostTasks((IF download THEN <<NextHoleTask(call)>> ELSE <<>>)
                    \o (IF deletes THEN <<DeleteTask(what.state.upTo)>> ELSE <<>>))
    BY <1>3, <1>19 DEF OnEventUpdated
  <2>3. PICK h, d : h = NextHoleTask(call) /\ d = DeleteTask(what.state.upTo)
    OBVIOUS
  <2>4. PICK a, b : /\ a = IF download THEN <<h>> ELSE <<>>
                    /\ b = IF deletes THEN <<d>> ELSE <<>>
    OBVIOUS
  <2>5. h.kind = "next" /\ d.kind = "delete"
    BY <2>3 DEF NextHoleTask, DeleteTask
  <2>6. NoBlocks(a) /\ NoBlocks(b)
    <3>1. (a = <<h>> \/ a = <<>>) /\ (b = <<d>> \/ b = <<>>)
      BY <2>4
    <3> QED  BY <2>5, <3>1, KindsOfNone, FewNoBlocks
  <2>7. PICK q : q = a \o b
    OBVIOUS
  <2>8. NoBlocks(q)
    BY <2>6, <2>7, FewNoBlocks
  <2>9. PostTasks(q)
    BY <2>2, <2>3, <2>4, <2>7
  <2> QED  BY <1>4, <2>1, <2>8, <2>9
<1>20. CASE OnDeleted
  <2>1. Callback("delete") /\ net' = net /\ archive' = archive
    BY <1>20 DEF OnDeleted
  <2> QED  BY <1>4, <2>1
<1>21. CASE OnClear
  <2>1. Callback("clear") /\ net' = net
    BY <1>21 DEF OnClear
  <2>2. PICK new : PostTask([kind |-> "clearset", new |-> new])
    BY <1>21 DEF OnClear
  <2>3. PICK t : t = [kind |-> "clearset", new |-> new]
    OBVIOUS
  <2> QED  BY <1>4, <1>5, <2>1, <2>2, <2>3
<1> QED
  BY <1>7, <1>8, <1>9, <1>10, <1>11, <1>12, <1>13, <1>14, <1>15, <1>16, <1>17, <1>18, <1>19,
     <1>20, <1>21 DEF Core

\* Whatever the step is.
LEMMA BlocksStep ==
    ASSUME DialogInv, AnswersInOrder, [Next]_vars
    PROVE  \/ Keeps
           \/ index' = index /\ late' = late /\ \E s, b : Moves(s, b)
           \/ index' = index /\ late' = late /\ \E b : Serves(b)
           \/ /\ UpdateHistory /\ Head(archive).kind = "update"
              /\ InsertsFirst(Head(archive).block)
<1>1. /\ CallsInOrder(core) /\ TasksInOrder(archive)
  BY DEF AnswersInOrder
<1>2. ASSUME Server \/ UNCHANGED vars PROVE Keeps
  <2>1. net' = net /\ core' = core /\ archive' = archive
    BY <1>2 DEF Server, Post, Erase, DeleteAll, queues, vars
  <2> QED  BY <1>1, <2>1, KeepsSame DEF InOrderNext
<1>3. ASSUME User PROVE Keeps
  <2>1. net' = net /\ core' = core
    BY <1>3 DEF User, OpenDialog, Resume
  <2>2. PICK t : PostTask(t) /\ (t = OpenTask \/ \E call : t = NextHoleTask(call))
    BY <1>3 DEF User, OpenDialog, Resume
  <2>3. t.kind \in {"open", "next"}
    BY <2>2 DEF OpenTask, NextHoleTask
  <2>4. TaskStage(t) \notin Stages
    BY <2>3, KindsOfNone
  <2>5. /\ TasksInOrder(archive')
        /\ \A s \in Stages : TaskBlocks(archive', s) = TaskBlocks(archive, s)
    BY <2>2, <2>4, PostNoBlock
  <2> QED  BY <1>1, <2>1, <2>5, KeepsSame DEF InOrderNext
<1>4. Network => index' = index /\ late' = late
  BY DEF Network, Serve, Arrive, Fail, SendEvent, DeliverEvent, client, history
<1>5. Core => index' = index /\ late' = late
  BY DEF Core, OnDownload, OnNextHole, OnLimits, OnValidated, OnAnswer, OnFailed, OnAnswered,
     OnSet, OnUpdated, OnOpen, OnEvent, OnEventSet, OnEventUpdated, OnDeleted, OnClear, Callback
<1>6. \/ Core \/ Archive \/ Network
      \/ Server \/ User
      \/ UNCHANGED vars
  BY DEF Next, Others
<1>7. CASE Core
  BY <1>5, <1>7, CoreBlocks
<1>8. CASE Network
  BY <1>4, <1>8, NetworkBlocks
<1>9. CASE Archive
  BY <1>9, ArchiveBlocks
<1> QED  BY <1>2, <1>3, <1>6, <1>7, <1>8, <1>9

\* Every block on its way fits.
LEMMA BlocksFit ==
    ASSUME DialogInv, NEW s \in Stages, NEW b \in Blocks(s)
    PROVE  BlockFits(b)
<1>1. TasksFit(archive) /\ CallbacksFit(core) /\ NetFits(net)
  BY DEF DialogInv, DialogFits
<1>2. CASE b \in NetBlocks(net, s)
  <2>1. PICK i \in DOMAIN net : net[i].answer # <<>> /\ b = net[i].answer[1].block
    BY <1>2 DEF NetBlocks
  <2> QED  BY <1>1, <2>1 DEF NetFits, SentFits, AnswerFits
<1>3. CASE b \in CallBlocks(core, s)
  <2>1. PICK c \in ToSet(core) : CallStage(c) = s /\ b = CallBlock(c)
    BY <1>3 DEF CallBlocks
  <2>2. c.what.kind \in {"answer", "answered", "set"}
    BY <2>1 DEF CallStage, Stages, None
  <2>3. CallbackFits(c)
    BY <1>1 DEF CallbacksFit
  <2>4. CASE c.what.kind = "answer"
    <3>1. b = c.got.block
      BY <2>1, <2>4 DEF CallBlock
    <3> QED  BY <2>3, <2>4, <3>1 DEF CallbackFits, AnswerFits
  <2>5. CASE c.what.kind # "answer"
    <3>1. b = c.what.answer.block /\ TaskFits(c.what) /\ c.what.kind \in {"answered", "set"}
      BY <2>1, <2>2, <2>3, <2>5 DEF CallBlock, CallbackFits
    <3> QED  BY <3>1 DEF TaskFits, AnswerFits
  <2> QED  BY <2>4, <2>5
<1>4. CASE b \in TaskBlocks(archive, s)
  <2>1. PICK t \in ToSet(archive) : TaskStage(t) = s /\ b = TaskBlock(t)
    BY <1>4 DEF TaskBlocks
  <2>2. t.kind \in {"answered", "set", "update"}
    BY <2>1 DEF TaskStage, Stages, None
  <2>3. TaskFits(t)
    BY <1>1 DEF TasksFit
  <2>4. CASE t.kind = "update"
    <3>1. b = t.block
      BY <2>1, <2>4 DEF TaskBlock
    <3> QED  BY <2>3, <2>4, <3>1 DEF TaskFits
  <2>5. CASE t.kind # "update"
    <3>1. b = t.answer.block /\ t.kind \in {"answered", "set"}
      BY <2>1, <2>2, <2>5 DEF TaskBlock
    <3> QED  BY <2>3, <3>1 DEF TaskFits, AnswerFits
  <2> QED  BY <2>4, <2>5
<1> QED  BY <1>2, <1>3, <1>4 DEF Blocks

\* What the patches name is erased.
LEMMA PatchesErased ==
    ASSUME NEW b, BlockFits(b)
    PROVE  PatchesOf(b) \subseteq Erased
BY DEF BlockFits, Truthful, PatchesOf

\* What a step makes of the index.
LEMMA IndexStep ==
    ASSUME DialogInv, [Next]_vars
    PROVE  \/ index' = index /\ late' = late
           \/ /\ late' = late /\ UNCHANGED server /\ state'.upTo = state.upTo
              /\ \E to \in 0..upTo : index' = IndexAbove(index, to)
           \/ late' = late /\ index' = <<>> /\ UNCHANGED <<server, state>>
           \/ /\ UpdateHistory /\ UNCHANGED <<server, state>>
              /\ \E t : /\ t = Head(archive) /\ TaskFits(t) /\ BlockFits(t.block)
                        /\ t.kind = "eventupdate" => PatchesOf(t.block) = {}
                        /\ t.kind \in {"update", "eventupdate"}
                        /\ index' = InsertHistoryBlock(index, t.block, state.upTo, t.from, t.hasOlder)
                        /\ AllBelow(t.block, t.from, t.hasOlder, Live)
                        /\ late' = (late \/ (t.kind = "eventupdate"
                                             /\ MessagesOf(t.block) \intersect Erased # {}))
<1>1. StateFits(state) /\ TasksFit(archive) /\ ServerFits
  BY DEF DialogInv, DialogFits
<1>2. CASE UpdateHistory
  <2>1. PICK t : t = Head(archive)
    OBVIOUS
  <2>2. /\ Task({"update", "eventupdate"}) /\ state' = state
        /\ index' = InsertHistoryBlock(index, t.block, state.upTo, t.from, t.hasOlder)
        /\ late' = (late \/ (t.kind = "eventupdate"
                             /\ {t.block[i].id : i \in DOMAIN t.block} \intersect Erased # {}))
    BY <1>2, <2>1 DEF UpdateHistory
  <2>3. TaskFits(t) /\ t.kind \in {"update", "eventupdate"}
    BY <1>1, <2>1, <2>2, TaskTaken
  <2>4. UNCHANGED <<server, state>>
    BY <2>2 DEF Task
  <2>5. CASE t.kind = "update"
    <3>1. BlockFits(t.block) /\ AllBelow(t.block, t.from, t.hasOlder, Live)
      BY <2>3, <2>5 DEF TaskFits
    <3>2. late' = (late \/ (t.kind = "eventupdate" /\ MessagesOf(t.block) \intersect Erased # {}))
      BY <2>2, <2>5
    <3> QED  BY <1>2, <2>1, <2>2, <2>3, <2>4, <2>5, <3>1, <3>2
  <2>6. CASE t.kind = "eventupdate"
    <3>1. BlockFits(t.block) /\ PatchesOf(t.block) = {} /\ t.from = None
      BY <2>3, <2>6 DEF TaskFits, TailFits
    <3>2. AllBelow(t.block, t.from, t.hasOlder, Live)
      BY <3>1 DEF AllBelow
    <3>3. {t.block[i].id : i \in DOMAIN t.block} = MessagesOf(t.block)
      <4>1. \A i \in DOMAIN t.block : ~t.block[i].patch
        BY <3>1 DEF PatchesOf
      <4> QED  BY <4>1 DEF MessagesOf
    <3>4. late' = (late \/ (t.kind = "eventupdate" /\ MessagesOf(t.block) \intersect Erased # {}))
      BY <2>2, <3>3
    <3> QED  BY <1>2, <2>1, <2>2, <2>3, <2>4, <3>1, <3>2, <3>4
  <2> QED  BY <2>3, <2>5, <2>6
<1>3. CASE DeleteUpTo
  <2>1. PICK t : t = Head(archive)
    OBVIOUS
  <2>2. /\ Task({"delete"}) /\ index' = IndexAbove(index, t.upTo) /\ late' = late
        /\ state' = IF t.upTo >= state.last THEN [state EXCEPT !.last = None] ELSE state
    BY <1>3, <2>1 DEF DeleteUpTo
  <2>3. TaskFits(t) /\ t.kind = "delete"
    BY <1>1, <2>1, <2>2, TaskTaken
  <2>4. t.upTo \in 0..upTo /\ UNCHANGED server
    BY <2>2, <2>3 DEF TaskFits, Task
  <2>5. state'.upTo = state.upTo
    BY <1>1, <2>2 DEF StateFits
  <2> QED  BY <2>2, <2>4, <2>5
<1>4. CASE DropHistory
  BY <1>4 DEF DropHistory, Task
<1>5. CASE Core
  BY <1>5 DEF Core, OnDownload, OnNextHole, OnLimits, OnValidated, OnAnswer, OnFailed, OnAnswered,
     OnSet, OnUpdated, OnOpen, OnEvent, OnEventSet, OnEventUpdated, OnDeleted, OnClear, Callback
<1>6. CASE Server
  BY <1>6 DEF Server, Post, Erase, DeleteAll, client, history
<1>7. CASE Network
  BY <1>7 DEF Network, Serve, Arrive, Fail, SendEvent, DeliverEvent, client, history
<1>8. CASE GetDlgState \/ SetDlgState \/ GetNextHoleTask \/ ValidateTask
  BY <1>8 DEF GetDlgState, SetDlgState, GetNextHoleTask, ValidateTask
<1>9. CASE User
  BY <1>9 DEF User, OpenDialog, Resume, history
<1>10. CASE UNCHANGED vars
  BY <1>10 DEF vars, client, history
<1> QED
  BY <1>2, <1>3, <1>4, <1>5, <1>6, <1>7, <1>8, <1>9, <1>10 DEF Next, Others, Archive

\* What that marks as deleted.
LEMMA DeletedStep ==
    ASSUME DialogInv, [Next]_vars
    PROVE  \/ DeletedIn(index') \subseteq DeletedIn(index)
           \/ /\ UpdateHistory /\ Head(archive).kind = "update"
              /\ \A id \in DeletedIn(index') :
                    id \in DeletedIn(index) \/ id \in PatchesOf(Head(archive).block)
<1>1. ServerFits /\ IndexFits(index) /\ StateFits(state)
  BY DEF DialogInv, DialogFits
<1>2. /\ posted \in Nat /\ IsIndex(index, posted) /\ state.upTo \in Nat /\ upTo \in Nat
  BY <1>1, LiveIds DEF IndexFits, StateFits
<1>3. CASE index' = index
  BY <1>3
<1>4. ASSUME NEW to \in 0..upTo, index' = IndexAbove(index, to)
      PROVE  DeletedIn(index') \subseteq DeletedIn(index)
  <2>1. PICK new : new = IndexAbove(index, to)
    OBVIOUS
  <2>2. DeletedIn(new) \subseteq DeletedIn(index)
    BY <1>2, <2>1, AboveCases DEF DeletedIn
  <2> QED  BY <1>4, <2>1, <2>2
<1>5. CASE index' = <<>>
  BY <1>5 DEF DeletedIn, Ids
<1>6. ASSUME NEW t, t = Head(archive), UpdateHistory, BlockFits(t.block),
             t.kind = "eventupdate" => PatchesOf(t.block) = {},
             t.kind \in {"update", "eventupdate"},
             index' = InsertHistoryBlock(index, t.block, state.upTo, t.from, t.hasOlder)
      PROVE  \/ DeletedIn(index') \subseteq DeletedIn(index)
             \/ /\ UpdateHistory /\ Head(archive).kind = "update"
                /\ \A id \in DeletedIn(index') :
                      id \in DeletedIn(index) \/ id \in PatchesOf(Head(archive).block)
  <2>1. PICK new, b : new = InsertHistoryBlock(index, b, state.upTo, t.from, t.hasOlder) /\ b = t.block
    OBVIOUS
  <2>2. BlockUpTo(b, posted) /\ IdsDiffer(b) /\ Truthful(b, Live, Erased)
    BY <1>6, <2>1 DEF BlockFits
  <2>3. \A id \in DeletedIn(new) : id \in DeletedIn(index) \/ id \in PatchesOf(b)
    BY ONLY <1>2, <2>1, <2>2, BlockShows
  <2>4. new = index'
    BY <1>6, <2>1
  <2> QED  BY <1>6, <2>1, <2>3, <2>4
<1> QED  BY <1>3, <1>4, <1>5, <1>6, IndexStep

\* The order of the answers is kept, and nothing that is deleted returns.
LEMMA OrderStep ==
    ASSUME DialogInv, AnswersInOrder, NothingReturns, [Next]_vars
    PROVE  AnswersInOrder' /\ NothingReturns'
<1>1. /\ \A s, t \in Stages : s < t => \A b \in Blocks(s), c \in Blocks(t) : Behind(b, c)
      /\ \A s \in Stages : \A b \in Blocks(s) : MessagesOf(b) \intersect DeletedIn(index) = {}
      /\ DeletedIn(index) \subseteq Erased /\ Erased \intersect Live = {}
  BY LiveIds DEF AnswersInOrder, NothingReturns, DialogInv, DialogFits, IndexFits
<1>2. \A s \in Stages : s \in Int
  BY DEF Stages
<1>3. SUFFICES /\ InOrderNext
               /\ \A s, t \in Stages : s < t => \A b \in Blocks(s)', c \in Blocks(t)' : Behind(b, c)
               /\ \A s \in Stages : \A b \in Blocks(s)' : MessagesOf(b) \intersect DeletedIn(index') = {}
  BY DEF InOrderNext, AnswersInOrder, NothingReturns
<1>4. CASE Keeps
  <2>1. InOrderNext /\ \A s \in Stages : Blocks(s)' \subseteq Blocks(s)
    BY <1>4 DEF Keeps
  <2>2. \A s, t \in Stages : s < t => \A b \in Blocks(s)', c \in Blocks(t)' : Behind(b, c)
    BY <1>1, <2>1
  <2>3. CASE DeletedIn(index') \subseteq DeletedIn(index)
    BY <1>1, <2>1, <2>2, <2>3
  <2>4. CASE /\ UpdateHistory /\ Head(archive).kind = "update"
             /\ \A id \in DeletedIn(index') :
                   id \in DeletedIn(index) \/ id \in PatchesOf(Head(archive).block)
    <3>1. PICK d : d = Head(archive).block /\ InsertsFirst(d)
      BY <2>4, ArchiveInserts
    <3>2. \A s \in Stages : \A b \in Blocks(s)' : Behind(b, d)
      BY <3>1 DEF InsertsFirst
    <3>3. \A s \in Stages : \A b \in Blocks(s)' : MessagesOf(b) \intersect DeletedIn(index') = {}
      BY <1>1, <2>1, <2>4, <3>1, <3>2 DEF Behind
    <3> QED  BY <2>1, <2>2, <3>3
  <2> QED  BY <2>3, <2>4, DeletedStep
<1>5. ASSUME NEW s, NEW b, index' = index, Moves(s, b)
      PROVE  /\ InOrderNext
             /\ \A r, t \in Stages : r < t => \A c \in Blocks(r)', d \in Blocks(t)' : Behind(c, d)
             /\ \A r \in Stages : \A c \in Blocks(r)' : MessagesOf(c) \intersect DeletedIn(index') = {}
  <2>1. /\ InOrderNext /\ s \in Stages /\ s + 1 \in Stages /\ b \in Blocks(s)
        /\ \A c \in Blocks(s)' : Behind(c, b)
        /\ \A t \in Stages : \A c \in Blocks(t)' : c \in Blocks(t) \/ (t = s + 1 /\ c = b)
    BY <1>5 DEF Moves, Stages
  <2>2. ASSUME NEW r \in Stages, NEW t \in Stages, r < t, NEW c \in Blocks(r)', NEW d \in Blocks(t)'
        PROVE  Behind(c, d)
    <3>1. CASE c \in Blocks(r) /\ d \in Blocks(t)
      BY <1>1, <2>2, <3>1
    <3>2. CASE c \in Blocks(r) /\ t = s + 1 /\ d = b
      <4>1. r = s \/ r < s
        BY <1>2, <2>1, <2>2, <3>2
      <4> QED  BY <1>1, <2>1, <2>2, <3>2, <4>1
    <3>3. CASE r = s + 1 /\ c = b
      <4>1. s < t /\ t # s + 1
        BY <1>2, <2>1, <2>2, <3>3
      <4> QED  BY <1>1, <2>1, <2>2, <3>3, <4>1
    <3> QED  BY <2>1, <2>2, <3>1, <3>2, <3>3
  <2>3. \A r \in Stages : \A c \in Blocks(r)' : MessagesOf(c) \intersect DeletedIn(index') = {}
    BY <1>1, <1>5, <2>1
  <2> QED  BY <2>1, <2>2, <2>3
<1>6. ASSUME NEW b, index' = index, Serves(b)
      PROVE  /\ InOrderNext
             /\ \A r, t \in Stages : r < t => \A c \in Blocks(r)', d \in Blocks(t)' : Behind(c, d)
             /\ \A r \in Stages : \A c \in Blocks(r)' : MessagesOf(c) \intersect DeletedIn(index') = {}
  <2>1. /\ InOrderNext /\ MessagesOf(b) \subseteq Live
        /\ \A t \in Stages : \A c \in Blocks(t)' : c \in Blocks(t) \/ (t = 0 /\ c = b)
    BY <1>6 DEF Serves
  <2>2. ASSUME NEW r \in Stages, NEW t \in Stages, r < t, NEW c \in Blocks(r)', NEW d \in Blocks(t)'
        PROVE  Behind(c, d)
    <3>1. t # 0
      BY <2>2 DEF Stages
    <3>2. d \in Blocks(t)
      BY <2>1, <2>2, <3>1
    <3>3. CASE c \in Blocks(r)
      BY <1>1, <2>2, <3>2, <3>3
    <3>4. CASE c = b
      <4>1. PatchesOf(d) \subseteq Erased
        BY <3>2, BlocksFit, PatchesErased
      <4> QED  BY <1>1, <2>1, <3>4, <4>1 DEF Behind
    <3> QED  BY <2>1, <2>2, <3>3, <3>4
  <2>3. \A r \in Stages : \A c \in Blocks(r)' : MessagesOf(c) \intersect DeletedIn(index') = {}
    BY <1>1, <1>6, <2>1
  <2> QED  BY <2>1, <2>2, <2>3
<1>7. ASSUME UpdateHistory, Head(archive).kind = "update", InsertsFirst(Head(archive).block)
      PROVE  /\ InOrderNext
             /\ \A r, t \in Stages : r < t => \A c \in Blocks(r)', d \in Blocks(t)' : Behind(c, d)
             /\ \A r \in Stages : \A c \in Blocks(r)' : MessagesOf(c) \intersect DeletedIn(index') = {}
  <2>1. PICK b : b = Head(archive).block /\ InsertsFirst(b)
    BY <1>7
  <2>2. /\ InOrderNext /\ \A t \in Stages : Blocks(t)' \subseteq Blocks(t)
        /\ \A t \in Stages : \A c \in Blocks(t)' : Behind(c, b)
    BY <2>1 DEF InsertsFirst
  <2>3. \A id \in DeletedIn(index') : id \in DeletedIn(index) \/ id \in PatchesOf(b)
    BY <2>1, DeletedStep
  <2>4. \A r \in Stages : \A c \in Blocks(r)' : MessagesOf(c) \intersect DeletedIn(index') = {}
    BY <1>1, <2>2, <2>3 DEF Behind
  <2> QED  BY <1>1, <2>2, <2>4
<1> QED  BY <1>4, <1>5, <1>6, <1>7, BlocksStep

\* A message that was posted since is above every header.
LEMMA NothingBetweenStays ==
    ASSUME NEW n \in Nat, NEW ix, IsIndex(ix, n), NEW L, NothingBetween(ix, L),
           NEW M \in SUBSET Nat, \A k \in M : k \in L \/ k > n
    PROVE  NothingBetween(ix, M)
<1>1. \A id \in Ids(ix) : id \in 1..n
  BY DEF IsIndex
<1>2. ASSUME NEW id \in Ids(ix), NEW k \in M, k < id PROVE k \in L
  BY <1>1, <1>2
<1> QED  BY <1>2 DEF NothingBetween

\* The update of the history leaves no live message out.
LEMMA UpdateIsSound ==
    ASSUME DialogInv, AnswersInOrder, NothingReturns, PatchesApart(index), NothingBetween(index, Live), NEW t,
           UpdateHistory, t = Head(archive), BlockFits(t.block),
           t.kind \in {"update", "eventupdate"}, AllBelow(t.block, t.from, t.hasOlder, Live),
           t.kind = "eventupdate" => MessagesOf(t.block) \intersect Erased = {}
    PROVE  LET new == InsertHistoryBlock(index, t.block, state.upTo, t.from, t.hasOlder)
           IN PatchesApart(new) /\ NothingBetween(new, Live)
<1>1. ServerFits /\ IndexFits(index) /\ StateFits(state)
  BY DEF DialogInv, DialogFits
<1>2. /\ posted \in Nat /\ IsIndex(index, posted) /\ state.upTo \in Nat /\ upTo \in Nat
      /\ state.upTo <= upTo /\ Live \in SUBSET Nat /\ Erased \intersect Live = {}
      /\ \A k \in Live : k > upTo
      /\ DeletedIn(index) \subseteq Erased
  BY <1>1, LiveIds DEF IndexFits, StateFits
<1>3. PICK b : b = t.block
  OBVIOUS
<1>4. BlockUpTo(b, posted) /\ IdsDiffer(b) /\ Truthful(b, Live, Erased)
  BY <1>3 DEF BlockFits
<1>5. \A k \in Live : k > state.upTo
  BY <1>2
<1>6. MessagesOf(b) \intersect DeletedIn(index) = {}
  <2>1. CASE t.kind = "update"
    <3>1. b \in Blocks(6)
      BY <1>3, <2>1, ArchiveInserts DEF InsertsFirst
    <3>2. 6 \in Stages
      BY DEF Stages
    <3> QED  BY <3>1, <3>2 DEF NothingReturns
  <2>2. CASE t.kind = "eventupdate"
    BY <1>2, <1>3, <2>2
  <2> QED  BY <2>1, <2>2
<1>7. AllBelow(b, t.from, t.hasOlder, Live)
  BY <1>3
<1>8. LET new == InsertHistoryBlock(index, b, state.upTo, t.from, t.hasOlder)
      IN PatchesApart(new) /\ NothingBetween(new, Live)
  BY ONLY <1>2, <1>4, <1>5, <1>6, <1>7, PatchesApart(index), NothingBetween(index, Live), BlockSound
<1> QED  BY <1>3, <1>8

\* So it is with the other steps.
LEMMA SoundStep ==
    ASSUME DialogInv, AnswersInOrder, NothingReturns, IndexIsSound, [Next]_vars
    PROVE  IndexIsSound'
<1>1. ServerGrows /\ IndexFits(index) /\ ServerFits /\ StateFits(state) /\ IndexFits(index)'
  BY ServerStep, DialogStep DEF DialogInv, DialogFits
<1>2. /\ posted \in Nat /\ upTo \in Nat /\ Live \in SUBSET Nat /\ IsIndex(index, posted)
      /\ \A k \in Live : k > upTo
  BY <1>1, LiveIds DEF IndexFits
<1>3. PICK new, M : new = index' /\ M = Live'
  OBVIOUS
<1>5. M \in SUBSET Nat /\ \A k \in M : k \in Live \/ k > posted
  BY <1>1, <1>3 DEF ServerGrows
<1>6. UNCHANGED server => M = Live
  BY <1>3 DEF server, Live, Erased
<1>7. ~late => PatchesApart(index) /\ NothingBetween(index, Live)
  BY DEF IndexIsSound
<1>8. SUFFICES ~late' => PatchesApart(new) /\ NothingBetween(new, M)
  BY <1>3 DEF IndexIsSound
<1>9. CASE index' = index /\ late' = late
  BY <1>2, <1>3, <1>5, <1>7, <1>9, NothingBetweenStays
<1>10. ASSUME late' = late, UNCHANGED server, NEW to \in 0..upTo, index' = IndexAbove(index, to)
       PROVE  ~late' => PatchesApart(new) /\ NothingBetween(new, M)
  <2>1. to \in Nat /\ \A k \in Live : k > to
    BY <1>2
  <2>2. ~late => PatchesApart(IndexAbove(index, to)) /\ NothingBetween(IndexAbove(index, to), Live)
    BY <1>2, <1>7, <2>1, AboveSound
  <2> QED  BY <1>3, <1>6, <1>10, <2>2
<1>11. CASE index' = <<>>
  BY <1>3, <1>11 DEF PatchesApart, NothingBetween, Ids
<1>12. ASSUME UpdateHistory, UNCHANGED <<server, state>>, NEW t, t = Head(archive), BlockFits(t.block),
              t.kind \in {"update", "eventupdate"},
              index' = InsertHistoryBlock(index, t.block, state.upTo, t.from, t.hasOlder),
              AllBelow(t.block, t.from, t.hasOlder, Live),
              late' = (late \/ (t.kind = "eventupdate" /\ MessagesOf(t.block) \intersect Erased # {}))
       PROVE  ~late' => PatchesApart(new) /\ NothingBetween(new, M)
  <2> SUFFICES ASSUME ~late' PROVE PatchesApart(new) /\ NothingBetween(new, M)
    OBVIOUS
  <2>1. ~late /\ (t.kind = "eventupdate" => MessagesOf(t.block) \intersect Erased = {})
    BY <1>12
  <2>2. new = InsertHistoryBlock(index, t.block, state.upTo, t.from, t.hasOlder) /\ M = Live
    BY <1>3, <1>6, <1>12
  <2>3. LET ix == InsertHistoryBlock(index, t.block, state.upTo, t.from, t.hasOlder)
        IN PatchesApart(ix) /\ NothingBetween(ix, Live)
    BY <1>7, <1>12, <2>1, UpdateIsSound
  <2> QED  BY <2>2, <2>3
<1> QED
  <2>1. CASE late' = late /\ index' = <<>> /\ UNCHANGED <<server, state>>
    BY <1>11, <2>1
  <2>2. CASE /\ late' = late /\ UNCHANGED server /\ state'.upTo = state.upTo
             /\ \E to \in 0..upTo : index' = IndexAbove(index, to)
    BY <1>10, <2>2
  <2>3. CASE UpdateHistory
    BY <1>9, <1>10, <1>11, <1>12, IndexStep
  <2> QED  BY <1>9, <2>1, <2>2, <2>3, IndexStep

\* An index in which get_next_hole() finds no hole has all the server has.
LEMMA NothingHides ==
    ASSUME DialogInv, IndexIsSound
    PROVE  NoHiddenHole
<1>1. ServerFits /\ IndexFits(index)
  BY DEF DialogInv, DialogFits
<1>2. /\ posted \in Nat /\ Live \in SUBSET Nat /\ IsIndex(index, posted)
      /\ \A k \in Live : k \in 1..posted
  BY <1>1, LiveIds DEF IndexFits
<1>3. PICK S : S = Shown(index)
  OBVIOUS
<1>4. S \in SUBSET (1..posted)
  BY <1>2, <1>3 DEF Shown, IsIndex
<1>5. SUFFICES ASSUME GetNextHole(index, None, None).error = "last_reached", ~late,
                      NEW k \in Live, k < Newest(S)
               PROVE  k \in S
  BY <1>3 DEF NoHiddenHole
<1>6. NothingBetween(index, Live)
  BY <1>5 DEF IndexIsSound
<1>7. Newest(S) \in Opt(S)
  BY <1>2, <1>4, NewestIs
<1>8. CASE Newest(S) = None
  <2>1. k \in Int /\ k >= 1 /\ k < -1
    BY <1>2, <1>5, <1>8 DEF None
  <2> QED  BY <2>1
<1>9. CASE Newest(S) \in S
  <2>1. PICK m \in Shown(index) : m = Newest(S)
    BY <1>3, <1>9
  <2>2. k < m
    BY <1>5, <2>1
  <2> QED  BY <1>2, <1>3, <1>5, <1>6, <2>2, ReachedIsAll
<1> QED  BY <1>7, <1>8, <1>9 DEF Opt

\* At first nothing is on its way.
LEMMA OrderInit ==
    ASSUME Init
    PROVE  AnswersInOrder /\ NothingReturns /\ IndexIsSound
<1>1. archive = <<>> /\ core = <<>> /\ net = <<>> /\ index = <<>>
  BY DEF Init
<1>2. ToSet(<<>>) = {} /\ DOMAIN <<>> = {}
  BY DEF ToSet
<1>3. \A s : Blocks(s) = {}
  BY <1>1, <1>2 DEF Blocks, NetBlocks, CallBlocks, TaskBlocks
<1> QED
  BY <1>1, <1>2, <1>3 DEF AnswersInOrder, NothingReturns, IndexIsSound, CallsInOrder,
     TasksInOrder, PatchesApart, NothingBetween, Ids

\* What the blocks keep to.
OrderInv == DialogInv /\ AnswersInOrder /\ NothingReturns /\ IndexIsSound

\* Answers come in the order the server gave them, from get_history_from_server() to
\* insert_history_block(), through three callbacks and three tasks: no block brings back a
\* message that one before it has deleted, and the index leaves no live message out.
THEOREM AnswersStayInOrder == Spec => []OrderInv
<1>1. Init => OrderInv
  BY DialogInit, OrderInit DEF OrderInv
<1>2. OrderInv /\ [Next]_vars => OrderInv'
  BY DialogStep, OrderStep, SoundStep DEF OrderInv
<1> QED  BY <1>1, <1>2, PTL DEF Spec

\* NoHiddenHole: when archive_index::get_next_hole() says that the last hole is reached, no
\* live message is left out below the newest one shown, whatever stale pages, patches and
\* deletions were inserted; an event that was overtaken by the patch of its message aside.
THEOREM NothingIsHidden == Spec => []NoHiddenHole
<1>1. OrderInv => NoHiddenHole
  BY NothingHides DEF OrderInv
<1> QED  BY <1>1, AnswersStayInOrder, PTL

-----------------------------------------------------------------------------
(* What the callbacks and the tasks make of what was read of the state.    *)

\* Tasks that are posted, and requests that are sent, come to those there are.
LEMMA PostedAre ==
    ASSUME IsQueue(archive), NEW ts, IsQueue(ts), PostTasks(ts)
    PROVE  \A x : x \in ToSet(archive') <=> x \in ToSet(archive) \/ x \in ToSet(ts)
<1>1. PICK S : S = ToSet(archive) \union ToSet(ts)
  OBVIOUS
<1>2. archive \in Seq(S) /\ ts \in Seq(S)
  BY <1>1, SeqMonotonic DEF IsQueue
<1> QED  BY <1>2, ToSetOfConcat DEF PostTasks

\* One task is posted.
LEMMA PostedIs ==
    ASSUME IsQueue(archive), NEW t, PostTask(t)
    PROVE  \A x : x \in ToSet(archive') <=> x \in ToSet(archive) \/ x = t
<1>1. PICK ts : ts = <<t>>
  OBVIOUS
<1>2. IsQueue(ts) /\ PostTasks(ts) /\ \A x : x \in ToSet(ts) <=> x = t
  <2>1. PostTasks(ts)
    BY <1>1 DEF PostTask
  <2>2. IsQueue(ts) /\ \A x \in ToSet(ts) : x = t
    BY <1>1, QueueOfFew
  <2>3. t \in ToSet(ts)
    BY <1>1 DEF ToSet
  <2> QED  BY <2>1, <2>2, <2>3
<1> QED  BY <1>2, PostedAre

\* A request is sent.
LEMMA SentIs ==
    ASSUME IsQueue(net), NEW r, Send(r)
    PROVE  \A i \in DOMAIN net' : net'[i].req = r \/ \E j \in DOMAIN net : net'[i].req = net[j].req
<1>1. PICK e : e = Sent(r)
  OBVIOUS
<1>2. e.req = r
  BY <1>1 DEF Sent
<1>3. PICK q : q = Append(net, e)
  OBVIOUS
<1>4. net' = q
  BY <1>1, <1>3 DEF Send
<1>5. net \in Seq(ToSet(net) \union {e})
  BY SeqMonotonic DEF IsQueue
<1>6. /\ DOMAIN q = 1..(Len(net) + 1) /\ Len(net) \in Nat /\ DOMAIN net = 1..Len(net)
      /\ \A i \in 1..Len(net) : q[i] = net[i]
      /\ q[Len(net) + 1] = e
  BY <1>3, <1>5, AppendProperties
<1>7. \A i \in DOMAIN q : i \in DOMAIN net \/ i = Len(net) + 1
  BY <1>6
<1> QED  BY <1>2, <1>4, <1>6, <1>7

\* A task has the versions its callback had, and deletes no more than was read unless
\* it says so.
Follows(c, t) ==
    /\ TaskVersions(t) \subseteq CallVersions(c)
    /\ t.kind = "set" => t.new.upTo = None
    /\ t.kind = "clearset" => c.what.kind = "clear" /\ t.new.upTo = c.got.upTo
    /\ t.kind = "eventset" => c.what.kind = "event" /\ (t.new.upTo <= c.got.upTo \/ t.changes.upTo)
RequestFollows(c, r) == r.version \in CallVersions(c)
CoreDoes(c, N) ==
    /\ core # <<>> /\ c = Head(core) /\ core' = Tail(core)
    /\ UNCHANGED <<index, state, late, server>>
    /\ \A x : x \in ToSet(archive') <=> x \in ToSet(archive) \/ x \in N
    /\ \A t \in N : Follows(c, t)
    /\ CallWillDelete(c) => \E t \in N : TaskWillDelete(t)
    /\ \A i \in DOMAIN net' :
          RequestFollows(c, net'[i].req) \/ \E j \in DOMAIN net : net'[i].req = net[j].req

\* Most tasks have no version.
LEMMA FollowsAny ==
    ASSUME NEW c, NEW t, t.kind \notin {"answered", "set", "clearset", "eventset"}
    PROVE  Follows(c, t)
BY DEF Follows, TaskVersions

\* The callbacks that post nothing of the kind.
LEMMA CorePosts ==
    ASSUME DialogInv, NEW kind, Callback(kind), NEW c, c = Head(core), net' = net,
           kind \notin {"eventset", "eventupdate"},
           NEW t, archive' = archive \/ PostTask(t), Follows(c, t)
    PROVE  \E N : CoreDoes(c, N)
<1>1. /\ core # <<>> /\ core' = Tail(core) /\ UNCHANGED <<index, state, late, server>>
      /\ c.what.kind = kind
  BY DEF Callback
<1>2. ~CallWillDelete(c)
  BY <1>1 DEF CallWillDelete
<1>3. CASE archive' = archive
  <2>1. CoreDoes(c, {})
    BY <1>1, <1>2, <1>3 DEF CoreDoes
  <2> QED  BY <2>1
<1>4. CASE PostTask(t)
  <2>1. \A x : x \in ToSet(archive') <=> x \in ToSet(archive) \/ x \in {t}
    BY <1>4, Queues, PostedIs
  <2>2. CoreDoes(c, {t})
    BY <1>1, <1>2, <2>1 DEF CoreDoes
  <2> QED  BY <2>2
<1> QED  BY <1>3, <1>4

\* Those that send a request.
LEMMA CoreSends ==
    ASSUME DialogInv, NEW kind, Callback(kind), NEW c, c = Head(core), archive' = archive,
           kind \notin {"eventset", "eventupdate"},
           NEW r, net' = net \/ Send(r), RequestFollows(c, r)
    PROVE  \E N : CoreDoes(c, N)
<1>1. /\ core # <<>> /\ core' = Tail(core) /\ UNCHANGED <<index, state, late, server>>
      /\ c.what.kind = kind
  BY DEF Callback
<1>2. ~CallWillDelete(c)
  BY <1>1 DEF CallWillDelete
<1>3. \A i \in DOMAIN net' :
         RequestFollows(c, net'[i].req) \/ \E j \in DOMAIN net : net'[i].req = net[j].req
  <2>1. CASE net' = net
    BY <2>1
  <2>2. CASE Send(r)
    BY <2>2, Queues, SentIs
  <2> QED  BY <2>1, <2>2
<1>4. CoreDoes(c, {})
  BY <1>1, <1>2, <1>3 DEF CoreDoes
<1> QED  BY <1>4

\* The event says whether it deletes more than was read.
LEMMA EventFollows ==
    ASSUME DialogInv, OnEvent, NEW c, c = Head(core)
    PROVE  \E N : CoreDoes(c, N)
<1>1. PICK what, got : what = c.what /\ got = c.got
  OBVIOUS
<1>2. What = what /\ Got = got
  BY <1>1 DEF What, Got
<1>3. Callback("event") /\ net' = net /\ CallbacksFit(core)
  BY DEF OnEvent, DialogInv, DialogFits
<1>4. CallbackFits(c) /\ what.kind = "event"
  BY <1>1, <1>3, CallbackTaken
<1>5. StateFits(what.news) /\ StateFits(got)
  BY <1>1, <1>4 DEF CallbackFits, TaskFits, StateKinds
<1>6. PICK d : d = (what.news.upTo > got.upTo)
  OBVIOUS
<1>7. PICK new : new = [last |-> what.news.last, upTo |-> what.news.upTo, version |-> 0,
                        known |-> what.news.version]
  OBVIOUS
<1>8. PICK v, l : PostTask([kind |-> "eventset", new |-> new, tail |-> what.tail,
                            changes |-> [version |-> v, upTo |-> d, last |-> l]])
  BY <1>2, <1>6, <1>7 DEF OnEvent
<1>9. PICK changes : changes = [version |-> v, upTo |-> d, last |-> l]
  OBVIOUS
<1>10. PICK t : t = [kind |-> "eventset", new |-> new, tail |-> what.tail, changes |-> changes]
  OBVIOUS
<1>11. changes.upTo = d /\ t.changes = changes /\ t.new.upTo = what.news.upTo /\ t.kind = "eventset"
  BY <1>7, <1>9, <1>10
<1>12. t.changes.upTo \/ t.new.upTo <= got.upTo
  <2>1. what.news.upTo \in Int /\ got.upTo \in Int
    <3>1. ServerFits
      BY DEF DialogInv
    <3> QED  BY <1>5, <3>1, LiveIds DEF StateFits
  <2>2. CASE what.news.upTo > got.upTo
    <3>1. t.changes.upTo
      BY <1>6, <1>11, <2>2, Zenon
    <3> QED  BY <3>1
  <2>3. CASE ~(what.news.upTo > got.upTo)
    <3>1. what.news.upTo <= got.upTo
      BY <2>1, <2>3
    <3> QED  BY <1>11, <3>1
  <2> QED  BY <2>2, <2>3
<1>13. Follows(c, t)
  BY <1>1, <1>4, <1>11, <1>12 DEF Follows, TaskVersions
<1>14. PostTask(t)
  BY <1>8, <1>9, <1>10
<1> QED  BY <1>3, <1>13, <1>14, CorePosts

\* What the server deleted is deleted, or the tail is inserted first.
LEMMA EventSetFollows ==
    ASSUME DialogInv, OnEventSet, NEW c, c = Head(core)
    PROVE  \E N : CoreDoes(c, N)
<1>1. PICK what, got : what = c.what /\ got = c.got
  OBVIOUS
<1>2. What = what /\ Got = got
  BY <1>1 DEF What, Got
<1>3. Callback("eventset") /\ core # <<>> /\ core' = Tail(core) /\ what.kind = "eventset"
      /\ UNCHANGED <<index, state, late, server>>
  BY <1>1 DEF OnEventSet, Callback
<1>4. PICK d, cl : d = DeleteTask(got.upTo) /\ cl = [kind |-> "clear"]
  OBVIOUS
<1>5. PICK t : t = [kind |-> "eventupdate", block |-> what.tail, from |-> None,
                    hasOlder |-> FALSE, changes |-> what.changes, state |-> got]
  OBVIOUS
<1>6. PostTasks(<<d, cl>>) \/ PostTask(t)
  BY <1>2, <1>4, <1>5 DEF OnEventSet
<1>7. d.kind = "delete" /\ cl.kind = "clear" /\ t.kind = "eventupdate" /\ d.upTo = got.upTo
      /\ t.changes = what.changes /\ t.state = got
  BY <1>4, <1>5 DEF DeleteTask
<1>8. Follows(c, d) /\ Follows(c, cl) /\ Follows(c, t)
  BY <1>7, FollowsAny
<1>9. CallWillDelete(c) => TaskWillDelete(d) /\ TaskWillDelete(t)
  BY <1>1, <1>3, <1>7 DEF CallWillDelete, TaskWillDelete
<1>10. \A i \in DOMAIN net' :
          RequestFollows(c, net'[i].req) \/ \E j \in DOMAIN net : net'[i].req = net[j].req
  <2>1. PICK r : r = [Request(None, None, 1, got.version, Nothing) EXCEPT !.editing = TRUE]
    OBVIOUS
  <2>2. net' = net \/ Send(r)
    BY <1>2, <2>1 DEF OnEventSet
  <2>3. r.version = got.version
    BY <2>1 DEF Request
  <2>4. RequestFollows(c, r)
    BY <1>1, <1>3, <2>3 DEF RequestFollows, CallVersions
  <2>5. CASE net' = net
    BY <2>5
  <2>6. CASE Send(r)
    BY <2>4, <2>6, Queues, SentIs
  <2> QED  BY <2>2, <2>5, <2>6
<1>11. CASE PostTasks(<<d, cl>>)
  <2>1. PICK ts : ts = <<d, cl>>
    OBVIOUS
  <2>2. IsQueue(ts) /\ \A x : x \in ToSet(ts) => x \in {d, cl}
    BY <2>1, QueueOfFew
  <2>3. d \in ToSet(ts)
    BY <2>1 DEF ToSet
  <2>4. \A x : x \in ToSet(archive') <=> x \in ToSet(archive) \/ x \in ToSet(ts)
    BY <1>11, <2>1, <2>2, Queues, PostedAre
  <2>5. CoreDoes(c, ToSet(ts))
    BY <1>3, <1>8, <1>9, <1>10, <2>2, <2>3, <2>4 DEF CoreDoes
  <2> QED  BY <2>5
<1>12. CASE PostTask(t)
  <2>1. \A x : x \in ToSet(archive') <=> x \in ToSet(archive) \/ x \in {t}
    BY <1>12, Queues, PostedIs
  <2>2. CoreDoes(c, {t})
    BY <1>3, <1>8, <1>9, <1>10, <2>1 DEF CoreDoes
  <2> QED  BY <2>2
<1> QED  BY <1>6, <1>11, <1>12

\* The deletion comes behind the tail.
LEMMA EventUpdatedFollows ==
    ASSUME DialogInv, OnEventUpdated, NEW c, c = Head(core)
    PROVE  \E N : CoreDoes(c, N)
<1>1. PICK what, got : what = c.what /\ got = c.got
  OBVIOUS
<1>2. What = what /\ Got = got
  BY <1>1 DEF What, Got
<1>3. Callback("eventupdate") /\ core # <<>> /\ core' = Tail(core) /\ what.kind = "eventupdate"
      /\ net' = net /\ UNCHANGED <<index, state, late, server>>
  BY <1>1 DEF OnEventUpdated, Callback
<1>4. PICK call, download :
         PostTasks((IF download THEN <<NextHoleTask(call)>> ELSE <<>>)
                   \o (IF what.changes.upTo THEN <<DeleteTask(what.state.upTo)>> ELSE <<>>))
  BY <1>2 DEF OnEventUpdated
<1>5. PICK h, d : h = NextHoleTask(call) /\ d = DeleteTask(what.state.upTo)
  OBVIOUS
<1>6. h.kind = "next" /\ d.kind = "delete" /\ d.upTo = what.state.upTo
  BY <1>5 DEF NextHoleTask, DeleteTask
<1>7. PICK a, b : /\ a = IF download THEN <<h>> ELSE <<>>
                  /\ b = IF what.changes.upTo THEN <<d>> ELSE <<>>
  OBVIOUS
<1>8. PICK q : q = a \o b
  OBVIOUS
<1>9. PostTasks(q)
  BY <1>4, <1>5, <1>7, <1>8
<1>10. IsQueue(a) /\ IsQueue(b) /\ \A x : x \in ToSet(a) \/ x \in ToSet(b) => x \in {h, d}
  <2>1. (a = <<h>> \/ a = <<>>) /\ (b = <<d>> \/ b = <<>>)
    BY <1>7
  <2> QED  BY <2>1, QueueOfFew
<1>11. what.changes.upTo => d \in ToSet(b)
  <2>1. d \in ToSet(<<d>>)
    BY DEF ToSet
  <2> QED  BY <1>7, <2>1
<1>12. IsQueue(q) /\ \A x : x \in ToSet(q) <=> x \in ToSet(a) \/ x \in ToSet(b)
  <2>1. PICK S : S = ToSet(a) \union ToSet(b)
    OBVIOUS
  <2>2. a \in Seq(S) /\ b \in Seq(S)
    BY <1>10, <2>1, SeqMonotonic DEF IsQueue
  <2> QED  BY <1>8, <1>10, <2>2, QueueConcat, ToSetOfConcat
<1>13. \A x : x \in ToSet(archive') <=> x \in ToSet(archive) \/ x \in ToSet(q)
  BY <1>9, <1>12, Queues, PostedAre
<1>14. \A t \in ToSet(q) : Follows(c, t)
  <2>1. Follows(c, h) /\ Follows(c, d)
    BY <1>6, FollowsAny
  <2> QED  BY <1>10, <1>12, <2>1
<1>15. CallWillDelete(c) => what.changes.upTo /\ TaskWillDelete(d)
  BY <1>1, <1>3, <1>6 DEF CallWillDelete, TaskWillDelete
<1>16. CoreDoes(c, ToSet(q))
  BY <1>3, <1>11, <1>12, <1>13, <1>14, <1>15 DEF CoreDoes
<1> QED  BY <1>16

\* The deletion may come with what becomes of an answer.
LEMMA AnsweredFollows ==
    ASSUME DialogInv, OnAnswered, NEW c, c = Head(core)
    PROVE  \E N : CoreDoes(c, N)
<1>1. PICK what, got : what = c.what /\ got = c.got
  OBVIOUS
<1>2. What = what /\ Got = got
  BY <1>1 DEF What, Got
<1>3. Callback("answered") /\ core # <<>> /\ core' = Tail(core) /\ what.kind = "answered"
      /\ net' = net /\ UNCHANGED <<index, state, late, server>>
  BY <1>1 DEF OnAnswered, Callback
<1>4. PICK new : new = [last |-> what.answer.last, upTo |-> None,
                        version |-> what.answer.version, known |-> 0]
  OBVIOUS
<1>5. PICK t : t = [kind |-> "set", new |-> new, req |-> what.req, answer |-> what.answer]
  OBVIOUS
<1>6. PICK drop, open : drop = [kind |-> "drop"] /\ open = OpenTask
  OBVIOUS
<1>7. \/ PostTasks(<<drop>> \o <<open>>)
      \/ PostTasks(<<drop>> \o <<>>)
      \/ PostTask(t)
  BY <1>2, <1>4, <1>5, <1>6 DEF OnAnswered
<1>8. drop.kind = "drop" /\ open.kind = "open"
  BY <1>6 DEF OpenTask
<1>9. Follows(c, drop) /\ Follows(c, open)
  BY <1>8, FollowsAny
<1>10. Follows(c, t)
  BY <1>1, <1>3, <1>4, <1>5 DEF Follows, TaskVersions, CallVersions
<1>11. ~CallWillDelete(c)
  BY <1>1, <1>3 DEF CallWillDelete
<1>12. ASSUME NEW a, IsQueue(a), \A x \in ToSet(a) : x = open, PostTasks(<<drop>> \o a)
       PROVE  \E N : CoreDoes(c, N)
  <2>1. PICK f, q : f = <<drop>> /\ q = f \o a
    OBVIOUS
  <2>2. IsQueue(f) /\ \A x \in ToSet(f) : x = drop
    BY <2>1, QueueOfFew
  <2>3. IsQueue(q) /\ \A x \in ToSet(q) : x \in {drop, open}
    BY <1>12, <2>1, <2>2, QueueConcat
  <2>4. \A x : x \in ToSet(archive') <=> x \in ToSet(archive) \/ x \in ToSet(q)
    BY <1>12, <2>1, <2>3, Queues, PostedAre
  <2>5. CoreDoes(c, ToSet(q))
    BY <1>3, <1>9, <1>11, <2>3, <2>4 DEF CoreDoes
  <2> QED  BY <2>5
<1>13. CASE PostTask(t)
  BY <1>3, <1>10, <1>13, CorePosts
<1>14. PICK a, b : a = <<open>> /\ b = <<>>
  OBVIOUS
<1>15. IsQueue(a) /\ IsQueue(b) /\ (\A x \in ToSet(a) : x = open) /\ \A x \in ToSet(b) : x = open
  BY <1>14, QueueOfFew
<1> QED  BY <1>7, <1>12, <1>13, <1>14, <1>15

\* Every callback.
LEMMA CoreFollows ==
    ASSUME DialogInv, Core, NEW c, c = Head(core)
    PROVE  \E N : CoreDoes(c, N)
<1>1. PICK what, got : what = c.what /\ got = c.got
  OBVIOUS
<1>2. What = what /\ Got = got
  BY <1>1 DEF What, Got
<1>3. ASSUME NEW kind, Callback(kind) PROVE CallbackFits(c) /\ what.kind = kind
  <2>1. CallbacksFit(core)
    BY DEF DialogInv, DialogFits
  <2> QED  BY <1>1, <1>3, <2>1, CallbackTaken
<1>4. ASSUME NEW kind, Callback(kind), kind \notin {"eventset", "eventupdate"}, net' = net,
             NEW t, PostTask(t), t.kind \notin {"answered", "set", "clearset", "eventset"}
      PROVE  \E N : CoreDoes(c, N)
  BY <1>4, FollowsAny, CorePosts
<1>5. ASSUME NEW kind, Callback(kind), kind \notin {"eventset", "eventupdate"}, net' = net,
             archive' = archive
      PROVE  \E N : CoreDoes(c, N)
  <2>1. PICK t : t = OpenTask
    OBVIOUS
  <2>2. Follows(c, t)
    BY <2>1, FollowsAny DEF OpenTask
  <2> QED  BY <1>5, <2>2, CorePosts
<1>6. CASE OnDownload
  <2>1. Callback("download") /\ net' = net
    BY <1>6 DEF OnDownload
  <2>2. PICK t : PostTask(t) /\ t.kind = "next"
    BY <1>6 DEF OnDownload, NextHoleTask
  <2> QED  BY <1>4, <2>1, <2>2
<1>7. CASE OnNextHole
  <2>1. /\ Callback("next") /\ net' = net
        /\ \/ archive' = archive
           \/ PostTask([kind |-> "limits", call |-> what.call, hole |-> got.hole])
    BY <1>2, <1>7 DEF OnNextHole
  <2>2. PICK t : t = [kind |-> "limits", call |-> what.call, hole |-> got.hole]
    OBVIOUS
  <2> QED  BY <1>4, <1>5, <2>1, <2>2
<1>8. CASE OnLimits
  <2>1. Callback("limits") /\ archive' = archive
    BY <1>8 DEF OnLimits
  <2>2. PICK depth : net' = net \/ Send(Request(what.hole.from, what.hole.to, PageSize,
                            got.version, Validate(what.hole, depth, what.call)))
    BY <1>2, <1>8 DEF OnLimits
  <2>3. PICK r : r = Request(what.hole.from, what.hole.to, PageSize, got.version,
                             Validate(what.hole, depth, what.call))
    OBVIOUS
  <2>4. r.version = got.version
    BY <2>3 DEF Request
  <2>5. RequestFollows(c, r)
    BY <1>1, <1>3, <2>1, <2>4 DEF RequestFollows, CallVersions
  <2> QED  BY <2>1, <2>2, <2>3, <2>5, CoreSends
<1>9. CASE OnValidated
  <2>1. Callback("validate") /\ net' = net
    BY <1>9 DEF OnValidated
  <2>2. PICK t : PostTask(t) /\ t.kind = "next"
    BY <1>9 DEF OnValidated, NextHoleTask
  <2> QED  BY <1>4, <2>1, <2>2
<1>10. CASE OnAnswer
  <2>1. Callback("answer") /\ net' = net
        /\ PostTask([kind |-> "answered", req |-> what.req, answer |-> got])
    BY <1>2, <1>10 DEF OnAnswer
  <2>2. PICK t : t = [kind |-> "answered", req |-> what.req, answer |-> got]
    OBVIOUS
  <2>3. Follows(c, t)
    BY <1>1, <1>3, <2>1, <2>2 DEF Follows, TaskVersions, CallVersions
  <2> QED  BY <2>1, <2>2, <2>3, CorePosts
<1>11. CASE OnFailed
  <2>1. Callback("fail") /\ net' = net /\ (archive' = archive \/ PostTask(DownloadAll))
    BY <1>11 DEF OnFailed
  <2>2. PICK t : t = DownloadAll
    OBVIOUS
  <2>3. t.kind = "download"
    BY <2>2 DEF DownloadAll
  <2> QED  BY <1>4, <1>5, <2>1, <2>2, <2>3
<1>12. CASE OnSet
  <2>1. Callback("set") /\ net' = net
    BY <1>12 DEF OnSet
  <2>2. PICK t : PostTask(t) /\ t.kind = "update"
    BY <1>12 DEF OnSet
  <2> QED  BY <1>4, <2>1, <2>2
<1>13. CASE OnUpdated
  <2>1. Callback("update") /\ net' = net
        /\ (archive' = archive \/ (what.then # Nothing /\ PostTask(what.then)))
    BY <1>2, <1>13 DEF OnUpdated
  <2>2. TaskFits(what) /\ what.kind = "update"
    BY <1>1, <1>3, <2>1 DEF CallbackFits
  <2>3. what.then # Nothing => what.then.kind \in {"download", "validate"}
    BY <2>2 DEF TaskFits
  <2> QED  BY <1>4, <1>5, <2>1, <2>3
<1>14. CASE OnOpen
  <2>1. Callback("open") /\ archive' = archive
        /\ Send(Request(None, None, 1, got.version, DownloadAll))
    BY <1>2, <1>14 DEF OnOpen
  <2>2. PICK r : r = Request(None, None, 1, got.version, DownloadAll)
    OBVIOUS
  <2>3. r.version = got.version
    BY <2>2 DEF Request
  <2>4. RequestFollows(c, r)
    BY <1>1, <1>3, <2>1, <2>3 DEF RequestFollows, CallVersions
  <2> QED  BY <2>1, <2>2, <2>4, CoreSends
<1>15. CASE OnDeleted
  <2>1. Callback("delete") /\ net' = net /\ archive' = archive
    BY <1>15 DEF OnDeleted
  <2> QED  BY <1>5, <2>1
<1>16. CASE OnClear
  <2>1. Callback("clear") /\ net' = net
    BY <1>16 DEF OnClear
  <2>2. PICK new : new = [last |-> got.last, upTo |-> got.upTo, version |-> got.version, known |-> 0]
    OBVIOUS
  <2>3. PICK t : t = [kind |-> "clearset", new |-> new]
    OBVIOUS
  <2>4. PostTask(t)
    BY <1>2, <1>16, <2>2, <2>3 DEF OnClear
  <2>5. Follows(c, t)
    BY <1>1, <1>3, <2>1, <2>2, <2>3 DEF Follows, TaskVersions, CallVersions
  <2> QED  BY <2>1, <2>4, <2>5, CorePosts
<1> QED
  BY <1>6, <1>7, <1>8, <1>9, <1>10, <1>11, <1>12, <1>13, <1>14, <1>15, <1>16, EventFollows,
     EventSetFollows, EventUpdatedFollows, AnsweredFollows DEF Core

\* A task of the archive thread: its callback, and what becomes of the index and the
\* state.
ArchiveDoes(t, C) ==
    /\ archive # <<>> /\ t = Head(archive) /\ archive' = Tail(archive)
    /\ net' = net /\ UNCHANGED server
    /\ \A x : x \in ToSet(core') <=> x \in ToSet(core) \/ x \in C
    /\ \A c \in C : c.what = t
    /\ t.kind \in {"open", "limits", "clear", "event", "eventset"} => \A c \in C : c.got = state'
    /\ t.kind \in {"set", "eventset", "eventupdate"} => C # {}
    /\ t.kind # "answer"
    /\ t.kind \in {"set", "eventset", "clearset"} => state' = Merged(t.new)
    /\ t.kind \notin {"set", "eventset", "clearset"} =>
          state'.upTo = state.upTo /\ state'.version = state.version
    /\ t.kind = "delete" => index' = IndexAbove(index, t.upTo)

\* The callback of a task comes behind the others.
LEMMA CalledIs ==
    ASSUME IsQueue(core), NEW got, Called(got), NEW t, t = Head(archive)
    PROVE  \A x : x \in ToSet(core') <=> x \in ToSet(core) \/ x \in {Result(t, got)}
<1>1. PICK c : c = Result(t, got)
  OBVIOUS
<1>2. core \in Seq(ToSet(core) \union {c})
  BY SeqMonotonic DEF IsQueue
<1>3. ToSet(Append(core, c)) = (ToSet(core) \union {c}) \union {c}
  <2>1. PICK S : S = ToSet(core) \union {c}
    OBVIOUS
  <2>2. core \in Seq(S) /\ c \in S
    BY <1>2, <2>1
  <2>3. ToSet(Append(core, c)) = ToSet(core) \union {c}
    BY <2>2, ToSetAppend
  <2> QED  BY <2>3
<1> QED  BY <1>1, <1>3 DEF Called

\* Every task.
LEMMA ArchiveFollows ==
    ASSUME DialogInv, Archive, NEW t, t = Head(archive)
    PROVE  \E C : ArchiveDoes(t, C)
<1>1. StateFits(state) /\ IsQueue(core)
  BY Queues DEF DialogInv, DialogFits
<1>2. ASSUME NEW kinds, Task(kinds)
      PROVE  /\ archive # <<>> /\ archive' = Tail(archive) /\ net' = net /\ UNCHANGED server
             /\ t.kind \in kinds
  BY <1>2 DEF Task
<1>3. ASSUME NEW got, Called(got)
      PROVE  \E c : /\ c.what = t /\ c.got = got
                    /\ \A x : x \in ToSet(core') <=> x \in ToSet(core) \/ x \in {c}
  <2>1. Result(t, got).what = t /\ Result(t, got).got = got
    BY DEF Result
  <2> QED  BY <1>1, <1>3, <2>1, CalledIs
<1>4. CASE GetDlgState
  <2>1. /\ Task({"download", "limits", "answered", "open", "event", "clear"})
        /\ Called(state) /\ state' = state
    BY <1>4 DEF GetDlgState
  <2>2. PICK c : /\ c.what = t /\ c.got = state
                 /\ \A x : x \in ToSet(core') <=> x \in ToSet(core) \/ x \in {c}
    BY <1>3, <2>1
  <2>3. ArchiveDoes(t, {c})
    BY <1>2, <2>1, <2>2 DEF ArchiveDoes
  <2> QED  BY <2>3
<1>5. CASE GetNextHoleTask \/ ValidateTask
  <2>1. Task({"next", "validate"}) /\ state' = state /\ \E got : Called(got)
    BY <1>5 DEF GetNextHoleTask, ValidateTask, Task
  <2>2. PICK c : /\ c.what = t
                 /\ \A x : x \in ToSet(core') <=> x \in ToSet(core) \/ x \in {c}
    BY <1>3, <2>1
  <2>3. ArchiveDoes(t, {c})
    BY <1>2, <2>1, <2>2 DEF ArchiveDoes
  <2> QED  BY <2>3
<1>6. CASE SetDlgState
  <2>1. Task({"set", "eventset", "clearset"}) /\ state' = Merged(t.new)
        /\ ((t.kind = "clearset" /\ core' = core) \/ (t.kind # "clearset" /\ Called(state')))
    BY <1>6 DEF SetDlgState
  <2>2. CASE t.kind = "clearset" /\ core' = core
    <3>1. ArchiveDoes(t, {})
      BY <1>2, <1>6, <2>2 DEF ArchiveDoes, SetDlgState
    <3> QED  BY <3>1
  <2>3. CASE t.kind # "clearset" /\ Called(state')
    <3>1. PICK c : /\ c.what = t /\ c.got = state'
                   /\ \A x : x \in ToSet(core') <=> x \in ToSet(core) \/ x \in {c}
      BY <1>3, <2>3
    <3>2. ArchiveDoes(t, {c})
      BY <1>2, <1>6, <2>3, <3>1 DEF ArchiveDoes, SetDlgState
    <3> QED  BY <3>2
  <2> QED  BY <2>1, <2>2, <2>3
<1>7. CASE UpdateHistory
  <2>1. Task({"update", "eventupdate"}) /\ state' = state /\ Called("ok")
    BY <1>7 DEF UpdateHistory
  <2>2. PICK c : /\ c.what = t
                 /\ \A x : x \in ToSet(core') <=> x \in ToSet(core) \/ x \in {c}
    BY <1>3, <2>1
  <2>3. ArchiveDoes(t, {c})
    BY <1>2, <2>1, <2>2 DEF ArchiveDoes
  <2> QED  BY <2>3
<1>8. CASE DeleteUpTo
  <2>1. /\ Task({"delete"}) /\ Called("ok") /\ index' = IndexAbove(index, t.upTo)
        /\ state' = IF t.upTo >= state.last THEN [state EXCEPT !.last = None] ELSE state
    BY <1>8 DEF DeleteUpTo
  <2>2. PICK c : /\ c.what = t
                 /\ \A x : x \in ToSet(core') <=> x \in ToSet(core) \/ x \in {c}
    BY <1>3, <2>1
  <2>3. state'.upTo = state.upTo /\ state'.version = state.version
    BY <1>1, <2>1 DEF StateFits
  <2>4. ArchiveDoes(t, {c})
    BY <1>2, <2>1, <2>2, <2>3 DEF ArchiveDoes
  <2> QED  BY <2>4
<1>9. CASE DropHistory
  <2>1. Task({"drop"}) /\ state' = state /\ core' = core
    BY <1>9 DEF DropHistory
  <2>2. ArchiveDoes(t, {})
    BY <1>2, <2>1 DEF ArchiveDoes
  <2> QED  BY <2>2
<1> QED  BY <1>4, <1>5, <1>6, <1>7, <1>8, <1>9 DEF Archive

\* merge_state() takes what is new, of the deletions and of the versions.
LEMMA MergedIs ==
    ASSUME ServerFits, StateFits(state), NEW new, NewFits(new), NEW s, s = Merged(new)
    PROVE  /\ s.upTo = state.upTo \/ (s.upTo = new.upTo /\ new.upTo > state.upTo)
           /\ s.version = state.version \/ (s.version = new.version /\ new.version > 0)
<1>1. /\ state \in [last : Opt(1..posted), upTo : 0..upTo, version : 0..Len(erased)]
      /\ upTo \in Nat
  BY LiveIds DEF StateFits
<1>2. state.upTo \in Int /\ new.upTo \in Int
  BY <1>1 DEF NewFits, None
<1>3. PICK m : m = Max({new.upTo, state.upTo})
  OBVIOUS
<1>4. m = state.upTo \/ (m = new.upTo /\ new.upTo > state.upTo)
  BY <1>2, <1>3, MaxOfTwo
<1>5. PICK patched \in BOOLEAN :
         /\ patched => new.version > 0
         /\ \/ s = state
            \/ s = [state EXCEPT !.upTo = m]
            \/ s = [last |-> new.last, upTo |-> m,
                    version |-> IF patched THEN new.version ELSE state.version]
  <2>1. PICK p : p = (new.version > 0 /\ new.version # state.version)
    OBVIOUS
  <2>2. p \in BOOLEAN
    BY <2>1
  <2>3. \/ s = state
        \/ s = [state EXCEPT !.upTo = m]
        \/ s = [last |-> new.last, upTo |-> m,
                version |-> IF p THEN new.version ELSE state.version]
    BY <1>3, <2>1 DEF Merged
  <2>4. p => new.version > 0
    BY <2>1
  <2> QED  BY <2>2, <2>3, <2>4
<1> QED  BY <1>1, <1>4, <1>5

\* The index has what is above, if it had.
LEMMA IdsStayAbove ==
    ASSUME DialogInv, [Next]_vars, \A id \in Ids(index) : id > state.upTo,
           state'.upTo = state.upTo
    PROVE  \A id \in Ids(index') : id > state'.upTo
<1>1. ServerFits /\ IndexFits(index) /\ StateFits(state)
  BY DEF DialogInv, DialogFits
<1>2. posted \in Nat /\ IsIndex(index, posted) /\ state.upTo \in Nat /\ upTo \in Nat
  BY <1>1, LiveIds DEF IndexFits, StateFits
<1>3. CASE index' = index
  BY <1>3
<1>4. ASSUME NEW to \in 0..upTo, index' = IndexAbove(index, to)
      PROVE  \A id \in Ids(index') : id > state'.upTo
  <2>1. \A id \in Ids(IndexAbove(index, to)) : id \in Ids(index)
    BY <1>2, AboveCases
  <2> QED  BY <1>4, <2>1
<1>5. CASE index' = <<>>
  BY <1>5 DEF Ids
<1>6. ASSUME NEW t, BlockFits(t.block),
             index' = InsertHistoryBlock(index, t.block, state.upTo, t.from, t.hasOlder)
      PROVE  \A id \in Ids(index') : id > state'.upTo
  <2>1. PICK new, b : new = InsertHistoryBlock(index, b, state.upTo, t.from, t.hasOlder) /\ b = t.block
    OBVIOUS
  <2>2. BlockUpTo(b, posted) /\ IdsDiffer(b) /\ Truthful(b, Live, Erased)
    BY <1>6, <2>1 DEF BlockFits
  <2>3. \A id \in Ids(new) : id \in Ids(index) \/ id > state.upTo
    BY ONLY <1>2, <2>1, <2>2, BlockShows
  <2>4. new = index'
    BY <1>6, <2>1
  <2> QED  BY <2>3, <2>4
<1> QED  BY <1>3, <1>4, <1>5, <1>6, IndexStep

\* A callback of the core thread.
LEMMA CoreDeletes ==
    ASSUME DialogInv, [Next]_vars, DeletedUpTo, Core
    PROVE  DeletedUpTo'
<1>1. PICK c : c = Head(core)
  OBVIOUS
<1>2. PICK N : CoreDoes(c, N)
  BY <1>1, CoreFollows
<1>3. /\ core # <<>> /\ core' = Tail(core) /\ state' = state /\ index' = index
      /\ \A x : x \in ToSet(archive') <=> x \in ToSet(archive) \/ x \in N
      /\ \A t \in N : Follows(c, t)
      /\ CallWillDelete(c) => \E t \in N : TaskWillDelete(t)
  BY <1>2 DEF CoreDoes
<1>4. \A x : x \in ToSet(core) <=> x \in ToSet(core') \/ x = c
  <2>1. core \in Seq(ToSet(core))
    BY Queues DEF IsQueue
  <2> QED  BY <1>1, <1>3, <2>1, ToSetTail
<1>5. /\ \A d \in ToSet(core) : CallDeletes(d)
      /\ \A t \in ToSet(archive) : TaskDeletes(t)
      /\ \/ \A id \in Ids(index) : id > state.upTo
         \/ \E d \in ToSet(core) : CallWillDelete(d)
         \/ \E t \in ToSet(archive) : TaskWillDelete(t)
  BY DEF DeletedUpTo
<1>6. ServerFits /\ StateFits(state) /\ CallbacksFit(core)
  BY DEF DialogInv, DialogFits
<1>7. state.upTo \in Nat
  BY <1>6, LiveIds DEF StateFits
<1>8. CallbackFits(c)
  BY <1>4, <1>6 DEF CallbacksFit
<1>9. \A t \in ToSet(archive') : TaskDeletes(t)
  <2> SUFFICES ASSUME NEW t \in N PROVE TaskDeletes(t)
    BY <1>3, <1>5
  <2>1. Follows(c, t) /\ CallDeletes(c)
    BY <1>3, <1>4, <1>5
  <2>2. CASE t.kind = "set"
    BY <1>7, <2>1, <2>2 DEF Follows, TaskDeletes, None
  <2>3. CASE t.kind = "clearset"
    BY <2>1, <2>3 DEF Follows, TaskDeletes, CallDeletes
  <2>4. CASE t.kind = "eventset"
    <3>1. c.what.kind = "event" /\ (t.new.upTo <= c.got.upTo \/ t.changes.upTo)
          /\ c.got.upTo <= state.upTo
      BY <2>1, <2>4 DEF Follows, CallDeletes
    <3>2. c.got.upTo \in Int
      BY <1>6, <1>8, <3>1, LiveIds DEF CallbackFits, StateKinds, StateFits
    <3>3. t.new.upTo \in Int
      <4>1. TasksFit(archive)'
        BY DialogStep DEF DialogInv, DialogFits
      <4>2. t \in ToSet(archive')
        BY <1>3
      <4>3. TaskFits(t)'
        BY <4>1, <4>2 DEF TasksFit
      <4>4. NewFits(t.new)' /\ ServerFits'
        BY <2>4, <4>3, DialogStep DEF TaskFits, DialogInv
      <4>5. t.new.upTo \in {None} \union 0..upTo' /\ upTo' \in Nat
        BY <4>4, DialogStep, ServerStep DEF NewFits, ServerGrows, DialogInv
      <4> QED  BY <4>5 DEF None
    <3> QED  BY <1>7, <2>4, <3>1, <3>2, <3>3 DEF TaskDeletes
  <2> QED  BY <2>2, <2>3, <2>4 DEF TaskDeletes
<1>10. \/ \A id \in Ids(index) : id > state.upTo
       \/ \E d \in ToSet(core') : CallWillDelete(d)
       \/ \E t \in ToSet(archive') : TaskWillDelete(t)
  BY <1>3, <1>4, <1>5
<1>11. \A d \in ToSet(core') : CallDeletes(d)
  BY <1>4, <1>5
<1> QED
  BY <1>3, <1>9, <1>10, <1>11 DEF DeletedUpTo, CallDeletes, TaskDeletes, CallWillDelete, TaskWillDelete

\* What was read of the state is not more than it is, if the state grows.
LEMMA ReadStays ==
    ASSUME DialogInv, DeletedUpTo, state'.upTo \in Int, state.upTo <= state'.upTo
    PROVE  /\ \A c \in ToSet(core) : CallDeletes(c)'
           /\ \A t \in ToSet(archive) : TaskDeletes(t)'
<1>1. ServerFits /\ StateFits(state) /\ CallbacksFit(core) /\ TasksFit(archive)
  BY DEF DialogInv, DialogFits
<1>2. upTo \in Nat /\ state.upTo \in Int
  BY <1>1, LiveIds DEF StateFits
<1>3. ASSUME NEW c \in ToSet(core) PROVE CallDeletes(c)'
  <2>1. CASE c.what.kind \in {"event", "clear"}
    <3>1. CallDeletes(c) /\ CallbackFits(c)
      BY <1>1, <1>3 DEF DeletedUpTo, CallbacksFit
    <3>2. c.got.upTo <= state.upTo
      BY <2>1, <3>1 DEF CallDeletes
    <3>3. c.got.upTo \in Int
      BY <1>2, <2>1, <3>1 DEF CallbackFits, StateKinds, StateFits
    <3>4. c.got.upTo <= state'.upTo
      BY <1>2, <3>2, <3>3
    <3> QED  BY <3>4 DEF CallDeletes
  <2>2. CASE c.what.kind \notin {"event", "clear"}
    BY <2>2 DEF CallDeletes
  <2> QED  BY <2>1, <2>2
<1>4. ASSUME NEW t \in ToSet(archive) PROVE TaskDeletes(t)'
  <2>1. CASE t.kind \in {"set", "clearset", "eventset"}
    <3>1. TaskDeletes(t) /\ TaskFits(t)
      BY <1>1, <1>4 DEF DeletedUpTo, TasksFit
    <3>2. NewFits(t.new)
      BY <2>1, <3>1 DEF TaskFits
    <3>3. t.new.upTo \in Int
      BY <1>2, <3>2 DEF NewFits, None
    <3>4. t.new.upTo <= state.upTo => t.new.upTo <= state'.upTo
      BY <1>2, <3>3
    <3>5. (t.kind # "eventset" => t.new.upTo <= state.upTo)
          /\ (t.kind = "eventset" => t.new.upTo <= state.upTo \/ t.changes.upTo)
      BY <2>1, <3>1 DEF TaskDeletes
    <3> QED  BY <2>1, <3>4, <3>5 DEF TaskDeletes
  <2>2. CASE t.kind \notin {"set", "clearset", "eventset"}
    BY <2>2 DEF TaskDeletes
  <2> QED  BY <2>1, <2>2
<1> QED  BY <1>3, <1>4

\* A task of the archive thread.
LEMMA ArchiveDeletes ==
    ASSUME DialogInv, [Next]_vars, DeletedUpTo, Archive
    PROVE  DeletedUpTo'
<1>1. PICK t : t = Head(archive)
  OBVIOUS
<1>2. PICK C : ArchiveDoes(t, C)
  BY <1>1, ArchiveFollows
<1>3. /\ archive # <<>> /\ archive' = Tail(archive)
      /\ \A x : x \in ToSet(core') <=> x \in ToSet(core) \/ x \in C
      /\ \A c \in C : c.what = t
      /\ t.kind \in {"open", "limits", "clear", "event", "eventset"} => \A c \in C : c.got = state'
      /\ t.kind \in {"eventset", "eventupdate"} => C # {}
      /\ t.kind \in {"set", "eventset", "clearset"} => state' = Merged(t.new)
      /\ t.kind \notin {"set", "eventset", "clearset"} => state'.upTo = state.upTo
      /\ t.kind = "delete" => index' = IndexAbove(index, t.upTo)
  BY <1>2 DEF ArchiveDoes
<1>4. \A x : x \in ToSet(archive) <=> x \in ToSet(archive') \/ x = t
  <2>1. archive \in Seq(ToSet(archive))
    BY Queues DEF IsQueue
  <2> QED  BY <1>1, <1>3, <2>1, ToSetTail
<1>5. /\ \A u \in ToSet(archive) : TaskDeletes(u)
      /\ \/ \A id \in Ids(index) : id > state.upTo
         \/ \E c \in ToSet(core) : CallWillDelete(c)
         \/ \E u \in ToSet(archive) : TaskWillDelete(u)
  BY DEF DeletedUpTo
<1>6. ServerFits /\ StateFits(state) /\ TasksFit(archive) /\ IndexFits(index)
  BY DEF DialogInv, DialogFits
<1>7. upTo \in Nat /\ state.upTo \in Int
  BY <1>6, LiveIds DEF StateFits
<1>8. TaskFits(t) /\ TaskDeletes(t)
  BY <1>4, <1>5, <1>6 DEF TasksFit
<1>9. \/ state'.upTo = state.upTo
      \/ t.kind = "eventset" /\ t.changes.upTo /\ state'.upTo = t.new.upTo /\ t.new.upTo > state.upTo
         /\ t.new.upTo \in Int
  <2>1. CASE t.kind \in {"set", "eventset", "clearset"}
    <3>1. NewFits(t.new)
      BY <1>8, <2>1 DEF TaskFits
    <3>2. t.new.upTo \in Int
      BY <1>7, <3>1 DEF NewFits, None
    <3>3. \/ state'.upTo = state.upTo
          \/ state'.upTo = t.new.upTo /\ t.new.upTo > state.upTo
      BY <1>3, <1>6, <2>1, <3>1, MergedIs
    <3>4. (t.kind # "eventset" => t.new.upTo <= state.upTo)
          /\ (t.kind = "eventset" => t.new.upTo <= state.upTo \/ t.changes.upTo)
      BY <1>8, <2>1 DEF TaskDeletes
    <3>5. ~(t.new.upTo <= state.upTo /\ t.new.upTo > state.upTo)
      BY <1>7, <3>2
    <3> QED  BY <3>2, <3>3, <3>4, <3>5
  <2> QED  BY <1>3, <2>1
<1>10. state'.upTo \in Int /\ state.upTo <= state'.upTo
  BY <1>7, <1>9
<1>11. \A u \in ToSet(archive') : TaskDeletes(u)'
  BY <1>4, <1>10, ReadStays
<1>12. \A c \in ToSet(core') : CallDeletes(c)'
  <2>1. ASSUME NEW c \in C PROVE CallDeletes(c)'
    <3>1. CASE c.what.kind \in {"event", "clear"}
      <4>1. c.got = state'
        BY <1>3, <2>1, <3>1
      <4>2. c.got.upTo <= state'.upTo
        BY <1>10, <4>1
      <4> QED  BY <4>2 DEF CallDeletes
    <3>2. CASE c.what.kind \notin {"event", "clear"}
      BY <3>2 DEF CallDeletes
    <3> QED  BY <3>1, <3>2
  <2> QED  BY <1>3, <1>10, <2>1, ReadStays
<1>13. \/ \A id \in Ids(index') : id > state'.upTo
       \/ \E c \in ToSet(core') : CallWillDelete(c)'
       \/ \E u \in ToSet(archive') : TaskWillDelete(u)'
  <2>1. CASE t.kind = "eventset" /\ t.changes.upTo /\ state'.upTo = t.new.upTo
    <3>1. PICK c \in C : c.what = t /\ c.got = state'
      BY <1>3, <2>1
    <3>2. c.what.kind = "eventset" /\ c.what.changes.upTo /\ state'.upTo <= c.got.upTo
      BY <1>10, <2>1, <3>1
    <3>3. CallWillDelete(c)'
      BY <3>2 DEF CallWillDelete
    <3> QED  BY <1>3, <3>1, <3>3
  <2>2. CASE state'.upTo = state.upTo
    <3>1. CASE \A id \in Ids(index) : id > state.upTo
      BY <2>2, <3>1, IdsStayAbove
    <3>2. ASSUME NEW c \in ToSet(core), CallWillDelete(c) PROVE CallWillDelete(c)' /\ c \in ToSet(core')
      BY <1>3, <2>2, <3>2 DEF CallWillDelete
    <3>3. ASSUME NEW u \in ToSet(archive'), TaskWillDelete(u) PROVE TaskWillDelete(u)'
      BY <2>2, <3>3 DEF TaskWillDelete
    <3>4. CASE TaskWillDelete(t) /\ t.kind = "eventupdate"
      <4>1. PICK c \in C : c.what = t
        BY <1>3, <3>4
      <4>2. CallWillDelete(c)'
        BY <2>2, <3>4, <4>1 DEF CallWillDelete, TaskWillDelete
      <4> QED  BY <1>3, <4>1, <4>2
    <3>5. CASE TaskWillDelete(t) /\ t.kind = "delete"
      <4>1. index' = IndexAbove(index, t.upTo) /\ state.upTo <= t.upTo
        BY <1>3, <3>5 DEF TaskWillDelete
      <4>2. t.upTo \in 0..upTo
        BY <1>8, <3>5 DEF TaskFits
      <4>3. t.upTo \in Nat /\ posted \in Nat /\ IsIndex(index, posted)
        BY <1>6, <1>7, <4>2, LiveIds DEF IndexFits
      <4>4. \A id \in Ids(IndexAbove(index, t.upTo)) : id \in Ids(index) /\ id > t.upTo
        BY <4>3, AboveCases
      <4>5. \A id \in Ids(index) : id \in Int
        BY <4>3 DEF IsIndex
      <4>6. \A id \in Ids(IndexAbove(index, t.upTo)) : id > state.upTo
        BY <1>7, <4>1, <4>3, <4>4, <4>5
      <4> QED  BY <2>2, <4>1, <4>6
    <3>6. TaskWillDelete(t) => t.kind \in {"eventupdate", "delete"}
      BY DEF TaskWillDelete
    <3> QED  BY <1>4, <1>5, <3>1, <3>2, <3>3, <3>4, <3>5, <3>6
  <2> QED  BY <1>9, <2>1, <2>2
<1> QED  BY <1>11, <1>12, <1>13 DEF DeletedUpTo

\* The steps of the server, of the network and of the user read nothing of the state.
OthersDo ==
    /\ UNCHANGED <<index, state, late>>
    /\ \A x \in ToSet(core) : x \in ToSet(core')
    /\ \A x \in ToSet(core') :
          \/ x \in ToSet(core)
          \/ x.what.kind \in {"answer", "fail"} /\ \E j \in DOMAIN net : x.what.req = net[j].req
    /\ \A x \in ToSet(archive) : x \in ToSet(archive')
    /\ \A x \in ToSet(archive') : x \in ToSet(archive) \/ x.kind \in {"event", "open", "next"}
    /\ \A i \in DOMAIN net' : \E j \in DOMAIN net : net'[i].req = net[j].req

\* A callback comes behind the others.
LEMMA CoreComes ==
    ASSUME IsQueue(core), NEW c, core' = Append(core, c)
    PROVE  \A x : x \in ToSet(core') <=> x \in ToSet(core) \/ x = c
<1>1. PICK S : S = ToSet(core) \union {c}
  OBVIOUS
<1>2. core \in Seq(S) /\ c \in S
  BY <1>1, SeqMonotonic DEF IsQueue
<1>3. ToSet(Append(core, c)) = ToSet(core) \union {c}
  BY <1>2, ToSetAppend
<1> QED  BY <1>3

\* So it is: they bring answers, events and requests to open or to go on.
LEMMA OthersFollow ==
    ASSUME DialogInv, Server \/ Network \/ User \/ UNCHANGED vars
    PROVE  OthersDo
<1>1. IsQueue(archive) /\ IsQueue(core) /\ IsQueue(net) /\ NetFits(net)
  BY Queues DEF DialogInv, DialogFits
<1>2. net # <<>> =>
        /\ 1 \in DOMAIN net /\ Head(net) = net[1]
        /\ \A i \in DOMAIN Tail(net) : i + 1 \in DOMAIN net /\ Tail(net)[i] = net[i + 1]
  <2>1. net \in Seq(ToSet(net))
    BY <1>1 DEF IsQueue
  <2> QED  BY <2>1
<1>3. net # <<>> /\ net' = Tail(net) => \A i \in DOMAIN net' : \E j \in DOMAIN net : net'[i].req = net[j].req
  BY <1>2
<1>4. ASSUME NEW t, PostTask(t), t.kind \in {"event", "open", "next"}, core' = core, net' = net,
             UNCHANGED <<index, state, late>>
      PROVE  OthersDo
  <2>1. \A x : x \in ToSet(archive') <=> x \in ToSet(archive) \/ x = t
    BY <1>1, <1>4, PostedIs
  <2> QED  BY <1>4, <2>1 DEF OthersDo
<1>5. ASSUME NEW c, core' = Append(core, c), c.what.kind \in {"answer", "fail"},
             \E j \in DOMAIN net : c.what.req = net[j].req, net # <<>>, net' = Tail(net),
             archive' = archive, UNCHANGED <<index, state, late>>
      PROVE  OthersDo
  <2>1. \A x : x \in ToSet(core') <=> x \in ToSet(core) \/ x = c
    BY <1>1, <1>5, CoreComes
  <2> QED  BY <1>3, <1>5, <2>1 DEF OthersDo
<1>6. CASE Server \/ SendEvent \/ UNCHANGED vars
  <2>1. UNCHANGED <<index, state, late, archive, core, net>>
    BY <1>6 DEF Server, Post, Erase, DeleteAll, SendEvent, client, queues, history, vars
  <2> QED  BY <2>1 DEF OthersDo
<1>7. CASE Serve
  <2>1. /\ net # <<>> /\ UNCHANGED <<index, state, late, archive, core>>
        /\ net' = [net EXCEPT ![1].answer = <<Answer(Head(net).req)>>]
    BY <1>7 DEF Serve, client, history
  <2>2. PICK a : a = <<Answer(Head(net).req)>>
    OBVIOUS
  <2>3. PICK r, b : net[1] = [req |-> r, answer |-> b]
    BY <1>1, <1>2, <2>1 DEF NetFits, SentFits
  <2>4. net' = [net EXCEPT ![1] = [net[1] EXCEPT !.answer = a]]
    BY <2>1, <2>2
  <2>5. [net[1] EXCEPT !.answer = a] = [req |-> r, answer |-> a]
    BY <2>3
  <2>6. PICK f : f = [req |-> r, answer |-> a]
    OBVIOUS
  <2>7. net' = [net EXCEPT ![1] = f]
    BY <2>4, <2>5, <2>6
  <2>8. net \in Seq(ToSet(net))
    BY <1>1 DEF IsQueue
  <2>9. DOMAIN net' = DOMAIN net /\ \A i \in DOMAIN net : net'[i] = IF i = 1 THEN f ELSE net[i]
    BY <2>7, <2>8
  <2>10. f.req = net[1].req
    BY <2>3, <2>6
  <2>11. \A i \in DOMAIN net : net'[i].req = net[i].req
    BY <2>9, <2>10
  <2> QED  BY <2>1, <2>9, <2>11 DEF OthersDo
<1>8. CASE Arrive
  <2>1. /\ net # <<>> /\ net' = Tail(net) /\ UNCHANGED <<index, state, late, archive>>
        /\ core' = Append(core, Result([kind |-> "answer", req |-> Head(net).req],
                                       Head(net).answer[1]))
    BY <1>8 DEF Arrive, client, history
  <2>2. PICK c : c = Result([kind |-> "answer", req |-> Head(net).req], Head(net).answer[1])
    OBVIOUS
  <2>3. c.what.kind = "answer" /\ c.what.req = Head(net).req
    BY <2>2 DEF Result
  <2> QED  BY <1>2, <1>5, <2>1, <2>2, <2>3
<1>9. CASE Fail
  <2>1. net # <<>> /\ net' = Tail(net) /\ UNCHANGED <<index, state, late, archive>>
    BY <1>9 DEF Fail, client, history
  <2>2. PICK error : core' = Append(core, Result([kind |-> "fail", req |-> Head(net).req], error))
    BY <1>9 DEF Fail
  <2>3. PICK c : c = Result([kind |-> "fail", req |-> Head(net).req], error)
    OBVIOUS
  <2>4. c.what.kind = "fail" /\ c.what.req = Head(net).req
    BY <2>3 DEF Result
  <2> QED  BY <1>2, <1>5, <2>1, <2>2, <2>3, <2>4
<1>10. CASE DeliverEvent
  <2>1. net' = net /\ core' = core /\ UNCHANGED <<index, state, late>>
        /\ PostTask([kind |-> "event", news |-> event[1].news, tail |-> event[1].tail])
    BY <1>10 DEF DeliverEvent, client, history
  <2>2. PICK t : t = [kind |-> "event", news |-> event[1].news, tail |-> event[1].tail]
    OBVIOUS
  <2> QED  BY <1>4, <2>1, <2>2
<1>11. CASE User
  <2>1. net' = net /\ core' = core /\ UNCHANGED <<index, state, late>>
    BY <1>11 DEF User, OpenDialog, Resume, history
  <2>2. PICK t : PostTask(t) /\ (t = OpenTask \/ \E call : t = NextHoleTask(call))
    BY <1>11 DEF User, OpenDialog, Resume
  <2>3. t.kind \in {"open", "next"}
    BY <2>2 DEF OpenTask, NextHoleTask
  <2> QED  BY <1>4, <2>1, <2>2, <2>3
<1> QED  BY <1>6, <1>7, <1>8, <1>9, <1>10, <1>11 DEF Network

\* What was read of the deletions is kept by every step.
LEMMA DeletesStep ==
    ASSUME DialogInv, DeletedUpTo, [Next]_vars
    PROVE  DeletedUpTo'
<1>1. CASE Server \/ Network \/ User \/ UNCHANGED vars
  <2>1. OthersDo
    BY <1>1, OthersFollow
  <2>2. /\ state' = state /\ index' = index
        /\ \A x \in ToSet(core) : x \in ToSet(core')
        /\ \A x \in ToSet(core') : x \in ToSet(core) \/ x.what.kind \in {"answer", "fail"}
        /\ \A x \in ToSet(archive) : x \in ToSet(archive')
        /\ \A x \in ToSet(archive') : x \in ToSet(archive) \/ x.kind \in {"event", "open", "next"}
    BY <2>1 DEF OthersDo
  <2>3. /\ \A c \in ToSet(core) : CallDeletes(c)
        /\ \A t \in ToSet(archive) : TaskDeletes(t)
        /\ \/ \A id \in Ids(index) : id > state.upTo
           \/ \E c \in ToSet(core) : CallWillDelete(c)
           \/ \E t \in ToSet(archive) : TaskWillDelete(t)
    BY DEF DeletedUpTo
  <2>4. \A c \in ToSet(core') : CallDeletes(c)
    <3>1. \A c : c.what.kind \in {"answer", "fail"} => CallDeletes(c)
      BY DEF CallDeletes
    <3> QED  BY <2>2, <2>3, <3>1
  <2>5. \A t \in ToSet(archive') : TaskDeletes(t)
    <3>1. \A t : t.kind \in {"event", "open", "next"} => TaskDeletes(t)
      BY DEF TaskDeletes
    <3> QED  BY <2>2, <2>3, <3>1
  <2>6. \/ \A id \in Ids(index) : id > state.upTo
        \/ \E c \in ToSet(core') : CallWillDelete(c)
        \/ \E t \in ToSet(archive') : TaskWillDelete(t)
    BY <2>2, <2>3
  <2> QED
    BY <2>2, <2>4, <2>5, <2>6 DEF DeletedUpTo, CallDeletes, TaskDeletes, CallWillDelete, TaskWillDelete
<1>2. CASE Core
  BY <1>2, CoreDeletes
<1>3. CASE Archive
  BY <1>3, ArchiveDeletes
<1> QED  BY <1>1, <1>2, <1>3 DEF Next, Others

-----------------------------------------------------------------------------
(* The patches of the versions there are.                                  *)

\* What is not shown is shown again only by a block that has it.
LEMMA HiddenStays ==
    ASSUME DialogInv, [Next]_vars, ~late', NEW q \in Erased, ~Shows(q),
           UpdateHistory /\ Head(archive).kind = "update" => q \notin MessagesOf(Head(archive).block)
    PROVE  ~Shows(q)'
<1>1. /\ ServerFits /\ IndexFits(index) /\ StateFits(state) /\ StateFits(state)' /\ ServerFits'
  BY DialogStep DEF DialogInv, DialogFits
<1>2. /\ posted \in Nat /\ IsIndex(index, posted) /\ state.upTo \in Nat /\ upTo \in Nat
      /\ q \in Nat /\ upTo' \in Nat
  BY <1>1, LiveIds, ServerStep DEF IndexFits, StateFits, ServerGrows
<1>3. state'.upTo \in Nat /\ state.upTo <= state'.upTo
  <2>1. state'.upTo \in 0..upTo'
    BY <1>1 DEF StateFits
  <2>2. \/ state' = state
        \/ state'.upTo = state.upTo
        \/ \E new : NewFits(new) /\ state' = Merged(new)
    <3>1. CASE Archive
      <4>1. PICK t : t = Head(archive)
        OBVIOUS
      <4>2. PICK C : ArchiveDoes(t, C)
        BY <3>1, <4>1, ArchiveFollows
      <4>3. CASE t.kind \in {"set", "eventset", "clearset"}
        <5>1. TaskFits(t)
          <6>1. TasksFit(archive) /\ archive # <<>>
            BY <4>2 DEF ArchiveDoes, DialogInv, DialogFits
          <6> QED  BY <4>1, <6>1, QueueTail DEF TasksFit
        <5> QED  BY <4>2, <4>3, <5>1 DEF TaskFits, ArchiveDoes
      <4>4. CASE t.kind \notin {"set", "eventset", "clearset"}
        BY <4>2, <4>4 DEF ArchiveDoes
      <4> QED  BY <4>3, <4>4
    <3>2. CASE Core
      BY <3>2, CoreFollows DEF CoreDoes
    <3>3. CASE Server \/ Network \/ User \/ UNCHANGED vars
      BY <3>3, OthersFollow DEF OthersDo
    <3> QED  BY <3>1, <3>2, <3>3 DEF Next, Others
  <2>3. ASSUME NEW new, NewFits(new), state' = Merged(new) PROVE state.upTo <= state'.upTo
    <3>1. PICK s : s = Merged(new)
      OBVIOUS
    <3>2. s.upTo = state.upTo \/ (s.upTo = new.upTo /\ new.upTo > state.upTo)
      BY <1>1, <2>3, <3>1, MergedIs
    <3>3. new.upTo \in Int
      BY <1>2, <2>3 DEF NewFits, None
    <3>4. s.upTo >= state.upTo
      BY <1>2, <3>2, <3>3
    <3>5. s.upTo = state'.upTo
      BY <2>3, <3>1
    <3>6. s.upTo \in Int
      BY <1>2, <3>2, <3>3
    <3> QED  BY <1>2, <3>4, <3>5, <3>6
  <2> QED  BY <1>2, <2>1, <2>2, <2>3
<1>4. q > state'.upTo => q > state.upTo
  BY <1>2, <1>3
<1>5. SUFFICES ASSUME q \in Shown(index'), q > state'.upTo PROVE FALSE
  BY DEF Shows
<1>6. q \notin Shown(index)
  BY <1>4, <1>5 DEF Shows
<1>7. ASSUME NEW to \in 0..upTo, index' = IndexAbove(index, to) PROVE FALSE
  <2>1. PICK new : new = IndexAbove(index, to)
    OBVIOUS
  <2>2. to \in Nat
    BY <1>2
  <2>3. /\ \A id \in Ids(new) : id \in Ids(index)
        /\ \A id \in Ids(new) : new[id].patch = index[id].patch /\ new[id].deleted = index[id].deleted
    <3>1. posted \in Nat /\ IsIndex(index, posted)
      BY <1>2
    <3>2. /\ Ids(new) = {id \in Ids(index) : id > to}
          /\ \A id \in Ids(new) : new[id].patch = index[id].patch /\ new[id].deleted = index[id].deleted
      BY ONLY <2>1, <2>2, <3>1, AboveCases
    <3> QED  BY <3>2
  <2>4. \A id \in Shown(new) : id \in Shown(index)
    BY <2>3 DEF Shown
  <2> QED  BY <1>5, <1>6, <1>7, <2>1, <2>4
<1>8. CASE index' = <<>>
  BY <1>5, <1>8 DEF Shown, Ids
<1>9. ASSUME UpdateHistory, NEW t, t = Head(archive), BlockFits(t.block),
             t.kind \in {"update", "eventupdate"},
             index' = InsertHistoryBlock(index, t.block, state.upTo, t.from, t.hasOlder),
             late' = (late \/ (t.kind = "eventupdate" /\ MessagesOf(t.block) \intersect Erased # {}))
      PROVE  FALSE
  <2>1. PICK new, b : new = InsertHistoryBlock(index, b, state.upTo, t.from, t.hasOlder) /\ b = t.block
    OBVIOUS
  <2>2. BlockUpTo(b, posted) /\ IdsDiffer(b) /\ Truthful(b, Live, Erased)
    BY <1>9, <2>1 DEF BlockFits
  <2>3. \A id \in Shown(new) : id \in Shown(index) \/ id \in MessagesOf(b)
    BY ONLY <1>2, <2>1, <2>2, BlockShows
  <2>4. q \notin MessagesOf(b)
    <3>1. CASE t.kind = "update"
      BY <1>9, <2>1, <3>1
    <3>2. CASE t.kind = "eventupdate"
      <4>1. MessagesOf(t.block) \intersect Erased = {}
        BY <1>9, <3>2
      <4> QED  BY <2>1, <4>1
    <3> QED  BY <1>9, <3>1, <3>2
  <2> QED  BY <1>5, <1>6, <1>9, <2>1, <2>3, <2>4
<1> QED  BY <1>5, <1>6, <1>7, <1>8, <1>9, IndexStep

\* The patches of the block that is inserted are applied.
LEMMA PatchHides ==
    ASSUME DialogInv, [Next]_vars, UpdateHistory, NEW b, b = Head(archive).block, NEW q \in PatchesOf(b),
           q \in Nat
    PROVE  ~Shows(q)'
<1>1. /\ ServerFits /\ IndexFits(index) /\ StateFits(state)
  BY DEF DialogInv, DialogFits
<1>2. posted \in Nat /\ IsIndex(index, posted) /\ state.upTo \in Nat
  BY <1>1, LiveIds DEF IndexFits, StateFits
<1>3. PICK t : t = Head(archive)
  OBVIOUS
<1>4. /\ Task({"update", "eventupdate"}) /\ state' = state
      /\ index' = InsertHistoryBlock(index, t.block, state.upTo, t.from, t.hasOlder)
  BY <1>3 DEF UpdateHistory
<1>5. BlockFits(b)
  <2>1. TaskFits(t) /\ t.kind \in {"update", "eventupdate"}
    BY <1>3, <1>4, TaskTaken DEF DialogInv, DialogFits
  <2> QED  BY <1>3, <2>1 DEF TaskFits, TailFits
<1>6. PICK new : new = InsertHistoryBlock(index, b, state.upTo, t.from, t.hasOlder)
  OBVIOUS
<1>7. BlockUpTo(b, posted) /\ IdsDiffer(b) /\ Truthful(b, Live, Erased)
  BY <1>5 DEF BlockFits
<1>8. \A id \in PatchesOf(b) : id > state.upTo => id \notin Shown(new)
  BY ONLY <1>2, <1>6, <1>7, BlockShows
<1>9. new = index'
  BY <1>3, <1>4, <1>6
<1> QED  BY <1>4, <1>8, <1>9 DEF Shows

\* What has been said not to be shown any more goes on not to be, or to be about to.
LEMMA SettledStays ==
    ASSUME DialogInv, AnswersInOrder, [Next]_vars, ~late', NEW q \in Erased, Settled(q)
    PROVE  Settled(q)'
<1>1. q \notin Live /\ q \in Nat
  BY LiveIds DEF DialogInv
<1>2. ASSUME NEW b, InsertsFirst(b), UpdateHistory, b = Head(archive).block, q \in PatchesOf(b)
      PROVE  Gone(q)'
  <2>1. ~Shows(q)'
    BY <1>1, <1>2, PatchHides
  <2>2. \A t \in Stages : \A c \in Blocks(t)' : q \notin MessagesOf(c)
    BY <1>2 DEF InsertsFirst, Behind
  <2> QED  BY <2>1, <2>2 DEF Gone
<1>3. CASE Gone(q)
  <2>1. ~Shows(q) /\ \A s \in Stages : \A b \in Blocks(s) : q \notin MessagesOf(b)
    BY <1>3 DEF Gone
  <2>2. UpdateHistory /\ Head(archive).kind = "update" => q \notin MessagesOf(Head(archive).block)
    <3>1. UpdateHistory /\ Head(archive).kind = "update" => Head(archive).block \in Blocks(6)
      BY ArchiveInserts DEF InsertsFirst
    <3>2. 6 \in Stages
      BY DEF Stages
    <3> QED  BY <2>1, <3>1, <3>2
  <2>3. ~Shows(q)'
    BY <2>1, <2>2, HiddenStays
  <2>4. \A s \in Stages : \A b \in Blocks(s)' : q \notin MessagesOf(b)
    <3>1. CASE Keeps
      BY <2>1, <3>1 DEF Keeps
    <3>2. ASSUME NEW s, NEW b, Moves(s, b)
          PROVE  \A t \in Stages : \A c \in Blocks(t)' : q \notin MessagesOf(c)
      <4>1. s \in Stages /\ b \in Blocks(s)
            /\ \A t \in Stages : \A c \in Blocks(t)' : c \in Blocks(t) \/ (t = s + 1 /\ c = b)
        BY <3>2 DEF Moves, Stages
      <4> QED  BY <2>1, <4>1
    <3>3. ASSUME NEW b, Serves(b)
          PROVE  \A t \in Stages : \A c \in Blocks(t)' : q \notin MessagesOf(c)
      BY <1>1, <2>1, <3>3 DEF Serves
    <3>4. ASSUME NEW b, InsertsFirst(b)
          PROVE  \A t \in Stages : \A c \in Blocks(t)' : q \notin MessagesOf(c)
      BY <2>1, <3>4 DEF InsertsFirst
    <3> QED  BY <3>1, <3>2, <3>3, <3>4, BlocksStep
  <2>5. Gone(q)'
    BY <2>3, <2>4 DEF Gone
  <2> QED  BY <2>5 DEF Settled
<1>4. CASE PatchWaits(q)
  <2>1. PICK s \in {5, 6} : \E b \in Blocks(s) : q \in PatchesOf(b)
    BY <1>4 DEF PatchWaits
  <2>2. PICK b \in Blocks(s) : q \in PatchesOf(b)
    BY <2>1
  <2>3. ASSUME NEW r \in {5, 6}, b \in Blocks(r)' PROVE PatchWaits(q)'
    BY <2>2, <2>3 DEF PatchWaits
  <2>4. CASE Keeps
    <3>1. b \in Blocks(s)'
      BY <2>4 DEF Keeps
    <3> QED  BY <2>3, <3>1 DEF Settled
  <2>5. ASSUME NEW r, NEW c, Moves(r, c) PROVE Settled(q)'
    <3>1. /\ r \in 0..5 /\ c \in Blocks(r + 1)'
          /\ b \in Blocks(s)' \/ (s = r /\ b = c)
      BY <2>5 DEF Moves
    <3>2. CASE b \in Blocks(s)'
      BY <2>3, <3>2 DEF Settled
    <3>3. CASE s = r /\ b = c
      <4>1. r + 1 = 6
        BY <3>1, <3>3
      <4>2. b \in Blocks(6)'
        BY <3>1, <3>3, <4>1
      <4> QED  BY <2>3, <4>2 DEF Settled
    <3> QED  BY <3>1, <3>2, <3>3
  <2>6. ASSUME NEW c, Serves(c) PROVE Settled(q)'
    <3>1. b \in Blocks(s)'
      BY <2>6 DEF Serves
    <3> QED  BY <2>3, <3>1 DEF Settled
  <2>7. ASSUME NEW c, UpdateHistory, c = Head(archive).block, InsertsFirst(c) PROVE Settled(q)'
    <3>1. b \in Blocks(s)' \/ b = c
      BY <2>7 DEF InsertsFirst
    <3>2. CASE b \in Blocks(s)'
      BY <2>3, <3>2 DEF Settled
    <3>3. CASE b = c
      BY <1>2, <2>2, <2>7, <3>3 DEF Settled
    <3> QED  BY <3>1, <3>2, <3>3
  <2> QED  BY <2>4, <2>5, <2>6, <2>7, BlocksStep
<1> QED  BY <1>3, <1>4 DEF Settled

\* A version there are the patches of goes on to be one.
LEMMA KnownStays ==
    ASSUME DialogInv, AnswersInOrder, [Next]_vars, ~late', NEW v \in 0..Len(erased), Known(v)
    PROVE  Known(v)'
<1>1. ServerFits /\ ServerGrows
  BY ServerStep DEF DialogInv
<1>2. ASSUME NEW i \in 1..v PROVE Settled(erased[i])' /\ erased'[i] = erased[i]
  <2>1. i \in 1..Len(erased) /\ Len(erased) \in Nat
    BY <1>1 DEF ServerGrows
  <2>2. PICK q : q = erased[i]
    OBVIOUS
  <2>3. q \in Erased
    <3>1. i \in DOMAIN erased
      BY <1>1, <2>1 DEF ServerFits
    <3> QED  BY <2>2, <3>1 DEF Erased
  <2>4. Settled(q)'
    BY <1>2, <2>2, <2>3, SettledStays DEF Known
  <2>5. erased'[i] = q
    BY <1>1, <2>1, <2>2 DEF ServerGrows
  <2> QED  BY <2>2, <2>4, <2>5
<1> QED  BY <1>2 DEF Known

\* The versions that are read, asked for or set again are versions there were.
LEMMA VersionsAre ==
    ASSUME DialogInv
    PROVE  /\ state.version \in 0..Len(erased)
           /\ \A i \in DOMAIN net : net[i].req.version \in 0..Len(erased)
           /\ \A c \in ToSet(core) : CallVersions(c) \subseteq 0..Len(erased)
           /\ \A t \in ToSet(archive) : TaskVersions(t) \subseteq 0..Len(erased)
<1>1. ServerFits /\ StateFits(state) /\ TasksFit(archive) /\ CallbacksFit(core) /\ NetFits(net)
  BY DEF DialogInv, DialogFits
<1>2. state.version \in 0..Len(erased)
  BY <1>1 DEF StateFits
<1>3. \A i \in DOMAIN net : net[i].req.version \in 0..Len(erased)
  BY <1>1 DEF NetFits, SentFits, RequestFits
<1>4. ASSUME NEW t, TaskFits(t) PROVE TaskVersions(t) \subseteq 0..Len(erased)
  BY <1>4 DEF TaskFits, TaskVersions, RequestFits, NewFits
<1>5. ASSUME NEW c \in ToSet(core) PROVE CallVersions(c) \subseteq 0..Len(erased)
  <2>1. CallbackFits(c)
    BY <1>1, <1>5 DEF CallbacksFit
  <2>2. CASE c.what.kind \in {"open", "limits", "clear", "eventset"}
    BY <2>1, <2>2 DEF CallbackFits, StateKinds, StateFits, CallVersions
  <2>3. CASE c.what.kind = "answer"
    BY <2>1, <2>3 DEF CallbackFits, RequestFits, CallVersions
  <2>4. CASE c.what.kind = "answered"
    BY <2>1, <2>4 DEF CallbackFits, TaskFits, RequestFits, CallVersions
  <2> QED  BY <2>2, <2>3, <2>4 DEF CallVersions
<1> QED  BY <1>1, <1>2, <1>3, <1>4, <1>5 DEF TasksFit

\* The versions there are after a step, each known then.
LEMMA VersionsKnownNext ==
    ASSUME ~late' =>
              /\ \A v : v = state'.version => Known(v)'
              /\ \A i \in DOMAIN net' : \A v : v = net'[i].req.version => Known(v)'
              /\ \A c \in ToSet(core') : \A v \in CallVersions(c) : Known(v)'
              /\ \A t \in ToSet(archive') : \A v \in TaskVersions(t) : Known(v)'
    PROVE  VersionsKnown'
<1>0. SUFFICES ASSUME ~late'
               PROVE  (/\ Known(state.version)
                       /\ \A i \in DOMAIN net : Known(net[i].req.version)
                       /\ \A c \in ToSet(core) : \A v \in CallVersions(c) : Known(v)
                       /\ \A t \in ToSet(archive) : \A v \in TaskVersions(t) : Known(v))'
  BY DEF VersionsKnown
<1>2. Known(state.version)'
  <2>1. PICK v : v = state'.version
    OBVIOUS
  <2>2. Known(v)'
    BY <1>0, <2>1
  <2> QED  BY <2>1, <2>2
<1>3. (\A i \in DOMAIN net : Known(net[i].req.version))'
  <2> SUFFICES ASSUME NEW i \in DOMAIN net' PROVE Known(net[i].req.version)'
    OBVIOUS
  <2>1. PICK v : v = net'[i].req.version
    OBVIOUS
  <2>2. Known(v)'
    BY <1>0, <2>1
  <2> QED  BY <2>1, <2>2
<1>4. (\A c \in ToSet(core) : \A v \in CallVersions(c) : Known(v))'
  <2> SUFFICES ASSUME NEW c \in ToSet(core'), NEW v \in CallVersions(c) PROVE Known(v)'
    OBVIOUS
  <2> QED  BY <1>0
<1>5. (\A t \in ToSet(archive) : \A v \in TaskVersions(t) : Known(v))'
  <2> SUFFICES ASSUME NEW t \in ToSet(archive'), NEW v \in TaskVersions(t) PROVE Known(v)'
    OBVIOUS
  <2> QED  BY <1>0
<1> QED  BY <1>2, <1>3, <1>4, <1>5

\* A set_dlg_state of an answer: the patches since the version asked for are on their
\* way with it.
LEMMA AnswerIsKnown ==
    ASSUME DialogInv, AnswersInOrder, VersionsKnown, [Next]_vars, ~late, ~late',
           NEW t, NEW C, ArchiveDoes(t, C), t.kind = "set"
    PROVE  Known(t.new.version)'
<1>1. ServerFits /\ ServerGrows /\ TasksFit(archive) /\ IsQueue(archive)
  BY Queues, ServerStep DEF DialogInv, DialogFits
<1>2. t \in ToSet(archive)
  BY <1>1, QueueTail DEF ArchiveDoes
<1>3. TaskFits(t)
  BY <1>1, <1>2 DEF TasksFit
<1>4. PICK a, r, w : a = t.answer /\ r = t.req.version /\ w = t.new.version
  OBVIOUS
<1>5. /\ r \in 0..Len(erased) /\ w \in r..Len(erased)
      /\ \A i \in (r + 1)..w : erased[i] \in PatchesOf(a.block)
  BY <1>3, <1>4 DEF TaskFits, RequestFits, AnswerFits
<1>6. Len(erased) \in Nat
  BY <1>1, LiveIds
<1>7. Known(r)
  BY <1>2, <1>4 DEF VersionsKnown, TaskVersions
<1>8. Known(r)'
  BY <1>5, <1>7, KnownStays
<1>9. a.block \in Blocks(5)'
  <2>1. PICK c \in C : c.what = t /\ c \in ToSet(core')
    BY DEF ArchiveDoes
  <2>2. CallStage(c) = 5 /\ CallBlock(c) = a.block
    BY <1>4, <2>1 DEF CallStage, CallBlock
  <2>3. a.block \in CallBlocks(core', 5)
    BY <2>1, <2>2 DEF CallBlocks
  <2> QED  BY <2>3 DEF Blocks
<1>10. ASSUME NEW i \in 1..w PROVE Settled(erased[i])'
  <2>1. i \in 1..r \/ i \in (r + 1)..w
    BY <1>5, <1>6
  <2>2. CASE i \in 1..r
    BY <1>8, <2>2 DEF Known
  <2>3. CASE i \in (r + 1)..w
    <3>1. PICK q : q = erased[i]
      OBVIOUS
    <3>2. q \in PatchesOf(a.block)
      BY <1>5, <2>3, <3>1
    <3>3. PatchWaits(q)'
      BY <1>9, <3>2 DEF PatchWaits
    <3>4. erased'[i] = q
      <4>1. i \in 1..Len(erased)
        BY <1>5, <1>6
      <4> QED  BY <1>1, <3>1, <4>1 DEF ServerGrows
    <3> QED  BY <3>3, <3>4 DEF Settled
  <2> QED  BY <2>1, <2>2, <2>3
<1>11. Known(w)'
  BY <1>10 DEF Known
<1> QED  BY <1>4, <1>11

\* A task of the archive thread.
LEMMA ArchiveVersions ==
    ASSUME DialogInv, AnswersInOrder, VersionsKnown, [Next]_vars, Archive, ~late, ~late'
    PROVE  /\ \A v : v = state'.version => Known(v)'
           /\ \A i \in DOMAIN net' : \A v : v = net'[i].req.version => Known(v)'
           /\ \A c \in ToSet(core') : \A v \in CallVersions(c) : Known(v)'
           /\ \A t \in ToSet(archive') : \A v \in TaskVersions(t) : Known(v)'
<1>1. PICK t : t = Head(archive)
  OBVIOUS
<1>2. PICK C : ArchiveDoes(t, C)
  BY <1>1, ArchiveFollows
<1>3. ServerFits /\ StateFits(state) /\ TasksFit(archive) /\ IsQueue(archive)
  BY Queues DEF DialogInv, DialogFits
<1>4. /\ archive # <<>> /\ t = Head(archive) /\ archive' = Tail(archive) /\ net' = net
      /\ \A x : x \in ToSet(core') <=> x \in ToSet(core) \/ x \in C
  BY <1>2 DEF ArchiveDoes
<1>5. t \in ToSet(archive) /\ \A x \in ToSet(archive') : x \in ToSet(archive)
  BY <1>3, <1>4, QueueTail
<1>6. TaskFits(t)
  BY <1>3, <1>5 DEF TasksFit
<1>7. /\ Known(state.version)
      /\ \A i \in DOMAIN net : Known(net[i].req.version)
      /\ \A c \in ToSet(core) : \A v \in CallVersions(c) : Known(v)
      /\ \A u \in ToSet(archive) : \A v \in TaskVersions(u) : Known(v)
  BY DEF VersionsKnown
<1>8. /\ \A v : v = state.version => Known(v)'
      /\ \A i \in DOMAIN net : \A v : v = net[i].req.version => Known(v)'
      /\ \A c \in ToSet(core) : \A v \in CallVersions(c) : Known(v)'
      /\ \A u \in ToSet(archive) : \A v \in TaskVersions(u) : Known(v)'
  BY <1>7, VersionsAre, KnownStays
<1>9. \A v : v = state'.version => Known(v)'
  <2>1. CASE t.kind \in {"set", "eventset", "clearset"}
    <3>1. NewFits(t.new) /\ (t.kind = "eventset" => t.new.version = 0)
      BY <1>6, <2>1 DEF TaskFits
    <3>2. PICK s : s = Merged(t.new)
      OBVIOUS
    <3>3. s.version = state.version \/ (s.version = t.new.version /\ t.new.version > 0)
      BY <1>3, <3>1, <3>2, MergedIs
    <3>4. state' = s
      BY <1>2, <2>1, <3>2 DEF ArchiveDoes
    <3>5. CASE s.version = state.version
      BY <1>8, <3>4, <3>5
    <3>6. CASE s.version = t.new.version /\ t.new.version > 0
      <4>1. t.kind # "eventset"
        BY <3>1, <3>6
      <4>2. CASE t.kind = "clearset"
        <5>1. t.new.version \in TaskVersions(t)
          BY <4>2 DEF TaskVersions
        <5> QED  BY <1>5, <1>8, <3>4, <3>6, <5>1
      <4>3. CASE t.kind = "set"
        <5>1. PICK w : w = t.new.version
          OBVIOUS
        <5>2. Known(w)'
          BY <1>2, <4>3, <5>1, AnswerIsKnown
        <5> QED  BY <3>4, <3>6, <5>1, <5>2
      <4> QED  BY <2>1, <4>1, <4>2, <4>3
    <3> QED  BY <3>3, <3>5, <3>6
  <2>2. CASE t.kind \notin {"set", "eventset", "clearset"}
    <3>1. state'.version = state.version
      BY <1>2, <2>2 DEF ArchiveDoes
    <3> QED  BY <1>8, <3>1
  <2> QED  BY <2>1, <2>2
<1>10. ASSUME NEW c \in C, NEW v \in CallVersions(c) PROVE Known(v)'
  <2>1. /\ c.what = t /\ t.kind # "answer"
        /\ t.kind \in {"open", "limits", "clear", "eventset"} => c.got = state'
    BY <1>2 DEF ArchiveDoes
  <2>2. CASE t.kind \in {"open", "limits", "clear", "eventset"}
    <3>1. v = state'.version
      BY <1>10, <2>1, <2>2 DEF CallVersions
    <3> QED  BY <1>9, <3>1
  <2>3. CASE t.kind = "answered"
    <3>1. v \in TaskVersions(t)
      BY <1>10, <2>1, <2>3 DEF CallVersions, TaskVersions
    <3> QED  BY <1>5, <1>8, <3>1
  <2> QED  BY <1>10, <2>1, <2>2, <2>3 DEF CallVersions
<1> QED  BY <1>4, <1>5, <1>8, <1>9, <1>10

\* Every step.
LEMMA VersionsStep ==
    ASSUME DialogInv, AnswersInOrder, VersionsKnown, [Next]_vars
    PROVE  VersionsKnown'
<1>1. late => late'
  BY IndexStep
<1>2. SUFFICES ASSUME ~late, ~late'
               PROVE  /\ \A v : v = state'.version => Known(v)'
                      /\ \A i \in DOMAIN net' : \A v : v = net'[i].req.version => Known(v)'
                      /\ \A c \in ToSet(core') : \A v \in CallVersions(c) : Known(v)'
                      /\ \A t \in ToSet(archive') : \A v \in TaskVersions(t) : Known(v)'
  BY <1>1, VersionsKnownNext
<1>3. /\ Known(state.version)
      /\ \A i \in DOMAIN net : Known(net[i].req.version)
      /\ \A c \in ToSet(core) : \A v \in CallVersions(c) : Known(v)
      /\ \A u \in ToSet(archive) : \A v \in TaskVersions(u) : Known(v)
  BY <1>2 DEF VersionsKnown
<1>4. /\ \A v : v = state.version => Known(v)'
      /\ \A i \in DOMAIN net : \A v : v = net[i].req.version => Known(v)'
      /\ \A c \in ToSet(core) : \A v \in CallVersions(c) : Known(v)'
      /\ \A u \in ToSet(archive) : \A v \in TaskVersions(u) : Known(v)'
  BY <1>2, <1>3, VersionsAre, KnownStays
<1>5. CASE Archive
  BY <1>2, <1>5, ArchiveVersions
<1>6. CASE Core
  <2>1. PICK c : c = Head(core)
    OBVIOUS
  <2>2. PICK N : CoreDoes(c, N)
    BY <1>6, <2>1, CoreFollows
  <2>3. /\ core # <<>> /\ core' = Tail(core) /\ state' = state
        /\ \A x : x \in ToSet(archive') <=> x \in ToSet(archive) \/ x \in N
        /\ \A t \in N : TaskVersions(t) \subseteq CallVersions(c)
        /\ \A i \in DOMAIN net' :
              net'[i].req.version \in CallVersions(c) \/ \E j \in DOMAIN net : net'[i].req = net[j].req
    BY <2>2 DEF CoreDoes, Follows, RequestFollows
  <2>4. c \in ToSet(core) /\ \A x \in ToSet(core') : x \in ToSet(core)
    BY <2>1, <2>3, Queues, QueueTail
  <2>5. \A v \in CallVersions(c) : Known(v)'
    BY <1>4, <2>4
  <2>6. \A t \in ToSet(archive') : \A v \in TaskVersions(t) : Known(v)'
    BY <1>4, <2>3, <2>5
  <2>7. \A i \in DOMAIN net' : \A v : v = net'[i].req.version => Known(v)'
    BY <1>4, <2>3, <2>5
  <2> QED  BY <1>4, <2>3, <2>4, <2>6, <2>7
<1>7. CASE Server \/ Network \/ User \/ UNCHANGED vars
  <2>1. OthersDo
    BY <1>7, OthersFollow
  <2>2. /\ state' = state
        /\ \A x \in ToSet(core') :
              \/ x \in ToSet(core)
              \/ x.what.kind \in {"answer", "fail"} /\ \E j \in DOMAIN net : x.what.req = net[j].req
        /\ \A x \in ToSet(archive') : x \in ToSet(archive) \/ x.kind \in {"event", "open", "next"}
        /\ \A i \in DOMAIN net' : \E j \in DOMAIN net : net'[i].req = net[j].req
    BY <2>1 DEF OthersDo
  <2>3. \A i \in DOMAIN net' : \A v : v = net'[i].req.version => Known(v)'
    BY <1>4, <2>2
  <2>4. ASSUME NEW c \in ToSet(core'), NEW v \in CallVersions(c) PROVE Known(v)'
    <3>1. CASE c \in ToSet(core)
      BY <1>4, <2>4, <3>1
    <3>2. ASSUME c.what.kind \in {"answer", "fail"}, NEW j \in DOMAIN net, c.what.req = net[j].req
          PROVE  Known(v)'
      <4>1. v = net[j].req.version
        BY <2>4, <3>2 DEF CallVersions
      <4> QED  BY <1>4, <4>1
    <3> QED  BY <2>2, <3>1, <3>2
  <2>5. ASSUME NEW t \in ToSet(archive'), NEW v \in TaskVersions(t) PROVE Known(v)'
    <3>1. t.kind \in {"event", "open", "next"} => TaskVersions(t) = {}
      BY DEF TaskVersions
    <3> QED  BY <1>4, <2>2, <2>5, <3>1
  <2> QED  BY <1>4, <2>2, <2>3, <2>4, <2>5
<1> QED  BY <1>5, <1>6, <1>7 DEF Next, Others

\* The index has no message the state says is deleted once nothing is on its way, and
\* the patches of its version are applied.
LEMMA NothingPends ==
    ASSUME DialogInv, VersionsKnown, DeletedUpTo
    PROVE  PatchesApplied
<1>1. SUFFICES ASSUME archive = <<>>, core = <<>>, net = <<>>, ~late, NEW i \in 1..state.version
               PROVE  erased[i] \notin Shown(index)
  BY DEF PatchesApplied
<1>2. ToSet(<<>>) = {} /\ DOMAIN <<>> = {}
  BY DEF ToSet
<1>3. \A s : Blocks(s) = {}
  BY <1>1, <1>2 DEF Blocks, NetBlocks, CallBlocks, TaskBlocks
<1>4. Settled(erased[i])
  BY <1>1 DEF VersionsKnown, Known
<1>5. ~Shows(erased[i])
  BY <1>3, <1>4 DEF Settled, Gone, PatchWaits
<1>6. \A id \in Ids(index) : id > state.upTo
  BY <1>1, <1>2 DEF DeletedUpTo
<1> QED  BY <1>5, <1>6 DEF Shows, Shown

\* At first the state has no version.
LEMMA VersionsInit ==
    ASSUME Init
    PROVE  VersionsKnown /\ DeletedUpTo
<1>1. /\ archive = <<>> /\ core = <<>> /\ net = <<>> /\ index = <<>>
      /\ state = [last |-> None, upTo |-> 0, version |-> 0]
  BY DEF Init
<1>2. ToSet(<<>>) = {} /\ DOMAIN <<>> = {}
  BY DEF ToSet
<1>3. Known(0)
  BY DEF Known
<1> QED  BY <1>1, <1>2, <1>3 DEF VersionsKnown, DeletedUpTo, Ids

\* What the versions keep to.
HistoryInv == OrderInv /\ VersionsKnown /\ DeletedUpTo

\* Every patch version that is kept, read or asked for is one the patches of which are
\* applied or on their way, though clear_last_message_in_dlg_state() and
\* get_history_from_server() use versions they have read before; and what the server
\* deleted at once is deleted from the index, or will be.
THEOREM VersionsStayKnown == Spec => []HistoryInv
<1>1. Init => HistoryInv
  BY DialogInit, OrderInit, VersionsInit DEF HistoryInv, OrderInv
<1>2. HistoryInv /\ [Next]_vars => HistoryInv'
  BY DialogStep, OrderStep, SoundStep, VersionsStep, DeletesStep DEF HistoryInv, OrderInv
<1> QED  BY <1>1, <1>2, PTL DEF Spec

\* PatchesApplied: once nothing is on its way, no message is shown that the patches of the
\* history_patch_version of the state say is deleted; an event that was overtaken by the
\* patch of its message aside (merge_state, insert_history_block, delete_up_to).
THEOREM PatchesAreApplied == Spec => []PatchesApplied
<1>1. HistoryInv => PatchesApplied
  BY NothingPends DEF HistoryInv, OrderInv
<1> QED  BY <1>1, VersionsStayKnown, PTL
=============================================================================
