---------------------------- MODULE ArchiveIndex ----------------------------
(***************************************************************************)
(* archive_index (core/archive/archive_index.cpp): the headers of the      *)
(* messages of one contact, by message id.  A header names the id of the   *)
(* message before it; where that is not the header found before it, there  *)
(* is a hole, whose messages im::download_holes() asks the server for.     *)
(*                                                                         *)
(* An index is a function from ids to headers.  Pure operators: the state  *)
(* and the threads are in module DialogHistory.                            *)
(***************************************************************************)
EXTENDS Integers, SequencesExt

None == -1

\* What the server's answers put into the index: messages, and patches that say
\* "deleted" of one.
Message(id, prev) == [id |-> id, prev |-> prev, patch |-> FALSE, deleted |-> FALSE]
DeletedPatch(id) == [id |-> id, prev |-> None, patch |-> TRUE, deleted |-> TRUE]

Ids(ix) == DOMAIN ix
LastId(ix) == IF Ids(ix) = {} THEN None ELSE Max(Ids(ix))

\* skip_patches_and_deleted_forward(): what a reader sees of the index.
Shown(ix) == {id \in Ids(ix) : ~ix[id].patch /\ ~ix[id].deleted}
ShownBelow(ix, id) == {k \in Shown(ix) : k < id}
Before(ix, id) ==
    IF ShownBelow(ix, id) = {} THEN None ELSE Max(ShownBelow(ix, id))

-----------------------------------------------------------------------------
(* Insertion. *)

\* message_header::merge_with()
MergeWith(h, m) ==
    [prev |-> IF m.prev # None \/ ~m.patch THEN m.prev ELSE h.prev,
     patch |-> h.patch /\ m.patch /\ (h.deleted => m.deleted),
     deleted |-> m.deleted]

\* The header after a deleted one is linked to the one before it, and back when
\* a deleted message returns.
Relinked(old, m, prev) ==
    CASE m.deleted /\ prev = m.id                    -> old.prev
      [] ~m.deleted /\ old.deleted /\ prev = old.prev -> m.id
      [] OTHER                                        -> prev

\* Mutant of InsertHeader: the header before the deleted one is linked again.
RelinksPrevious(ix, m) ==
    IF m.id \notin Ids(ix)
    THEN [id \in Ids(ix) \union {m.id} |->
             IF id = m.id THEN [prev |-> m.prev, patch |-> m.patch, deleted |-> m.deleted]
             ELSE ix[id]]
    ELSE LET previous == {k \in Ids(ix) : k < m.id}
         IN [id \in Ids(ix) |->
                IF id = m.id THEN MergeWith(ix[id], m)
                ELSE IF previous # {} /\ id = Max(previous)
                     THEN [ix[id] EXCEPT !.prev = Relinked(ix[m.id], m, @)]
                     ELSE ix[id]]

InsertHeader(ix, m) ==
    IF m.id \notin Ids(ix)
    THEN [id \in Ids(ix) \union {m.id} |->
             IF id = m.id THEN [prev |-> m.prev, patch |-> m.patch, deleted |-> m.deleted]
             ELSE ix[id]]
    ELSE LET next == {k \in Ids(ix) : k > m.id}
         IN [id \in Ids(ix) |->
                IF id = m.id THEN MergeWith(ix[id], m)
                ELSE IF next # {} /\ id = Min(next)
                     THEN [ix[id] EXCEPT !.prev = Relinked(ix[m.id], m, @)]
                     ELSE ix[id]]

\* contact_archive::insert_history_block(): no duplicates, nothing that is
\* deleted already; what was before a message may be.
Duplicate(ix, m) ==
    m.id \in Ids(ix) /\ ix[m.id].patch = m.patch /\ ix[m.id].prev = m.prev
Wanted(ix, m, delUpTo) == ~Duplicate(ix, m) /\ m.id > delUpTo
Clipped(m, delUpTo) == IF m.prev <= delUpTo THEN [m EXCEPT !.prev = None] ELSE m

\* archive_index::insert_block(), of what is wanted of a block: a fold, as a function
\* of how much of the block is inserted.
Update(ix, block, delUpTo) ==
    LET after[k \in 0..Len(block)] ==
            IF k = 0 THEN ix
            ELSE IF Wanted(ix, block[k], delUpTo)
            THEN InsertHeader(after[k - 1], Clipped(block[k], delUpTo))
            ELSE after[k - 1]
    IN after[Len(block)]

\* Nothing new below a message, and nothing older: it is the first one.
Ends(ix, block, delUpTo, from, hasOlder) ==
    /\ \A i \in DOMAIN block : ~Wanted(ix, block[i], delUpTo)
    /\ from # None /\ ~hasOlder
    /\ from \in Ids(ix) /\ ~ix[from].patch

InsertHistoryBlock(ix, block, delUpTo, from, hasOlder) ==
    IF Ends(ix, block, delUpTo, from, hasOlder)
    THEN InsertHeader(ix, [Message(from, None) EXCEPT !.deleted = ix[from].deleted])
    ELSE Update(ix, block, delUpTo)

\* Mutant of IndexAbove: whatever is first then has nothing before it.
FirstIsFirst(ix, to) ==
    LET kept == {k \in Ids(ix) : k > to}
    IN [id \in kept |-> IF id = Min(kept) THEN [ix[id] EXCEPT !.prev = None] ELSE ix[id]]

\* archive_index::delete_up_to()
IndexAbove(ix, to) ==
    LET kept == {k \in Ids(ix) : k > to}
    IN [id \in kept |->
           IF id = Min(kept) /\ to \in Ids(ix) /\ ix[id].prev = to
           THEN [ix[id] EXCEPT !.prev = None] ELSE ix[id]]

-----------------------------------------------------------------------------
(* Holes. *)

Hole(from, to, depth) == [from |-> from, to |-> to, depth |-> depth]
Found(hole) == [error |-> "ok", hole |-> hole]
NoHole(error) == [error |-> error]

\* The links at or below a shown id that name another header than the one found.
Broken(ix, ids) == {id \in ids : ix[id].prev # Before(ix, id)}
\* How many headers the search has seen when it is at id.
DepthAt(ids, id) == Cardinality({k \in ids : k >= id})

\* archive_index::get_next_hole()
GetNextHole(ix, from, depth) ==
    IF Ids(ix) = {} THEN Found(Hole(None, None, 0))
    ELSE IF from # None /\ LastId(ix) < from THEN Found(Hole(None, LastId(ix), 0))
    ELSE IF from # None /\ from \notin Ids(ix) THEN NoHole("index_not_found")
    ELSE LET ids == {k \in Shown(ix) : from = None \/ k <= from}
             hole == Max(Broken(ix, ids))
         IN IF ids = {} THEN Found(Hole(None, None, 0))
            ELSE IF depth # None /\ Cardinality(ids) > depth
                    /\ \A id \in Broken(ix, ids) : DepthAt(ids, id) > depth
            THEN NoHole("depth_reached")
            ELSE IF Broken(ix, ids) = {} THEN NoHole("last_reached")
            ELSE IF Before(ix, hole) = None THEN Found(Hole(hole, None, 0))
            ELSE Found(Hole(hole, Before(ix, hole), DepthAt(ids, hole)))

\* archive_index::validate_hole_request(), for a page of more than one message.
ValidateHoleRequest(ix, hole) ==
    LET before == Before(ix, hole.from)
    IN IF /\ hole.from > 0 /\ hole.to > 0
          /\ hole.from \in Ids(ix) /\ ~ix[hole.from].patch
          /\ before # None /\ before # ix[hole.from].prev
       THEN before ELSE hole.from
=============================================================================
