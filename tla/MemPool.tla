------------------------------- MODULE MemPool -------------------------------
(***************************************************************************)
(* Common::MemPool (utils/mem_pool.h): a fixed store of blocks handed out  *)
(* one at a time.  The order books take their orders and price levels from *)
(* such pools and give them back.                                          *)
(*                                                                         *)
(* updateNextFreeIndex looks at blocks without looking where the store     *)
(* ends: once all blocks from the current one on are in use it reads what  *)
(* memory holds behind the vector.  PastEnd says what that may look like:  *)
(* "free" stops the search at the end of the store, "used" sends it beyond,*)
(* from where it does not come back.                                       *)
(***************************************************************************)
EXTENDS Integers

CONSTANTS N,         \* blocks of the pool
          PastEnd    \* what memory behind the store may look like

ASSUME PoolAssumption == N \in Nat /\ N > 1
ASSUME MemoryAssumption == PastEnd \subseteq {"free", "used"} /\ PastEnd # {}

Blocks == 0 .. N - 1
Beyond == N + 1      \* any index further behind the store than its end

VARIABLES
  is_free_,            \* block -> may it be handed out
  next_free_index_,
  holders,             \* index -> how many users hold the block there
  ended                \* an ASSERT has ended the process

poolVars == <<is_free_, next_free_index_, holders, ended>>

PoolInit == /\ is_free_ = [b \in Blocks |-> TRUE]
            /\ next_free_index_ = 0
            /\ holders = [i \in 0 .. Beyond |-> 0]
            /\ ended = FALSE

(* A search that stopped at the end of the store starts over. *)
atEnd(i) == IF i = N THEN 0 ELSE i

(* The indices updateNextFreeIndex may end at, with these blocks free. *)
nextFree(free, from) ==
    LET ahead == {b \in Blocks : b >= from /\ free[b]}
    IN  IF ahead # {} THEN {CHOOSE b \in ahead : \A c \in ahead : b <= c}
        ELSE IF from = Beyond THEN {Beyond}
        ELSE {atEnd(IF m = "free" THEN N ELSE Beyond) : m \in PastEnd}

(* Faulty: nobody asks whether the block is in use. *)
anyBlock(i) == TRUE

(* The ASSERT of allocate.  Behind the store it reads what is there, which *)
(* the search has found to look free.                                      *)
isFree(i) == IF i \in Blocks THEN is_free_[i] ELSE TRUE

allocate ==
    /\ ~ended /\ isFree(next_free_index_)
    /\ \E next \in nextFree([b \in Blocks |-> is_free_[b] /\ b # next_free_index_],
                            next_free_index_) :
           /\ next_free_index_' = next
           /\ ended' = (next = next_free_index_ /\ next # Beyond)  \* "Memory Pool out of space."
    /\ is_free_' = [b \in Blocks |-> is_free_[b] /\ b # next_free_index_]
    /\ holders' = [holders EXCEPT ![next_free_index_] = @ + 1]

(* allocate when it finds the block in use. *)
allocateFails == /\ ~ended /\ ~isFree(next_free_index_)
                 /\ ended' = TRUE
                 /\ UNCHANGED <<is_free_, next_free_index_, holders>>

(* A holder gives its block back; deallocate checks that it belongs to the *)
(* store and is in use.                                                    *)
deallocate(i) == /\ ~ended /\ holders[i] > 0
                 /\ IF i \in Blocks /\ ~is_free_[i]
                    THEN /\ is_free_' = [is_free_ EXCEPT ![i] = TRUE]
                         /\ holders' = [holders EXCEPT ![i] = @ - 1]
                         /\ UNCHANGED ended
                    ELSE /\ ended' = TRUE
                         /\ UNCHANGED <<is_free_, holders>>
                 /\ UNCHANGED next_free_index_

PoolNext == allocate \/ allocateFails \/ \E i \in 0 .. Beyond : deallocate(i)

PoolSpec == PoolInit /\ [][PoolNext]_poolVars

-----------------------------------------------------------------------------
(* No two users ever hold one block: two orders of a book would otherwise  *)
(* overwrite one another.                                                  *)
HeldOnce == \A b \in Blocks : holders[b] = IF is_free_[b] THEN 0 ELSE 1

(* "Memory Pool out of space.": only a pool without a free block ends the  *)
(* program.                                                                *)
EndsOnlyWhenFull == ended => \A b \in Blocks : ~is_free_[b]

(* "Element being deallocated does not belong to this Memory pool.": what  *)
(* users hold are blocks of the store.                                     *)
HeldFromStore == \A i \in 0 .. Beyond : holders[i] > 0 => i \in Blocks
=============================================================================
