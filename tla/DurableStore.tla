---------------------------- MODULE DurableStore ----------------------------
(***************************************************************************)
(* What IndexStore (include/tinysearch/index_store.h) promises: saving     *)
(* records the whole store in one step or not at all, a crash loses the    *)
(* store in memory and never the saved one, and loading brings back what   *)
(* the last completed save recorded.                                       *)
(***************************************************************************)
EXTENDS Functions

CONSTANTS StableId, Info, Words, Nothing

VARIABLES store,   \* the documents in memory
          saved    \* what the last completed save recorded, or Nothing

Memory == INSTANCE DocumentStore

Init == Memory!Init /\ saved = Nothing

Change == UNCHANGED saved /\ Memory!Next

Save == saved' = store /\ UNCHANGED store

Load == saved # Nothing /\ Memory!Replace(saved) /\ UNCHANGED saved

Crash == Memory!Replace(<< >>) /\ UNCHANGED saved

Next == Change \/ Save \/ Load \/ Crash

Spec == Init /\ [][Next]_<<store, saved>>
=============================================================================
