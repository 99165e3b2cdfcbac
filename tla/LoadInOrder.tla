---------------------------- MODULE LoadInOrder ----------------------------
(***************************************************************************)
(* What a migration load promises whoever started it: its chunks reach the *)
(* destination one after the other, each once, and only while the load is  *)
(* open; it is completed when all of them are there and not before; what   *)
(* was cancelled or completed stays so.                                    *)
(***************************************************************************)
EXTENDS Naturals, Sequences

CONSTANT Chunks

VARIABLES
  state,  \* "ready", "open", "failed", "completed" or "cancelled"
  loaded  \* the chunks that reached the destination, in the order they did

Init == state = "ready" /\ loaded = <<>>

\* From "failed" it is opened again, by a retry.
Open == state \in {"ready", "failed"} /\ state' = "open" /\ UNCHANGED loaded

Load ==
  /\ state = "open" /\ Len(loaded) < Chunks
  /\ loaded' = Append(loaded, Len(loaded) + 1)
  /\ UNCHANGED state

Complete ==
  /\ state = "open" /\ Len(loaded) = Chunks
  /\ state' = "completed" /\ UNCHANGED loaded

Fail == state = "open" /\ state' = "failed" /\ UNCHANGED loaded

Cancel ==
  /\ state \in {"ready", "open", "failed"}
  /\ state' = "cancelled" /\ UNCHANGED loaded

Next == Open \/ Load \/ Complete \/ Fail \/ Cancel

Spec == Init /\ [][Next]_<<state, loaded>>
=============================================================================
