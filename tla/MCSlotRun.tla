----------------------------- MODULE MCSlotRun -----------------------------
(* A note of two slots, each between the same texts, and of tasks below.    *)
EXTENDS SlotRun, TLC

MCText(n) == [k |-> "text", n |-> n, says |-> 0]
MCSlots == "a" :> "slot" @@ "b" :> "slot"
MCSlotNote == <<MCText(1), Slot("a"), MCText(2), Slot("b"), MCText(3)>>
MCKind == MCSlots @@ "c" :> "agent" @@ "d" :> "llm" @@ "e" :> "command"
MCNote == MCSlotNote \o <<Line("c"), Line("d"), Line("e")>>
=============================================================================
