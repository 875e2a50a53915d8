--------------------------- MODULE MCTurnLifecycle ---------------------------
(* Instances of TurnLifecycle for TLC. *)
EXTENDS TurnLifecycle, TLC

\* All turns belong to one conversation.
OneConversation == [t \in Turns |-> CHOOSE c \in Conversations : TRUE]

\* Every turn has a conversation of its own.
OwnConversation == [t \in Turns |-> t]

\* The cron slots are interchangeable.
SlotSymmetry == Permutations(Slots)
=============================================================================
