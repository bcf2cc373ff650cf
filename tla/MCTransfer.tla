----------------------------- MODULE MCTransfer -----------------------------
(***************************************************************************)
(* The networks under which Transfer is model-checked.                     *)
(***************************************************************************)
EXTENDS TransferFileCopy

Fifo == {"lose", "duplicate"}
AllOvertake == {"lose", "reorderData", "reorderReplies"}
RepliesOvertake == {"reorderReplies"}

\* Bound of the runs in which a short file keeps the client busy for ever.
MaxMade == 5
MadeBound == made <= MaxMade

=============================================================================
