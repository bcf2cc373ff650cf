-------------------------- MODULE TransferFileCopy --------------------------
(***************************************************************************)
(* Transfer as an implementation of FileCopy.                              *)
(***************************************************************************)
EXTENDS TransferInv

clientState ==
    CASE cexit = "OK" -> "OK"
      [] cpc \in {"fin", "finwait"} -> "closing"
      [] cpc = "exit" /\ cexit # "OK" -> "failed"
      [] OTHER -> "sending"

childState ==
    CASE sexit = "OK" -> "done"
      [] sexit = "TIMEOUT" -> "timeout"
      [] sexit \in {"RUNTIME_ERROR", "BAD_REQUEST"} -> "failed"
      [] spc = "finack" -> "complete"
      [] OTHER -> "receiving"

Copy ==
    INSTANCE FileCopy WITH client <- clientState, child <- childState,
                           accepted <- sread, file <- sfile, named <- exists

\* Over an in-order network a transfer of an unchanging file is a FileCopy:
\* whatever is lost, duplicated or timed out, bytes are accepted and stored
\* in order, only a time-out deletes the file, and neither side closes before
\* the other has accepted, or stored, everything (ftpclient.c:100-199,
\* ftpserver.c:136-200).
ImplementsFileCopy == Copy!Spec

=============================================================================
