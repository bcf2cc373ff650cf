----------------------------- MODULE MCRequests -----------------------------
(***************************************************************************)
(* The clients and files with which Requests is model-checked.             *)
(***************************************************************************)
EXTENDS Requests, TLC

CONSTANTS c1, c2, c3, c4, n1, n2

Lossy == {"lose"}
Repeating == {"lose", "duplicate"}

\* A new file and one that is there already, and every form of request.
FourClients == {c1, c2, c3, c4}
NewAndOld == c1 :> n1 @@ c2 :> n2 @@ c3 :> n1 @@ c4 :> n2
AllForms == c1 :> "size" @@ c2 :> "size" @@ c3 :> "badsize" @@ c4 :> "nosize"

OneFile == [c \in Clients |-> n1]
OneClient == {c1}
AllSized == [c \in Clients |-> "size"]

=============================================================================
