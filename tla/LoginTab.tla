------------------------------ MODULE LoginTab ------------------------------
(***************************************************************************)
(* A lone tab, and how soon it is back at its page. LoginRecovers of       *)
(* AuthSessions says that it gets there; here a history variable beside    *)
(* the state of AuthSessions counts the answers the tab has followed since *)
(* something last went wrong.                                              *)
(***************************************************************************)
EXTENDS AuthSessions

VARIABLE calm  \* answers in a row, counted up to Enough

Enough == 5

tabVars == <<vars, calm>>

\* Deliver, which is how an answer arrives. A request lost to a drop or a
\* restart ends as well, but that is trouble.
Arrives == \E r \in Requests : req[r].pc = "responded" /\ req'[r].pc = "idle"

Count ==
  calm' = IF trouble' # trouble THEN 0
          ELSE IF Arrives /\ calm < Enough THEN calm + 1 ELSE calm

TabInit == Init /\ calm = 0
TabNext == Next /\ Count
TabSpec == TabInit /\ [][TabNext]_tabVars /\ Fairness

---------------------------------------------------------------------------
(* Properties *)

\* After Enough answers the tab shows its page, and goes on showing it until
\* something goes wrong again: an error page or a dead session costs a redirect
\* to the login, the login, the callback, and the page. (To be checked with one
\* tab and the filesystem store.)
BackInFive == calm = Enough => \A b \in Browsers : last[b] = "served"
=============================================================================
