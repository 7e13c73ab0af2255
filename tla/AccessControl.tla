--------------------------- MODULE AccessControl ---------------------------
(***************************************************************************)
(* What the navigation guard of the dashboard promises, over coarse pages: *)
(* the first-run setup page (unless opened as an update) and the           *)
(* maintenance page are always reachable; any other page needs a session,  *)
(* and without one the user lands on the login page; with one, the login   *)
(* page is replaced by the default landing page.  Sessions begin and end   *)
(* independently of navigation.  A page refused for want of a session is  *)
(* remembered on the login page (returnTo) for after the login.           *)
(***************************************************************************)

VARIABLES page, returnTo, authenticated

vars == <<page, returnTo, authenticated>>

Pages == {"none", "setup", "maintenance", "login", "app"}

\* The page a navigation to target ends on.
Landing(target, isUpdate) ==
    CASE (target = "setup" /\ ~isUpdate) \/ target = "maintenance" -> target
      [] ~authenticated /\ target # "login"                        -> "login"
      [] authenticated /\ target = "login"                         -> "app"
      [] OTHER                                                     -> target

\* Only a refused page is remembered.
Refused(target, isUpdate) ==
    Landing(target, isUpdate) = "login" /\ target # "login"

Navigate ==
    \E target \in Pages \ {"none"}, isUpdate \in BOOLEAN :
        /\ page' = Landing(target, isUpdate)
        /\ returnTo' = IF Refused(target, isUpdate) THEN target ELSE "none"
        /\ UNCHANGED authenticated

\* A reload starts over on no page; the session survives it.
Reload ==
    /\ page' = "none" /\ returnTo' = "none"
    /\ UNCHANGED authenticated

\* A session begins on the login page; it may end anywhere.
SessionStarts ==
    /\ ~authenticated /\ page = "login"
    /\ authenticated' = TRUE
    /\ UNCHANGED <<page, returnTo>>

SessionEnds ==
    /\ authenticated
    /\ authenticated' = FALSE
    /\ UNCHANGED <<page, returnTo>>

Init == page = "none" /\ returnTo = "none" /\ authenticated \in BOOLEAN

Next == Navigate \/ Reload \/ SessionStarts \/ SessionEnds

Spec == Init /\ [][Next]_vars
=============================================================================
