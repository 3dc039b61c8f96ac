----------------------------- MODULE SessionReads -----------------------------
(***************************************************************************)
(* The two ways to read the session store beside its writers: lists of     *)
(* sessions with their pages and ETags, and the conversation of one of     *)
(* them.  The store's lock makes each read one step; a reader uses what it *)
(* read after it has given up the lock.                                    *)
(***************************************************************************)
EXTENDS History, SessionListing

vars == <<historyVars, listingVars>>

TypeOK == HistoryTypeOK /\ ListingTypeOK

Init == HistoryInit /\ ListingInit

Next ==
    \/ HistoryNext /\ UNCHANGED listingVars
    \/ ListingNext /\ UNCHANGED historyVars

Spec == Init /\ [][Next]_vars
=============================================================================
