------------------------------- MODULE MCParts -------------------------------
(***************************************************************************)
(* Three parts that do not see one another, for TLC: a behavior of this    *)
(* specification is one of the invalidation poller of the GraphQL server,  *)
(* with every tab closed and no session, or one of the playlist tabs of    *)
(* the web site, with the poller off and no session, or one of the         *)
(* publisher of a managed room, with the poller off and every tab closed.  *)
(***************************************************************************)
EXTENDS InvalidationPoller, PlaylistTabs, Publication

VARIABLE part   \* which of the three this behavior is about

PartsInit ==
    /\ part \in {"poller", "playlists", "publication"}
    /\ PollInit
    /\ TabsInit
    /\ PubInit

PartsNext ==
    \/ part = "poller" /\ PollNext /\ UNCHANGED <<part, tabVars, pubVars>>
    \/ part = "playlists" /\ TabsNext /\ UNCHANGED <<part, pollVars, pubVars>>
    \/ part = "publication" /\ PubNext /\ UNCHANGED <<part, pollVars, tabVars>>

PartsSpec ==
    /\ PartsInit /\ [][PartsNext]_<<part, pollVars, tabVars, pubVars>>
    /\ PollFairness /\ TabsFairness /\ PubFairness
=============================================================================
