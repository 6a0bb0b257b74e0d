------------------------------ MODULE NodeSession ------------------------------
(***************************************************************************)
(* The users of an API provider: a node that runs through upgrades, and a  *)
(* client that is created and then makes requests, runs paged queries or   *)
(* listens to events.  What a client does besides does not touch the state *)
(* of the others, so each session has one activity.                        *)
(***************************************************************************)
EXTENDS EventClient, PagedQueries

VARIABLE activity

sessionVars == <<vars, clientVars, pagingVars, eventVars, activity>>

SessionInit ==
    /\ Init /\ ClientInit /\ EventInit /\ PagingInit
    /\ activity \in {"node", "requests", "paging", "events"}
    /\ (activity = "node") = (phase = "none")
    /\ activity # "paging" => results = Min(Results) /\ pages.max = Min(MaxPages)

SessionNext ==
    \/ /\ activity = "node" /\ Next
       /\ UNCHANGED <<clientVars, pagingVars, eventVars, activity>>
    \/ /\ activity = "requests" /\ ClientStep
       /\ UNCHANGED <<pagingVars, eventVars, activity>>
    \/ /\ activity \in {"paging", "events"} /\ Create(<<[version |-> GenesisVersion, epoch |-> 0]>>, 0)
       /\ UNCHANGED <<pagingVars, eventVars, activity>>
    \/ /\ activity = "paging" /\ Ready /\ PagingStep
       /\ UNCHANGED <<vars, clientVars, eventVars, activity>>
    \/ /\ activity = "events" /\ Ready /\ EventStep
       /\ UNCHANGED <<vars, clientVars, pagingVars, activity>>

(* Goroutines of handlers run, and a reader that waits is served.          *)
SessionFairness ==
    \A m \in Message :
        WF_sessionVars(activity = "events" /\ Ready /\ HandlerStep(m)
                       /\ UNCHANGED <<vars, clientVars, pagingVars, activity>>)

SessionSpec == SessionInit /\ [][SessionNext]_sessionVars /\ SessionFairness
=============================================================================
