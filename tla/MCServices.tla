----------------------------- MODULE MCServices -----------------------------
(***************************************************************************)
(* What runs in and beside the MCP server, for TLC: the schedule loop, the *)
(* file watcher, the table of filter terms, the configuration loaders, the *)
(* reading tools and the waiting half of the rate limiter.  The modules    *)
(* share no variable and the components call one another only through      *)
(* stores that each of them models from its own side, so a behaviour is    *)
(* one of a single component (part) while the others stay in an initial    *)
(* state: together they are all behaviours of each.                        *)
(***************************************************************************)
EXTENDS Schedules, Watcher, FilterTerms, ConfigStore, Retrieval, Waiting, TLC

CONSTANTS n1, n2, u1, u2, reindexAtStart, f1, f2, k1, k2, health, mcp, x,
          jira, all, w1, w2

VARIABLE part

(* Every minute, every second minute, and a whole hour. *)
MCExpressions == {<<Star, Star>>, <<Every(2), Star>>, <<Span(0, 9), Star>>}

(* Four chunks of two documents; the last chunk in a collection of its own. *)
MCDocumentOf == 1 :> "a" @@ 2 :> "b" @@ 3 :> "a" @@ 4 :> "b"
MCIndexOf == 1 :> 1 @@ 2 :> 0 @@ 3 :> 0 @@ 4 :> 0
MCCollectionOf == 1 :> "main" @@ 2 :> "main" @@ 3 :> "main" @@ 4 :> "other"
MCKeptBy == "none" :> Chunks @@ "shared" :> {1, 2, 4} @@ "dense only" :> {2, 3}
MCOrders == {<<1, 2, 3, 4>>, <<3, 4, 1, 2>>}

(* One limiter, as the connectors and the workers have, and two at once. *)
MCPaths == {<<jira>>, <<jira, all>>}

vars == <<part, scheduleVars, watcherVars, termsVars, configVars, retrievalVars,
          waitingVars>>

Init ==
  /\ part \in {"schedules", "watcher", "terms", "configuration", "retrieval",
               "waiting"}
  /\ SchedulesInit /\ WatcherInit /\ TermsInit /\ ConfigInit /\ RetrievalInit
  /\ WaitingInit
  /\ part # "retrieval" => index = {}

Next ==
  /\ UNCHANGED part
  /\ \/ /\ part = "schedules" /\ SchedulesNext
        /\ UNCHANGED <<watcherVars, termsVars, configVars, retrievalVars,
                       waitingVars>>
     \/ /\ part = "watcher" /\ WatcherNext
        /\ UNCHANGED <<scheduleVars, termsVars, configVars, retrievalVars,
                       waitingVars>>
     \/ /\ part = "terms" /\ TermsNext
        /\ UNCHANGED <<scheduleVars, watcherVars, configVars, retrievalVars,
                       waitingVars>>
     \/ /\ part = "configuration" /\ ConfigNext
        /\ UNCHANGED <<scheduleVars, watcherVars, termsVars, retrievalVars,
                       waitingVars>>
     \/ /\ part = "retrieval" /\ RetrievalNext
        /\ UNCHANGED <<scheduleVars, watcherVars, termsVars, configVars,
                       waitingVars>>
     \/ /\ part = "waiting" /\ WaitingNext
        /\ UNCHANGED <<scheduleVars, watcherVars, termsVars, configVars,
                       retrievalVars>>

(* WatcherFairness, ConfigFairness and WaitingFairness, where each applies. *)
Fairness ==
  /\ WF_watcherVars(part = "watcher" /\ Schedule)
  /\ \A k \in Timers : WF_watcherVars(part = "watcher" /\ Executes(k))
  /\ \A l \in Loaders : WF_configVars(part = "configuration" /\ Use(l))
  /\ \A t \in Tasks : WF_waitingVars(part = "waiting" /\ GoesAhead(t))
  /\ WF_waitingVars(part = "waiting" /\ Second)

Spec == Init /\ [][Next]_vars /\ Fairness

(* Every variable of the six components has its type. *)
ServicesTypeOK ==
  /\ SchedulesTypeOK
  /\ WatcherTypeOK
  /\ TermsTypeOK
  /\ ConfigTypeOK
  /\ RetrievalTypeOK
  /\ WaitingTypeOK
=============================================================================
