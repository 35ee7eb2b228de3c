------------------------------ MODULE LiveView ------------------------------
(***************************************************************************)
(* A market page of dike-web that follows the read model: the updates that *)
(* every upsert publishes (observability/event-bus.ts), the event stream   *)
(* (api/server.ts, app/api/stream/route.ts, lib/hooks/useLiveUpdates.ts),  *)
(* the debounced refresh (components/data-state/LiveRefresh.tsx), the      *)
(* cached fetch behind it (lib/api/client.ts) and what the page renders of *)
(* its answer (app/(app)/markets/[marketId]/page.tsx).                     *)
(***************************************************************************)
EXTENDS Integers

CONSTANTS
    MaxVersion,    \* changes of the market's rows, a bound
    MaxDrops       \* connections that break and answers that are lost, a bound

ASSUME LiveAssumption == {MaxVersion, MaxDrops} \subseteq Nat

VARIABLES
    served,       \* the version of the rows the services answer with
    stream,       \* the EventSource: open, retrying, given up, or closed with its page
    drops,        \* connections broken and answers lost so far
    update,       \* an update is on its way to the page
    pending,      \* pendingRef: a refresh is scheduled
    refreshing,   \* the page is being rendered again on the server
    cache,        \* the response in the Next.js data cache
    fresh,        \* it is younger than its revalidate time
    revalidating, \* the answer of a background fetch of the cache
    view          \* what the page shows; None when it could not be rendered

liveVars == <<served, stream, drops, update, pending, refreshing, cache, fresh, revalidating, view>>

None == -1
Versions == 0..MaxVersion

LiveTypeOK ==
    /\ served \in Versions /\ drops \in 0..MaxDrops
    /\ stream \in {"open", "retrying", "dead", "closed"}
    /\ {update, pending, refreshing, fresh} \subseteq BOOLEAN
    /\ {cache, revalidating, view} \subseteq Versions \cup {None}

\* The page is rendered, from the cache or not.
InitLive ==
    /\ served = 0 /\ view = 0 /\ drops = 0
    /\ stream = "open" /\ update = FALSE /\ pending = FALSE /\ refreshing = FALSE
    /\ cache = 0 /\ fresh = TRUE /\ revalidating = None

\* eventBus.publish reaches the connections that are open now.
Publish == update' = (update \/ stream = "open")

\* The indexer or a job writes the market's rows and publishes.
Upsert ==
    /\ served < MaxVersion
    /\ served' = served + 1
    /\ Publish
    /\ UNCHANGED <<stream, drops, pending, refreshing, cache, fresh, revalidating, view>>

\* A scheduled job reconciles the market again, changed or not.
Republish ==
    /\ Publish
    /\ UNCHANGED <<served, stream, drops, pending, refreshing, cache, fresh, revalidating, view>>

\* LiveRefresh: an update that finds a refresh scheduled is dropped.
ReceiveUpdate ==
    /\ update
    /\ update' = FALSE
    /\ pending' = TRUE
    /\ UNCHANGED <<served, stream, drops, refreshing, cache, fresh, revalidating, view>>

\* router.refresh after the debounce; the timer of a page that is gone fires
\* all the same.
Refresh ==
    /\ pending
    /\ pending' = FALSE /\ refreshing' = TRUE
    /\ UNCHANGED <<served, stream, drops, update, cache, fresh, revalidating, view>>

\* LiveRefresh, mounted again, opens a new EventSource.
Mounted == IF view = None THEN "open" ELSE stream

\* A cache without a revalidate time: what it holds is never fetched again.
RenderForceCached ==
    /\ refreshing
    /\ refreshing' = FALSE
    /\ view' = IF cache = None THEN served ELSE cache
    /\ cache' = view'
    /\ stream' = Mounted
    /\ UNCHANGED <<served, drops, update, pending, fresh, revalidating>>

\* apiGet answers from its cache as long as there is one; a stale answer is
\* fetched again in the background.
Render ==
    /\ refreshing
    /\ refreshing' = FALSE
    /\ view' = IF cache = None THEN served ELSE cache
    /\ cache' = view'
    /\ fresh' = (fresh \/ cache = None)
    /\ revalidating' = IF fresh \/ cache = None THEN revalidating ELSE served
    /\ stream' = Mounted
    /\ UNCHANGED <<served, drops, update, pending>>

\* Without a cached answer apiGet fails when the services do: the page is an
\* alert or "not found", without LiveRefresh, whose effect closes the stream.
RenderFails ==
    /\ refreshing /\ cache = None
    /\ refreshing' = FALSE
    /\ view' = None /\ stream' = "closed" /\ update' = FALSE
    /\ UNCHANGED <<served, drops, pending, cache, fresh, revalidating>>

RenderEnds == Render \/ RenderFails

Revalidated ==
    /\ revalidating # None
    /\ cache' = revalidating /\ fresh' = TRUE /\ revalidating' = None
    /\ UNCHANGED <<served, stream, drops, update, pending, refreshing, view>>

\* A background fetch that fails leaves the stale answer.
RevalidationFails ==
    /\ revalidating # None /\ drops < MaxDrops
    /\ revalidating' = None /\ drops' = drops + 1
    /\ UNCHANGED <<served, stream, update, pending, refreshing, cache, fresh, view>>

CacheExpires ==
    /\ fresh
    /\ fresh' = FALSE
    /\ UNCHANGED <<served, stream, drops, update, pending, refreshing, cache, revalidating, view>>

\* The Next.js process restarts with an empty cache.
CacheLost ==
    /\ cache # None /\ drops < MaxDrops
    /\ cache' = None /\ fresh' = FALSE /\ revalidating' = None /\ drops' = drops + 1
    /\ UNCHANGED <<served, stream, update, pending, refreshing, view>>

\* The connection breaks: updates on their way and until the next one are lost.
Disconnect ==
    /\ stream = "open" /\ drops < MaxDrops
    /\ stream' = "retrying" /\ update' = FALSE /\ drops' = drops + 1
    /\ UNCHANGED <<served, pending, refreshing, cache, fresh, revalidating, view>>

\* The browser connects again.  The proxy answers 503 while the services are
\* down, and an EventSource does not retry after such an answer.
Reconnect ==
    /\ stream = "retrying"
    /\ stream' = "open"
    /\ UNCHANGED <<served, drops, update, pending, refreshing, cache, fresh, revalidating, view>>

ReconnectRefused ==
    /\ stream = "retrying"
    /\ stream' = "dead"
    /\ UNCHANGED <<served, drops, update, pending, refreshing, cache, fresh, revalidating, view>>

LiveStep ==
    \/ Upsert \/ Republish \/ ReceiveUpdate \/ Refresh \/ RenderEnds
    \/ Revalidated \/ RevalidationFails \/ CacheExpires \/ CacheLost \/ Disconnect \/ Reconnect \/ ReconnectRefused
=============================================================================
