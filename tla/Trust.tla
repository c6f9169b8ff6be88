------------------------------- MODULE Trust -------------------------------
(***************************************************************************)
(* Where a verification gets its issuers from: the live trust store and    *)
(* its periodic rebuild (internal/trust), and the AIA fetcher with its URL *)
(* cache (internal/aia), used by concurrent requests while the sources go  *)
(* away and come back.                                                     *)
(***************************************************************************)
EXTENDS Integers, Sequences, FiniteSets

CONSTANTS
    Anchors,    \* anchors the configured sources can yield, one each
    Fetchers,   \* concurrent requests that walk a chain
    MaxOutages  \* bound on the changes of the sources

VARIABLES
    sources,    \* the anchors that the sources would yield now
    anchors,    \* trust.Store: the published set
    rebuild,    \* Refresher.Refresh: the sources left to ask and what the others
                \* gave; history: sources that answered and that failed all along
    url,        \* what the issuer URL serves: "up" or "down"
    aia,        \* aia.Fetcher's entry for it: "unseen", "hit", "miss"
    walk,       \* request -> its FetchIssuer
    downloads,  \* downloads begun
    outages     \* changes of the sources so far

trustVars == <<sources, anchors, rebuild, url, aia, walk, downloads, outages>>

Resting == [pc |-> "rest", got |-> "none"]

NoRebuild == [on |-> FALSE, left |-> {}, fresh |-> {}, steady |-> {}, dark |-> {}]

TrustInit ==
    /\ sources = Anchors /\ anchors = Anchors /\ rebuild = NoRebuild
    /\ url \in {"up", "down"}
    /\ aia = "unseen"
    /\ walk = [f \in Fetchers |-> Resting]
    /\ downloads = 0 /\ outages = 0

---------------------------------------------------------------------------

\* Refresher.Refresh asks one source after the other, the directory and each
\* reference of the registry, while they come and go.
RefreshBegin ==
    /\ ~rebuild.on
    /\ rebuild' = [on |-> TRUE, left |-> Anchors, fresh |-> {},
                   steady |-> sources, dark |-> Anchors \ sources]
    /\ UNCHANGED <<sources, anchors, url, aia, walk, downloads, outages>>

LoadSource(a) ==
    /\ a \in rebuild.left
    /\ rebuild' = [rebuild EXCEPT !.left = @ \ {a}, !.fresh = @ \cup ({a} \cap sources)]
    /\ UNCHANGED <<sources, anchors, url, aia, walk, downloads, outages>>

\* The rebuild that publishes whatever it got.
SwapAlways ==
    /\ rebuild.on /\ rebuild.left = {} /\ rebuild' = NoRebuild
    /\ anchors' = rebuild.fresh
    /\ UNCHANGED <<sources, url, aia, walk, downloads, outages>>

\* What they gave is swapped in whole; an empty rebuild keeps the last good
\* set.
Swap ==
    /\ rebuild.on /\ rebuild.left = {} /\ rebuild' = NoRebuild
    /\ anchors' = IF rebuild.fresh = {} /\ anchors # {} THEN anchors ELSE rebuild.fresh
    /\ UNCHANGED <<sources, url, aia, walk, downloads, outages>>

\* Fetcher.get up to the download: the cache decides when it has an entry.
GetBegin(f) ==
    /\ walk[f].pc = "rest"
    /\ walk' = [walk EXCEPT ![f] = IF aia = "unseen"
                                   THEN [Resting EXCEPT !.pc = "down"]
                                   ELSE [Resting EXCEPT !.got = aia]]
    /\ downloads' = IF aia = "unseen" THEN downloads + 1 ELSE downloads
    /\ UNCHANGED <<sources, anchors, rebuild, url, aia, outages>>

\* The download: a certificate, or nothing - also when the request's
\* context ends first.
Download(f) ==
    /\ walk[f].pc = "down"
    /\ \E r \in (IF url = "up" THEN {"hit", "miss"} ELSE {"miss"}):
          walk' = [walk EXCEPT ![f] = [pc |-> "store", got |-> r]]
    /\ UNCHANGED <<sources, anchors, rebuild, url, aia, downloads, outages>>

\* The result is cached, a miss like a hit, over whatever is there by now.
GetEnd(f) ==
    /\ walk[f].pc = "store"
    /\ aia' = walk[f].got
    /\ walk' = [walk EXCEPT ![f] = [pc |-> "rest", got |-> walk[f].got]]
    /\ UNCHANGED <<sources, anchors, rebuild, url, downloads, outages>>

\* A source fails or comes back; the URL does.
Turn ==
    /\ outages < MaxOutages
    /\ outages' = outages + 1
    /\ \/ sources' \in SUBSET Anchors \ {sources} /\ url' = url
       \/ url' \in {"up", "down"} \ {url} /\ sources' = sources
    /\ rebuild' = [rebuild EXCEPT !.steady = @ \cap sources', !.dark = @ \ sources']
    /\ UNCHANGED <<anchors, aia, walk, downloads>>

TrustNext == \/ RefreshBegin \/ Swap \/ Turn
             \/ \E a \in Anchors: LoadSource(a)
             \/ \E f \in Fetchers: GetBegin(f) \/ Download(f) \/ GetEnd(f)

---------------------------------------------------------------------------

\* What is published is the whole of one rebuild (refresh.go, Refresh),
\* though the sources come and go under it: the anchors change only when it
\* has asked every source, they then hold those of each source that answered
\* throughout and none of a source that failed throughout, unless all that
\* was asked gave nothing: then the last good set stays and is not wiped.
\* A source that fails in one rebuild does lose its anchors.
RebuildIsWhole ==
    /\ anchors' # anchors => rebuild.on /\ rebuild.left = {}
    /\ rebuild.on /\ ~rebuild'.on =>
          /\ rebuild.steady \subseteq anchors'
          /\ anchors' \cap rebuild.dark = {} \/ (rebuild.steady = {} /\ anchors' = anchors)
    /\ anchors # {} => anchors' # {}

\* A URL that was tried is not tried again (aia.go, get: misses are cached
\* too): there are never more downloads of it than there were requests that
\* had all found it unseen, and once it has an entry nobody new goes to the
\* network - although lookup and store are under separate locks.  A late
\* miss may take the place of a hit, and stays.
TriedIsTried ==
    /\ downloads <= Cardinality(Fetchers)
    /\ aia # "unseen" =>
          Cardinality({f \in Fetchers: walk[f].pc # "rest"}) < downloads

\* Anchors come from whole rebuilds, and an issuer's address is asked only
\* by those who found it unseen (refresh.go, Refresh; aia.go, get).
IssuersAreKept == [][RebuildIsWhole /\ TriedIsTried']_trustVars
============================================================================
