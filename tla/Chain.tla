------------------------------- MODULE Chain -------------------------------
(***************************************************************************)
(* Certificate chain assembly (internal/core/chain.go) and the discovery   *)
(* of missing issuers on top of it (service.go, discoverAnchors), checked  *)
(* against what a chain has to be over every small PKI.                    *)
(*                                                                         *)
(* A certificate is a record: subject and issuer name, the key it carries, *)
(* the key that signed it (for GOST the authority key id, the only trace   *)
(* of it Go can read), and whether it may issue.  Its DER is the record:   *)
(* two certificates are the same when every field is.  `gost` says which   *)
(* family the PKI is of: Go verifies RSA signatures and none of GOST's.    *)
(***************************************************************************)
EXTENDS Integers, Sequences, FiniteSets, SequencesExt

CONSTANTS
    Names,          \* subject and issuer names of the CAs
    Keys,           \* their keys
    LeafName,       \* the subject of the certificate being checked
    NoCert,         \* no certificate: nothing found, nothing readable
    MaxChainDepth,  \* chain.go: maxChainDepth
    MaxTrusted,     \* the longest configured list of anchors, and the longest
                    \* list of certificates reachable by AIA
    MaxListed       \* the most certificates in the two together

VARIABLES
    pki,    \* the world: [gost, leaf, trusted, published]
    built   \* what the code made of it, or NoCert before it ran

chainVars == <<pki, built>>

CACerts == [subj: Names, iss: Names, key: Keys, by: Keys, ca: {TRUE}]
Leaves == [subj: {LeafName}, iss: Names, key: {LeafName}, by: Keys, ca: {FALSE}]

---------------------------------------------------------------------------
(***************************************************************************)
(* The algorithm.                                                          *)
(***************************************************************************)

isSelfIssued(c) == c.iss = c.subj

\* x509 CheckSignatureFrom: "ok", "bad", or "unsupported" for GOST.
CheckSignatureFrom(c, d, gost) ==
    IF ~d.ca THEN "bad"
    ELSE IF gost THEN "unsupported"
    ELSE IF c.by = d.key THEN "ok" ELSE "bad"

\* The name matches and the signature is not known to be wrong.
issues(c, d, gost) == c.iss = d.subj /\ CheckSignatureFrom(c, d, gost) # "bad"

\* One pass over the candidates: the first that verifies is returned at
\* once, else the first that matches by key id, else the first by name.
findIssuer(c, candidates, gost) ==
    LET fit      == SelectSeq(candidates, LAMBDA d: issues(c, d, gost))
        verified == SelectSeq(fit, LAMBDA d: CheckSignatureFrom(c, d, gost) = "ok")
        byKeyID  == SelectSeq(fit, LAMBDA d: c.by = d.key)
        byName   == SelectSeq(fit, LAMBDA d: c.by # d.key)
    IN  IF verified # <<>> THEN verified[1]
        ELSE IF byKeyID # <<>> THEN byKeyID[1]
        ELSE IF byName # <<>> THEN byName[1]
        ELSE NoCert

\* The AIA fetcher (internal/aia): what the certificate's issuer URL serves.
\* A publisher may serve anything; here, what it has of that name, else
\* what it has.
FetchIssuer(c, published) ==
    LET named == SelectSeq(published, LAMBDA d: c.iss = d.subj)
    IN  IF named # <<>> THEN named[1]
        ELSE IF published # <<>> THEN published[1] ELSE NoCert

\* Without the check that what came back is the issuer.
fetchIssuerUnchecked(c, published, gost) == FetchIssuer(c, published)

\* A fetched certificate counts only when it can be the issuer.
fetchIssuer(c, published, gost) ==
    LET d == FetchIssuer(c, published)
    IN  IF d # NoCert /\ issues(c, d, gost) THEN d ELSE NoCert

\* One turn of the loop: the issuer of the last node, or the end.
NextNode(chain, trusted, published, gost) ==
    LET here  == Last(chain)
        found == findIssuer(here, trusted, gost)
        next  == IF found = NoCert THEN fetchIssuer(here, published, gost) ELSE found
    IN  IF \/ isSelfIssued(here)
           \/ next = NoCert
           \/ \E i \in DOMAIN chain: chain[i].subj = next.subj
        THEN NoCert ELSE next

\* The walk from the leaf; it stops where NextNode does or at the depth
\* bound, and notices a self-issued end only on a turn it still has.
buildChain(leaf, trusted, published, gost) ==
    LET walk[n \in 0 .. MaxChainDepth] ==
            IF n = 0 THEN <<leaf>>
            ELSE LET next == NextNode(walk[n - 1], trusted, published, gost)
                 IN  IF next = NoCert THEN walk[n - 1] ELSE Append(walk[n - 1], next)
        chain == walk[MaxChainDepth]
    IN  [chain    |-> chain,
         complete |-> Len(chain) <= MaxChainDepth /\ isSelfIssued(Last(chain)),
         anchored |-> \E i \in DOMAIN chain: Contains(trusted, chain[i])]

\* The issuers above the leaf that are not configured.
discoverAnchors(leaf, trusted, published, gost) ==
    SelectSeq(Tail(buildChain(leaf, trusted, published, gost).chain),
              LAMBDA d: ~Contains(trusted, d))

---------------------------------------------------------------------------
(***************************************************************************)
(* The world and the two uses of it in Verify: the chain as first built,   *)
(* and the chain of the retry, whose trusted list has the discovered       *)
(* issuers appended (service.go, Verify and Validate).                     *)
(***************************************************************************)

ChainInit ==
    /\ pki \in [gost: BOOLEAN, leaf: Leaves,
                trusted: BoundedSeq(CACerts, MaxTrusted),
                published: BoundedSeq(CACerts, MaxTrusted)]
    /\ Len(pki.trusted) + Len(pki.published) <= MaxListed
    /\ built = NoCert

Build ==
    /\ built = NoCert
    /\ LET extra == discoverAnchors(pki.leaf, pki.trusted, pki.published, pki.gost)
       IN  built' = [first |-> buildChain(pki.leaf, pki.trusted, pki.published, pki.gost),
                     extra |-> extra,
                     retry |-> buildChain(pki.leaf, pki.trusted \o extra,
                                          pki.published, pki.gost)]
    /\ UNCHANGED pki

---------------------------------------------------------------------------
(***************************************************************************)
(* What a chain is, said without the algorithm.                            *)
(***************************************************************************)

\* d is known not to have issued c: another name, not a CA, or an RSA key
\* that is not the one that signed.
Refuted(c, d) == \/ c.iss # d.subj
                 \/ ~d.ca
                 \/ ~pki.gost /\ c.by # d.key

\* Every link of the chain is one that nothing refutes, and no name comes
\* twice (chain.go, buildChain with findIssuer and fetchIssuer): a fetched
\* or configured certificate that did not sign the one below it never
\* enters the chain, whatever the order of the trusted list, and a loop of
\* cross-certificates ends.
ChainIsAPath ==
    built # NoCert =>
        LET c == built.first.chain
        IN  /\ c[1] = pki.leaf
            /\ \A i \in 1 .. Len(c) - 1: ~Refuted(c[i], c[i + 1])
            /\ \A i, j \in DOMAIN c: i # j => c[i].subj # c[j].subj

\* In a GOST PKI a configured certificate whose key id matches is preferred
\* to one that has only the name, wherever they stand in the list
\* (chain.go, findIssuer): a renewed CA of the same name does not displace
\* the one that signed.
KeyIdDecides ==
    built # NoCert =>
        \A i \in 1 .. Len(built.first.chain) - 1:
            LET c == built.first.chain[i]
                d == built.first.chain[i + 1]
            IN  (\E j \in DOMAIN pki.trusted:
                    ~Refuted(c, pki.trusted[j]) /\ pki.trusted[j].key = c.by)
                => d.key = c.by

\* Loading the discovered issuers and asking again without the network
\* gives the chain that was found with it (service.go, Verify's retry and
\* Validate): the retry is about the chain the first attempt saw, for
\* every order of the anchors and whatever the publishers serve.
RetrySeesTheSameChain ==
    built # NoCert =>
        /\ built.retry.chain = built.first.chain
        /\ buildChain(pki.leaf, pki.trusted \o built.extra, <<>>, pki.gost).chain
             = built.first.chain

\* A chain is anchored exactly when it holds a configured certificate
\* (chain.go, buildChain): what was fetched to complete it never counts.
\* This is said of the chain built over the configured list.  The retry gets
\* the fetched issuers in that list, so the anchor it reports may be one that
\* only a publisher named, although IssuerFetcher says that it is not.
AnchorsAreConfigured ==
    built # NoCert =>
        (built.first.anchored <=> ToSet(built.first.chain) \cap ToSet(pki.trusted) # {})

\* The chain that is built (chain.go) is a path of issuers, by key id where
\* there is one, the same on the retry, and anchored, as first built, only
\* in what was configured.
ChainIsSound ==
    /\ ChainIsAPath
    /\ KeyIdDecides
    /\ RetrySeesTheSameChain
    /\ AnchorsAreConfigured
============================================================================
