----------------------------- MODULE Container ------------------------------
(***************************************************************************)
(* A CMS container between its signers and its readers: long-term evidence *)
(* is written into every signer's unsigned attributes and read back        *)
(* (cms/ltv.go, core/ltv.go), and the timestamp token each signer carries  *)
(* is judged before a signature is called CAdES-T (core/timestamp.go and   *)
(* buildSigners).  Bytes are abstracted to what the readers tell apart.    *)
(***************************************************************************)
EXTENDS Naturals, Sequences, FiniteSets

CONSTANTS NoStamp,      \* no timestamp token
          MaxEmbeds     \* bound: times a container is archived

VARIABLES
    original,   \* the container as it was signed
    box,        \* the container now
    allowed,    \* the operator's TSA policies, none for no list
    embeds,     \* the evidence of each time it was archived
    said        \* what buildSigners said of each signer, <<>> until it did

containerVars == <<original, box, allowed, embeds, said>>

-----------------------------------------------------------------------------
(* A token stamps the signature `over` ("none": it has no imprint) with a   *)
(* digest Go computes, the driver computes, or nobody here does.            *)

Token(over, digest, tsa, policy) == [over |-> over, digest |-> digest, tsa |-> tsa, policy |-> policy]

(* An unsigned attribute.  A token attribute may not parse as one; one that *)
(* is `broken` is no attribute at all.                                      *)
Attr(type, stamp, holds) == [type |-> type, stamp |-> stamp, holds |-> holds]
TokenAttr(t) == Attr("token", t, {})
Garbled == Attr("token", NoStamp, {})
Broken == Attr("broken", NoStamp, {})
Evidence(type, holds) == Attr(type, NoStamp, holds)

(* `whole`: the SignerInfo has its five elements.                           *)
SignerInfo(serial, sig, whole, attrs) == [serial |-> serial, sig |-> sig, whole |-> whole, attrs |-> attrs]

Box(form, enc, signers) == [form |-> form, enc |-> enc, signers |-> signers]

-----------------------------------------------------------------------------
(* Writing evidence. *)

RevocationKinds == {"ocsp", "crl"}

evidenceAttributes(ev) ==
    (IF ev \cap RevocationKinds # {} THEN <<Evidence("revocation", ev \cap RevocationKinds)>> ELSE <<>>)
    \o (IF "ca" \in ev THEN <<Evidence("certificates", {"ca"})>> ELSE <<>>)

hasAttribute(attrs, type) == \E k \in DOMAIN attrs : attrs[k].type = type

parseAttributeList(attrs) == ~hasAttribute(attrs, "broken")

Annotates(si) == si.whole /\ parseAttributeList(si.attrs)

signerWithEvidenceAgain(si, attrs) == [si EXCEPT !.attrs = @ \o attrs]

(* What is there stays; only attribute types that are missing are added.    *)
signerWithEvidence(si, attrs) ==
    [si EXCEPT !.attrs = @ \o SelectSeq(attrs, LAMBDA a : ~hasAttribute(si.attrs, a.type))]

(* Refused whole: one signer that cannot be annotated leaves none annotated.*)
AddLTV(b, ev) ==
    IF /\ ev # {} /\ b.form = "signedData" /\ b.signers # <<>>
       /\ \A k \in DOMAIN b.signers : Annotates(b.signers[k])
    THEN {[b EXCEPT !.signers = [k \in DOMAIN @ |-> signerWithEvidence(@[k], evidenceAttributes(ev))]]}
    ELSE {}

(* The caller says whether it sent PEM; saying it wrongly is an error.      *)
embedEvidence(b, inputPEM, ev) == IF inputPEM = (b.enc = "pem") THEN AddLTV(b, ev) ELSE {}

reencodeCMS(b, toPEM) == [b EXCEPT !.enc = IF toPEM THEN "pem" ELSE "der"]

Embed(ev, inputPEM, outputPEM) ==
    /\ said = <<>> /\ Len(embeds) < MaxEmbeds
    /\ \E b \in embedEvidence(box, inputPEM, ev) : box' = reencodeCMS(b, outputPEM)
    /\ embeds' = Append(embeds, ev)
    /\ UNCHANGED <<original, allowed, said>>

(* Reading it back: every signer's, passing over what is malformed inside   *)
(* an attribute but not over an attribute that is none.                     *)
EmbeddedEvidence(b) ==
    IF b.form = "signedData" /\ \A k \in DOMAIN b.signers : Annotates(b.signers[k])
    THEN UNION {UNION {b.signers[k].attrs[j].holds : j \in DOMAIN b.signers[k].attrs} : k \in DOMAIN b.signers}
    ELSE {}

-----------------------------------------------------------------------------
(* Reading tokens. *)

(* parseAttributes stops where the list breaks; the last token that parses  *)
(* is the signer's.                                                         *)
parseAttributes(attrs) ==
    IF parseAttributeList(attrs) THEN attrs
    ELSE SubSeq(attrs, 1, (CHOOSE k \in DOMAIN attrs : attrs[k].type = "broken"
                              /\ \A j \in 1..(k - 1) : attrs[j].type # "broken") - 1)

ParseTimestampToken(attrs) ==
    LET read == SelectSeq(parseAttributes(attrs), LAMBDA a : a.type = "token" /\ a.stamp # NoStamp)
    IN IF read = <<>> THEN NoStamp ELSE read[Len(read)].stamp

(* The facts of the signers, by serial: a later one with the same serial    *)
(* replaces an earlier one.  None for what is no SignedData or does not     *)
(* parse as one.                                                            *)
cmsSignersBySerial(b) ==
    IF b.form # "signedData" \/ \E k \in DOMAIN b.signers : ~b.signers[k].whole THEN [s \in {} |-> NoStamp]
    ELSE [s \in {b.signers[k].serial : k \in DOMAIN b.signers} |->
            b.signers[CHOOSE k \in DOMAIN b.signers : b.signers[k].serial = s
                         /\ \A j \in DOMAIN b.signers : b.signers[j].serial = s => j <= k]]

(* The digest of a signature, as the token's algorithm has it.              *)
digestFor(digest, sig, fault) ==
    IF digest = "go" \/ (digest = "driver" /\ ~fault.hash) THEN sig ELSE "none"

verifyTimestampImprint(si, ts, fault) ==
    IF ts.over = "none" \/ digestFor(ts.digest, si.sig, fault) = "none" THEN "unknown"
    ELSE IF ts.over = digestFor(ts.digest, si.sig, fault) THEN "yes" ELSE "no"

(* Whatever the library itself reports is taken for its verdict, a missing  *)
(* anchor or an error without a name included (isSoftVerifyFailure); only a *)
(* driver that could not ask it leaves the signature open.                  *)
verifyTimestampSignature(ts, fault) ==
    CASE fault.verify = "driver" -> "unknown"
      [] fault.verify = "library" -> "no"
      [] fault.verify = "none" -> IF ts.tsa = "genuine" THEN "yes" ELSE "no"

checkTimestampPolicy(ts) ==
    IF allowed = {} THEN "unknown" ELSE IF ts.policy \in allowed THEN "yes" ELSE "no"

NoToken == [imprint |-> "none", signed |-> "none", policy |-> "none", level |-> "BES", time |-> FALSE]

(* CAdES-T needs the imprint and the TSA, and no policy against it.         *)
Level(imprint, signed, policy) ==
    IF imprint = "yes" /\ signed = "yes" /\ policy # "no" THEN "T" ELSE "BES"

(* What is said of the certificate with this serial, the i-th the driver    *)
(* listed.  Without a token the library's own time is taken for the first.  *)
buildSigner(b, i, fault) ==
    LET facts == cmsSignersBySerial(b)
        serial == b.signers[i].serial
        si == facts[serial]
        ts == IF serial \in DOMAIN facts THEN ParseTimestampToken(si.attrs) ELSE NoStamp
        imprint == verifyTimestampImprint(si, ts, fault)
        signed == verifyTimestampSignature(ts, fault)
        policy == checkTimestampPolicy(ts)
    IN IF ts = NoStamp THEN [NoToken EXCEPT !.time = i = 1 /\ fault.libTime]
       ELSE [imprint |-> imprint, signed |-> signed, policy |-> policy,
             level |-> Level(imprint, signed, policy), time |-> TRUE]

Faults == [hash : BOOLEAN, verify : {"none", "library", "driver"}, libTime : BOOLEAN]
NoFault == [hash |-> FALSE, verify |-> "none", libTime |-> TRUE]

buildSigners(fault) ==
    /\ said = <<>> /\ box.signers # <<>>
    /\ said' = [i \in DOMAIN box.signers |-> buildSigner(box, i, fault)]
    /\ UNCHANGED <<original, box, allowed, embeds>>

-----------------------------------------------------------------------------
(* The containers that come in: a first signer with tokens that differ from *)
(* a good one in at most two ways, alone or beside a second signer, perhaps *)
(* with evidence of somebody else's, perhaps damaged.                       *)

GoodToken(sig) == Token(sig, "go", "genuine", "p1")

Tokens ==
    {t \in [over : {"sigA", "sigB", "none"}, digest : {"go", "driver", "unknown"},
            tsa : {"genuine", "wrong"}, policy : {"p1", "p2"}] :
        Cardinality({f \in DOMAIN t : t[f] # GoodToken("sigA")[f]}) <= 2}

Lists ==
    {<<>>, <<Garbled>>, <<Broken>>, <<TokenAttr(GoodToken("sigA")), Broken>>,
     <<Evidence("revocation", {"theirs"})>>, <<Evidence("revocation", {}), TokenAttr(GoodToken("sigA"))>>,
     <<Evidence("certificates", {"theirs"}), TokenAttr(GoodToken("sigA"))>>}
    \cup UNION {{<<TokenAttr(t)>>, <<TokenAttr(t), Garbled>>} : t \in Tokens}

Others == {SignerInfo("b", "sigB", TRUE, <<>>), SignerInfo("b", "sigB", TRUE, <<TokenAttr(GoodToken("sigB"))>>),
           SignerInfo("b", "sigB", FALSE, <<>>), SignerInfo("a", "sigB", TRUE, <<TokenAttr(GoodToken("sigB"))>>)}

Boxes ==
    {Box("signedData", "der", <<SignerInfo("a", "sigA", TRUE, l)>>) : l \in Lists}
    \cup {Box("signedData", "pem", <<SignerInfo("a", "sigA", TRUE, l), o>>) : l \in Lists, o \in Others}
    \cup {Box("signedData", "der", <<>>), Box("other", "der", <<SignerInfo("a", "sigA", TRUE, <<>>)>>)}

ContainerInit ==
    /\ original \in Boxes /\ box = original
    /\ allowed \in {{}, {"p1"}} /\ embeds = <<>> /\ said = <<>>

ContainerNext ==
    \/ \E ev \in SUBSET {"ocsp", "crl", "ca"}, i, o \in BOOLEAN : Embed(ev, i, o)
    \/ \E f \in Faults : buildSigners(f)

-----------------------------------------------------------------------------
(* Properties. *)

CountOfType(si, type) == Cardinality({k \in DOMAIN si.attrs : si.attrs[k].type = type})

(* Archiving adds and does nothing else: however often it is done, every   *)
(* signer keeps its signature and the attributes it had, no evidence       *)
(* attribute is there twice that was not before, and what is said of its   *)
(* timestamp stays the same (AddLTV, signerWithEvidence).                  *)
ArchivingOnlyAdds ==
    /\ Len(box.signers) = Len(original.signers)
    /\ \A k \in DOMAIN box.signers :
         LET was == original.signers[k]
             is == box.signers[k]
         IN /\ [is EXCEPT !.attrs = <<>>] = [was EXCEPT !.attrs = <<>>]
            /\ SubSeq(is.attrs, 1, Len(was.attrs)) = was.attrs
            /\ \A t \in {"revocation", "certificates"} : CountOfType(is, t) <= 1
            /\ buildSigner(box, k, NoFault) = buildSigner(original, k, NoFault)

(* Evidence that was written can be read: what the first archiving embeds  *)
(* comes back from every signer that carried none of that type before, for *)
(* as long as the container is kept (evidenceAttributes, EmbeddedEvidence).*)
EvidenceReadsBack ==
    embeds # <<>> =>
        /\ EmbeddedEvidence(original) \subseteq EmbeddedEvidence(box)
        /\ \A k \in DOMAIN box.signers :
             LET had == {original.signers[k].attrs[j].type : j \in DOMAIN original.signers[k].attrs}
             IN \A e \in embeds[1] :
                  (IF e = "ca" THEN "certificates" ELSE "revocation") \notin had =>
                      e \in EmbeddedEvidence([box EXCEPT !.signers = <<box.signers[k]>>])

(* The signers buildSigners takes for one another: it knows them by serial. *)
Namesakes(i) == {j \in DOMAIN box.signers : box.signers[j].serial = box.signers[i].serial}

(* CAdES-T is earned: a token in the container stamps the very signature   *)
(* it is attached to, the TSA made it, and its policy is one the operator  *)
(* accepts.  It is the signer's own unless another signer's certificate    *)
(* has the same serial, which may then lend it its token.                  *)
LevelIsEarned ==
    \A i \in DOMAIN said : said[i].level = "T" =>
        \E j \in Namesakes(i) : \E k \in DOMAIN box.signers[j].attrs :
            LET t == box.signers[j].attrs[k].stamp
            IN /\ box.signers[j].attrs[k].type = "token" /\ t # NoStamp
               /\ t.over = box.signers[j].sig /\ t.tsa = "genuine"
               /\ allowed # {} => t.policy \in allowed

(* What could not be computed is not called wrong: an imprint is said not  *)
(* to match only when it is another signature's, whatever digest the       *)
(* driver does not have or fails at (verifyTimestampImprint).  Of the      *)
(* TSA's signature that is not so: verifyTimestampSignature reads every    *)
(* error of the library as "does not verify".                              *)
UncheckableIsNotWrong ==
    \A i \in DOMAIN said : said[i].imprint = "no" =>
        \E j \in Namesakes(i) :
            LET t == ParseTimestampToken(box.signers[j].attrs)
            IN t # NoStamp /\ t.over \notin {box.signers[j].sig, "none"} /\ t.digest # "unknown"

(* A container survives being archived and is described as what it is      *)
(* (ltv.go, timestamp.go): nothing is lost, what is added can be read, its *)
(* level has a token behind it and an imprint is not blamed without cause. *)
ContainerIsSound ==
    /\ ArchivingOnlyAdds
    /\ EvidenceReadsBack
    /\ LevelIsEarned
    /\ UncheckableIsNotWrong
=============================================================================
