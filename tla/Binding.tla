------------------------------ MODULE Binding ------------------------------
(***************************************************************************)
(* The binding of the native library: opening and releasing its instances  *)
(* (internal/native/open.go, openInstance and close of instance.go, kc_open *)
(* and kc_close of shim.c), the capabilities (capabilities.go) and the way *)
(* the output of a library call becomes the answer of a method            *)
(* (instance.go, pool.go).  Pool models how calls share the instances;     *)
(* here one call is made at a time.                                        *)
(*                                                                         *)
(* Sizes are scaled: a capacity of 2^16 bytes is 2, 2^18 is 4, 2^20 is 8   *)
(* and the largest, 2^25, is MaxCap.                                       *)
(***************************************************************************)
EXTENDS Integers, FiniteSets, SequencesExt

CONSTANTS MaxOpens,      \* how often the process opens the pool
          MaxPool,       \* the largest pool size asked for
          MaxCap,        \* maxCap of withBuf, scaled
          MaxSigners,    \* the last sigID of the signer walk, scaled from 64
          OutputSizes,   \* the sizes of what the library has to say
          Optional,      \* functions a library version may lack
          NoOutput

ASSUME BindingAssumption ==
  MaxOpens \in Nat /\ MaxPool \in Nat /\ MaxSigners \in Nat /\ MaxCap \in {8, 16, 32}

VARIABLES
  stage,    \* "down", "prepare", "load", "up", or "crashed" by a call through NULL
  isolate,  \* the instances go into private namespaces
  size,     \* how many instances
  insts,    \* the instances opened: whether each is isolated
  holds,    \* what the process holds: [mapped, temps, engine]
  table,    \* the functions of the library's table
  opens,
  native,   \* the library call under way: [op, ask, r, cap], NoOutput when none
  reported     \* the answer of the last method

bindingVars == <<stage, isolate, size, insts, holds, table, opens, native, reported>>

-----------------------------------------------------------------------------
(* The library *)

(* The function of the table behind each library call of instance.go that a  *)
(* capability stands for.                                                    *)
FunctionOf ==
  [signData |-> "SignData", verifyData |-> "VerifyData", signXML |-> "SignXML",
   verifyXML |-> "VerifyXML", certInfo |-> "X509CertificateGetInfo",
   validate |-> "X509ValidateCertificate", signWSSE |-> "SignWSSE", hashData |-> "HashData",
   signHash |-> "SignHash", exportCert |-> "X509ExportCertificateFromStore"]

LibCalls == DOMAIN FunctionOf

(* The functions a method calls besides it, which no capability stands for:  *)
(* the key it signs with, the anchors of the request, the walk over the      *)
(* signers and the time of the signature.                                    *)
Besides(op, anchors) ==
  (IF op \in {"signData", "signXML", "signWSSE", "signHash", "exportCert"} THEN {"LoadKeyStore"} ELSE {})
  \cup (IF op = "verifyData" THEN {"GetCertFromCMS", "GetTimeFromSig"} ELSE {})
  \cup (IF op = "verifyXML" THEN {"getCertFromXML"} ELSE {})
  \cup (IF anchors THEN {"X509LoadCertificateFromFile"} ELSE {})

Unchecked == UNION {Besides(c, TRUE) : c \in LibCalls}
AllFunctions == {FunctionOf[c] : c \in LibCalls} \cup Unchecked

kc_has(f) == f \in table

(* The first capacity of each call's output buffer; two calls never grow it. *)
Capacity ==
  [signData |-> 8, verifyData |-> 8, signXML |-> 8, verifyXML |-> 4, certInfo |-> 2,
   validate |-> 2, signWSSE |-> 8, hashData |-> 2, signHash |-> 4, exportCert |-> 4]
Fixed == {"verifyData", "validate"}

(* The calls that answer a C string, possibly with its NUL; the others       *)
(* answer bytes, NULs among them.                                            *)
Text == {"signData", "signXML", "signWSSE", "verifyXML", "certInfo", "exportCert"}

(* What the library has to say: the code, the size of its output, where the  *)
(* first NUL is (0: nowhere), what the bytes are and, of a container to      *)
(* verify, the signers and whether VerifyData itself hands out a certificate.*)
(* A signature it cannot make leaves the buffer as it was, with code OK.  A  *)
(* certificate that comes as DER has NULs among its bytes.                   *)
Result(code, n, z, kind) ==
  [code |-> code, size |-> n, nul |-> z, kind |-> kind, signers |-> 0, cert |-> FALSE]

Results(op) ==
  LET kinds == CASE op = "signData" -> {"pem"}
                 [] op = "exportCert" -> {"pem", "der"}
                 [] OTHER -> {"bytes"}
      said == {Result("err", 1, 0, "bytes")} \cup
              UNION {{Result("ok", n, z, k) : z \in {0, n} \cup IF op \in Text /\ k # "der" THEN {} ELSE {1}} :
                       n \in OutputSizes, k \in kinds}
      untouched == {Result("ok", n, 0, k) : n \in 0..1, k \in {"garbage", "badPem"}}
  IN  CASE op = "signData" -> said \cup untouched
        [] op \in {"verifyData", "verifyXML"} ->
             {[r EXCEPT !.signers = n, !.cert = c] :
                r \in said, n \in 0..(MaxSigners + 1), c \in {FALSE, op = "verifyData"}}
        [] OTHER -> said

(* The code of a call that is given that much room.                          *)
Code(r, cap) == IF r.code = "ok" /\ r.size > cap THEN "tooSmall" ELSE r.code

-----------------------------------------------------------------------------
(* Opening and releasing *)

BindingInit ==
  /\ stage = "down" /\ isolate = FALSE /\ size = 0 /\ insts = <<>> /\ opens = 0
  /\ holds = [mapped |-> 0, temps |-> 0, engine |-> "cold"]
  /\ native = NoOutput /\ reported = NoOutput
  /\ table \in {AllFunctions} \cup {AllFunctions \ {f} : f \in Optional}

(* A private namespace is finalized and unloaded.  The process-wide library  *)
(* is left mapped and initialized: a later open finds it as it was left.     *)
kc_close(w, isolated) == IF isolated THEN [w EXCEPT !.mapped = @ - 1] ELSE w

closeAll(w) == FoldLeft(kc_close, w, insts)
removeAll(w) == [w EXCEPT !.temps = 0]

Down == stage' = "down" /\ insts' = <<>>

(* Open: a pool of several instances must be isolated; a single one shares   *)
(* nothing and is not.                                                       *)
OpenBegin(n, isolated) ==
  /\ stage = "down" /\ opens < MaxOpens
  /\ n > 1 => isolated
  /\ opens' = opens + 1 /\ size' = n /\ isolate' = (isolated /\ n > 1)
  /\ stage' = IF isolate' THEN "prepare" ELSE "load"
  /\ UNCHANGED <<insts, holds, table, native, reported>>

(* The copy of the wrapper with its dependencies baked in; a copy that is    *)
(* not written or not patched is removed again.                              *)
prepareNamespaceWrapper(ok) ==
  /\ stage = "prepare"
  /\ IF ok THEN stage' = "load" /\ holds' = [holds EXCEPT !.temps = @ + 1] /\ UNCHANGED insts
     ELSE Down /\ UNCHANGED holds
  /\ UNCHANGED <<isolate, size, table, opens, native, reported>>

(* What kc_open and KC_Init leave mapped: a private namespace, or the        *)
(* process-wide library, which is not initialized afresh when it is there.   *)
kc_open(w, private) ==
  IF private THEN [w EXCEPT !.mapped = @ + 1]
  ELSE [w EXCEPT !.engine = IF @ = "cold" THEN "warm" ELSE @]

(* fail of Open.                                                             *)
FailOpen(w) == holds' = removeAll(closeAll(w)) /\ Down

(* openInstance in the loop of Open.  namespace: dlmopen assembled one, else *)
(* the library is loaded process-wide.  loaded: it was mapped and handed out *)
(* its table.  inited: KC_Init answered OK.                                  *)
openInstance(namespace, loaded, inited) ==
  /\ stage = "load" /\ Len(insts) < size
  /\ namespace => isolate
  /\ IF ~loaded THEN FailOpen(holds)
     ELSE IF ~inited \/ (isolate /\ ~namespace)
          THEN FailOpen(kc_close(kc_open(holds, namespace), namespace))
     ELSE /\ holds' = kc_open(holds, namespace)
          /\ insts' = Append(insts, namespace) /\ UNCHANGED stage
  /\ UNCHANGED <<isolate, size, table, opens, native, reported>>

OpenEnd ==
  /\ stage = "load" /\ Len(insts) = size
  /\ stage' = "up"
  /\ UNCHANGED <<isolate, size, insts, holds, table, opens, native, reported>>

(* No method is running: calls are made one at a time here.                  *)
Idle == stage = "up" /\ native = NoOutput /\ reported = NoOutput

(* Close: every worker closes its instance, then the copies are removed.     *)
CloseBinding ==
  /\ Idle
  /\ holds' = removeAll(closeAll(holds)) /\ Down
  /\ UNCHANGED <<isolate, size, table, opens, native, reported>>

-----------------------------------------------------------------------------
(* Calling *)

(* The calls the capabilities allow; hashing and signing a hash are one.     *)
detectCaps ==
  {c \in LibCalls : IF c \in {"hashData", "signHash"} THEN kc_has("HashData") /\ kc_has("SignHash")
                    ELSE kc_has(FunctionOf[c])}

(* What the request asks for: the encoding, or whether the OCSP answer is    *)
(* wanted, and the index of the signer.                                      *)
Asks(op) ==
  CASE op = "signData" -> [fmt : {"pem", "der"}, index : {0}]
    [] op = "exportCert" -> [fmt : {"pem", "der", "b64"}, index : {0}]
    [] op = "validate" -> [fmt : {"ocsp", "plain"}, index : {0}]
    [] op \in {"verifyData", "verifyXML"} -> [fmt : {"plain"}, index : -1..MaxSigners]
    [] OTHER -> [fmt : {"plain"}, index : {0}]

Answer0 == [err |-> "none", out |-> NoOutput, signer |-> 0]

(* A method the version lacks is refused; one that is there runs to its      *)
(* result unless it calls through an empty entry of the table on the way.    *)
CallMethod(op, ask, r, anchors) ==
  /\ Idle
  /\ anchors => op \in {"signData", "signXML", "signWSSE", "verifyData", "verifyXML", "validate"}
  /\ \/ /\ op \notin detectCaps
        /\ reported' = [op |-> op, ask |-> ask, r |-> r, got |-> [Answer0 EXCEPT !.err = "unsupported"]]
        /\ UNCHANGED <<stage, native>>
     \/ /\ op \in detectCaps /\ kc_has(FunctionOf[op]) /\ \A f \in Besides(op, anchors) : kc_has(f)
        /\ native' = [op |-> op, ask |-> ask, r |-> r, cap |-> Capacity[op]]
        /\ UNCHANGED <<stage, reported>>
     \/ /\ op \in detectCaps /\ ~(kc_has(FunctionOf[op]) /\ \A f \in Besides(op, anchors) : kc_has(f))
        /\ stage' = "crashed"
        /\ UNCHANGED <<native, reported>>
  /\ UNCHANGED <<isolate, size, insts, holds, table, opens>>

growsShort(n) == n.op \notin Fixed /\ Code(n.r, n.cap) = "tooSmall" /\ 2 * n.cap < MaxCap

(* withBuf doubles the buffer and calls again.                               *)
grows(n) == n.op \notin Fixed /\ Code(n.r, n.cap) = "tooSmall" /\ n.cap < MaxCap

WithBufAgain ==
  /\ native # NoOutput /\ grows(native)
  /\ native' = [native EXCEPT !.cap = 2 * @]
  /\ UNCHANGED <<stage, isolate, size, insts, holds, table, opens, reported>>

(* The bytes read out of the buffer.                                         *)
Bytes(r) == [n |-> r.size, nul |-> r.nul, kind |-> r.kind]

withBuf(r, cap) ==
  IF r.code = "ok" /\ r.size > 0 /\ r.size <= cap THEN Bytes(r) ELSE NoOutput

fixedBuf(r, cap) == IF r.size > 0 /\ r.size < cap THEN Bytes(r) ELSE NoOutput

trimNul(out) ==
  IF out = NoOutput \/ out.nul = 0 THEN out ELSE [out EXCEPT !.n = out.nul - 1, !.nul = 0]

(* The sigIDs the walk over the signers finds, from 1 until one is missing.  *)
signerWalk(r) == {id \in 1..MaxSigners : id <= r.signers}

(* The signer reported: what VerifyData handed out (-1), or of the walk the  *)
(* one of the index asked for, the first when there is none, 0 without any.  *)
SignerOf(r, code, index) ==
  LET signers == Cardinality(signerWalk(r)) IN
  CASE code = "ok" /\ r.cert -> -1
    [] ~(code = "ok" /\ r.cert) /\ signers = 0 -> 0
    [] OTHER -> IF index < 0 \/ index >= signers THEN 1 ELSE index + 1

ErrOf(code) == IF code = "ok" THEN "none" ELSE IF code = "tooSmall" THEN code ELSE "native"

(* VerifyCMS: the recovered content is the caller's own bytes, NULs and all. *)
verifyCMS(n, code) ==
  [err |-> ErrOf(code), out |-> fixedBuf(n.r, n.cap), signer |-> SignerOf(n.r, code, n.ask.index)]

verifyXMLInfo(n, code) ==
  [err |-> ErrOf(code), out |-> trimNul(withBuf(n.r, n.cap)),
   signer |-> SignerOf(n.r, code, n.ask.index)]

(* signedCMSFromPEM: PEM armor around a SEQUENCE, not any bytes.             *)
isContainer(out) == out # NoOutput /\ out.kind = "pem"

signCMS(n, code) ==
  LET sig == trimNul(withBuf(n.r, n.cap)) IN
  CASE code # "ok" -> [Answer0 EXCEPT !.err = ErrOf(code)]
    [] code = "ok" /\ ~isContainer(sig) -> [Answer0 EXCEPT !.err = "emptyOutput"]
    [] OTHER -> [Answer0 EXCEPT !.out = [sig EXCEPT !.kind = n.ask.fmt]]

(* ExportOwnerCert: PEM or DER from the library, the encoding asked for out. *)
certToFormat(n, code) ==
  IF code # "ok" THEN [Answer0 EXCEPT !.err = ErrOf(code)]
  ELSE [Answer0 EXCEPT !.out = [trimNul(withBuf(n.r, n.cap)) EXCEPT !.kind = n.ask.fmt]]

(* X509ValidateCertificate: the OCSP answer, when it was wanted.             *)
validateCert(n, code) ==
  [Answer0 EXCEPT !.err = ErrOf(code),
                  !.out = IF n.ask.fmt = "ocsp" THEN fixedBuf(n.r, n.cap) ELSE NoOutput]

(* A property the certificate does not have is not an error.                 *)
certField(n, code) == [Answer0 EXCEPT !.out = trimNul(withBuf(n.r, n.cap))]

signXMLText(n, code) ==
  IF code # "ok" THEN [Answer0 EXCEPT !.err = ErrOf(code)]
  ELSE [Answer0 EXCEPT !.out = trimNul(withBuf(n.r, n.cap))]

(* A digest and the signature of one are bytes.                              *)
hashBytes(n, code) ==
  IF code # "ok" THEN [Answer0 EXCEPT !.err = ErrOf(code)]
  ELSE [Answer0 EXCEPT !.out = withBuf(n.r, n.cap)]

Delivered(n, code) ==
  CASE n.op = "verifyData" -> verifyCMS(n, code)
    [] n.op = "verifyXML" -> verifyXMLInfo(n, code)
    [] n.op = "signData" -> signCMS(n, code)
    [] n.op = "exportCert" -> certToFormat(n, code)
    [] n.op = "validate" -> validateCert(n, code)
    [] n.op = "certInfo" -> certField(n, code)
    [] n.op \in {"signXML", "signWSSE"} -> signXMLText(n, code)
    [] n.op \in {"hashData", "signHash"} -> hashBytes(n, code)

CallEnds ==
  /\ native # NoOutput /\ ~grows(native)
  /\ reported' = [op |-> native.op, ask |-> native.ask, r |-> native.r,
               got |-> Delivered(native, Code(native.r, native.cap))]
  /\ native' = NoOutput
  /\ UNCHANGED <<stage, isolate, size, insts, holds, table, opens>>

(* The method returns.                                                       *)
ReplyTaken ==
  /\ reported # NoOutput /\ reported' = NoOutput
  /\ UNCHANGED <<stage, isolate, size, insts, holds, table, opens, native>>

BindingNext ==
  \/ \E n \in 1..MaxPool, isolated \in BOOLEAN : OpenBegin(n, isolated)
  \/ \E ok \in BOOLEAN : prepareNamespaceWrapper(ok)
  \/ \E namespace, loaded, inited \in BOOLEAN : openInstance(namespace, loaded, inited)
  \/ OpenEnd \/ CloseBinding
  \/ /\ Idle
     /\ \E op \in LibCalls : \E ask \in Asks(op), r \in Results(op), anchors \in BOOLEAN :
          CallMethod(op, ask, r, anchors)
  \/ WithBufAgain \/ CallEnds \/ ReplyTaken

-----------------------------------------------------------------------------
(* Properties *)

(* "On any error the already-opened instances are released": however Open    *)
(* fails, at the wrapper, at the third instance or because isolation was not *)
(* achieved, and after Close, no private namespace and no copy of the        *)
(* wrapper is left.                                                          *)
NothingLeftBehind == stage = "down" => holds.mapped = 0 /\ holds.temps = 0

(* A pool that is opened again in the same process, after a Close or after   *)
(* an Open that failed half way, never runs on a process-wide library whose  *)
(* state an earlier instance tore down.                                      *)
EngineStaysWarm == \A i \in DOMAIN insts : insts[i] \/ holds.engine = "warm"

(* The table differs between versions: a method whose own function the       *)
(* loaded version lacks is refused, never called through an empty pointer.   *)
(* The functions a method uses besides it (the key store, the anchors, the   *)
(* signers' certificates, the signing time) are called without a look at the *)
(* table, so the process can crash, but only on a version that lacks one of  *)
(* those (detectCaps, shim.c).                                               *)
AbsentIsRefused == stage = "crashed" => ~(Unchecked \subseteq table)

(* A call is refused for want of room only when its output is larger than    *)
(* the largest buffer; one that exactly fills it, or a smaller one, is read. *)
RoomIsFound ==
  reported # NoOutput /\ reported.op \notin Fixed /\ reported.r.code = "ok" =>
    (reported.got.err = "tooSmall" => reported.r.size > MaxCap)

(* What a method hands out is all the library wrote or nothing: bytes        *)
(* (content, digests, OCSP answers) past every NUL, a string up to its NUL;  *)
(* an exported certificate is read as a string even where it comes as DER,   *)
(* and is cut there.  Where the buffer does not grow (the recovered content, *)
(* the OCSP answer) an output smaller than the buffer is handed out; one     *)
(* that fills it exactly is dropped, and a valid signature then comes back   *)
(* without its content (withBuf, verifyData, validate, exportCert).          *)
OutputIsWhole ==
  reported # NoOutput /\ reported.got.err = "none" /\ reported.r.code = "ok" =>
    LET r == reported.r
        whole == IF reported.op \in Text /\ r.nul > 0 THEN r.nul - 1 ELSE r.size
        wanted == reported.op = "validate" => reported.ask.fmt = "ocsp"
    IN  /\ reported.got.out # NoOutput => reported.got.out.n = whole
        /\ reported.op \notin Fixed /\ r.size \in 1..MaxCap => reported.got.out # NoOutput
        /\ reported.op \in Fixed /\ wanted /\ r.size \in 1..(Capacity[reported.op] - 1) =>
             reported.got.out # NoOutput

(* SignCMS and ExportOwnerCert answer in the encoding asked for, and SignCMS *)
(* only ever a container, although the library says OK over a buffer it has  *)
(* not written.                                                              *)
DeliveredAsAsked ==
  reported # NoOutput /\ reported.got.err = "none" /\ reported.op \in {"signData", "exportCert"} =>
    /\ reported.got.out.kind = reported.ask.fmt
    /\ reported.op = "signData" => reported.r.kind = "pem"

(* A container that has signers is never reported without one, whether or    *)
(* not the signature verified, and the one reported is the one asked for     *)
(* when there is one of that index.                                          *)
SignerIsNamed ==
  reported # NoOutput /\ reported.op \in {"verifyData", "verifyXML"} /\ reported.got.err # "unsupported"
    /\ reported.r.signers > 0 =>
    /\ reported.got.signer # 0 /\ reported.got.signer <= reported.r.signers
    /\ reported.got.signer > 0 /\ reported.ask.index \in 0..(reported.r.signers - 1)
         /\ reported.ask.index < MaxSigners => reported.got.signer = reported.ask.index + 1

(* The binding releases what it opened, refuses a method the library       *)
(* lacks, and hands out the library's output whole, in the encoding asked  *)
(* for and with its signer, within the limits AbsentIsRefused and          *)
(* OutputIsWhole name (native/open.go, instance.go, shim.c).               *)
BindingIsSound ==
  /\ NothingLeftBehind
  /\ EngineStaysWarm
  /\ AbsentIsRefused
  /\ RoomIsFound
  /\ OutputIsWhole
  /\ DeliveredAsAsked
  /\ SignerIsNamed
=============================================================================
