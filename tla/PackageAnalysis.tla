---------------------------- MODULE PackageAnalysis ----------------------------
(***************************************************************************)
(* analyzePackage: the profile of a package, and the findings that block   *)
(* its case.  The contents of a package are a record                       *)
(*   [refusal   what the archive reader refuses it for, or None            *)
(*    entries   [path -> content]                                          *)
(*    untyped   the paths of no known media type                           *)
(*    json      the paths whose content is strict JSON                     *)
(*    manifest  what manifest.json says, where it is there and parses      *)
(*    signed    manifest.sig verifies under a trusted key                  *)
(*    balances  the declared balances agree]                               *)
(* and a manifest is [profile, declared ([path -> content]), complete,     *)
(* identity, credit].  Findings that do not block are left out.            *)
(***************************************************************************)
EXTENDS Amounts, FiniteSets

CONSTANT CaseMaximums  \* CASE_SANDBOX_MAXIMUMS_JSON: [currency -> minor units]

None == "NONE"

Legacy == "legacy-asset-declaration"
V1 == "brokered-funding/1.0"
Generic == "generic-compatibility/1.0"

Manifest == "manifest.json"
Signature == "manifest.sig"

When(condition, code) == IF condition THEN {code} ELSE {}

\* An archive that is refused for its structure, and one for a type it holds;
\* the reader's other codes are treated like the first.
RefusalCodes == {"ARCHIVE_STRUCTURE_INVALID", "UNSUPPORTED_ARTIFACT_TYPE"}

Has(c, path) == path \in DOMAIN c.entries

RecognizeProfile(c) ==
  IF Manifest \in c.json /\ c.manifest.profile \in {Legacy, V1} THEN c.manifest.profile ELSE Generic

----------------------------------------------------------------------------
(* The profiles.                                                           *)

GenericCodes(c) ==
  When(~Has(c, Manifest), "MANIFEST_MISSING")
    \cup When(Has(c, Manifest) /\ Manifest \notin c.json, "MANIFEST_PARSE_FAILED")
    \cup When(c.untyped # {}, "UNSUPPORTED_ARTIFACT_TYPE")
    \cup {"UNSUPPORTED_PACKAGE_PROFILE"}

LegacyParts == {"contract.json", "interface.json"}

LegacyGaps ==
  {"SOURCE_SIGNATURE_MISSING", "INVESTOR_IDENTITY_MISSING", "BENEFICIARY_MISSING",
   "PAYOUT_INSTRUCTIONS_MISSING", "ALLOCATION_MISSING", "AUTHORITY_MISSING",
   "WALLET_ADDRESS_MISSING", "TRANSACTION_HASH_MISSING", "CUSTODY_EVIDENCE_MISSING",
   "ETH_CONTROL_PROOF_MISSING", "UNSUPPORTED_KYC_AML_ASSERTION", "INCOMING_SETTLEMENT_UNOBSERVED"}

\* A missing or unreadable part replaces every other finding.
LegacyCodes(c) ==
  LET declared == c.manifest.declared IN
  IF \E path \in LegacyParts : ~Has(c, path) THEN {"REQUIRED_TRANSACTION_FIELD_NOT_FOUND"}
  ELSE IF ~(LegacyParts \subseteq c.json) THEN {"ARTIFACT_PARSE_FAILED"}
  ELSE When(\E path \in DOMAIN declared : ~Has(c, path), "MANIFEST_DECLARED_FILES_MISSING")
         \cup When((DOMAIN c.entries \ {Manifest}) \ DOMAIN declared # {}, "MANIFEST_UNDECLARED_FILE")
         \cup When(\E path \in DOMAIN declared : Has(c, path) /\ c.entries[path] # declared[path],
                   "MANIFEST_ARTIFACT_MISMATCH")
         \cup When(~c.balances, "RPC_BALANCE_MISMATCH")
         \cup LegacyGaps

\* validateV1Manifest and validateV1Inventory: the first thing that is wrong.
CompleteManifest(manifest) == manifest.complete /\ ValidMoney(manifest.credit)

InventoryMatches(c) ==
  LET declared == c.manifest.declared IN
  /\ DOMAIN c.entries = {Manifest, Signature} \cup DOMAIN declared
  /\ \A path \in DOMAIN declared : c.entries[path] = declared[path]

V1Sound(c) == CompleteManifest(c.manifest) /\ InventoryMatches(c)

V1Failure(c) ==
  IF CompleteManifest(c.manifest) THEN "MANIFEST_INVENTORY_MISMATCH"
  ELSE "REQUIRED_TRANSACTION_FIELD_NOT_FOUND"

\* It too replaces every other finding, that of the signature among them.
V1Codes(c) ==
  IF V1Sound(c)
  THEN When(~Has(c, Signature), "SOURCE_SIGNATURE_MISSING")
         \cup When(Has(c, Signature) /\ ~c.signed, "SOURCE_SIGNATURE_INVALID")
         \cup {"INCOMING_SETTLEMENT_UNOBSERVED"}
  ELSE {V1Failure(c)}

----------------------------------------------------------------------------
(* analyzePackage, and what processSubmission adds to it.                  *)

NoCredit == [amount |-> 0]

SandboxCaseAmountFinding(money) ==
  IF ~ValidMoney(money) \/ money.currency \notin DOMAIN CaseMaximums THEN {"PROVIDER_CURRENCY_LIMIT"}
  ELSE When(money.amount > CaseMaximums[money.currency], "SANDBOX_CASE_AMOUNT_LIMIT_EXCEEDED")

Analysis(format, codes) ==
  [format |-> format, codes |-> codes, identity |-> None, credit |-> NoCredit]

AnalyzeCleared(c) ==
  LET profile == RecognizeProfile(c) IN
  IF profile = V1 /\ V1Sound(c)
  THEN [format |-> V1, codes |-> V1Codes(c) \cup SandboxCaseAmountFinding(c.manifest.credit),
        identity |-> c.manifest.identity, credit |-> c.manifest.credit]
  ELSE Analysis(profile, CASE profile = V1 -> V1Codes(c)
                           [] profile = Legacy -> LegacyCodes(c)
                           [] OTHER -> GenericCodes(c))

\* Nothing of a package is interpreted before the scanner has cleared it.
AnalyzePackage(c, scanner) ==
  CASE scanner = "UNAVAILABLE" -> Analysis(Generic, {"MALWARE_SCANNER_UNAVAILABLE"})
    [] scanner = "INFECTED" -> Analysis(Generic, {"MALWARE_DETECTED"})
    [] OTHER -> AnalyzeCleared(c)

\* Findings that attest to a package's safety or authenticity, which an
\* amendment must leave alone.
SafetyCodes ==
  {"ARCHIVE_STRUCTURE_INVALID", "MALWARE_SCANNER_UNAVAILABLE", "MALWARE_DETECTED",
   "MANIFEST_INVENTORY_MISMATCH", "MANIFEST_DECLARED_FILES_MISSING", "MANIFEST_UNDECLARED_FILE",
   "MANIFEST_ARTIFACT_MISMATCH", "ARTIFACT_PARSE_FAILED", "INCOMING_SETTLEMENT_UNOBSERVED",
   "SANDBOX_CASE_AMOUNT_LIMIT_EXCEEDED", "PROVIDER_CURRENCY_LIMIT"}
SignatureCodes == {"SOURCE_SIGNATURE_MISSING", "SOURCE_SIGNATURE_INVALID"}

\* Mutant: the signature is a gap like others, which the broker may fill.
NonAmendable_Unsigned == SafetyCodes
NonAmendable == SafetyCodes \cup SignatureCodes

\* Findings that do not keep a case from the provider: only the provider can
\* resolve them, and its own results are left out.
Reconcilable == {"PROVIDER_CURRENCY_LIMIT"}

\* Findings that a walkthrough resolves.
Diagnostic ==
  {"MANIFEST_MISSING", "MANIFEST_PARSE_FAILED", "UNSUPPORTED_PACKAGE_PROFILE",
   "UNSUPPORTED_ARTIFACT_TYPE", "ARTIFACT_PARSE_FAILED", "REQUIRED_TRANSACTION_FIELD_NOT_FOUND"}

=============================================================================
