------------------------------ MODULE Clients ------------------------------
(***************************************************************************)
(* What the frontend, the SDK and the CLI ask of the API: verb, path and   *)
(* the fields of the body or the query, the handler that is meant, and     *)
(* whether the values are of the types the DTO asks for. An identifier in  *)
(* a path is "7".                                                          *)
(***************************************************************************)
EXTENDS Routes

Call(by, verb, path, means, fields) ==
    [by |-> by, verb |-> verb, path |-> path, means |-> means, fields |-> fields, typed |-> TRUE]

-----------------------------------------------------------------------------
(* Frontend: lib/api.ts, with the fields the pages fill in. *)

App(verb, path, means, fields) == Call("frontend", verb, path, means, fields)

create_offer_form == {"creditId", "pricePerTonne", "amount", "currency"}
retire_form == {"reason", "beneficiary", "accountingPeriod"}
config_form == {"verifierThreshold", "verifierQuorum", "approvalWindow", "protocolFeeBps", "bufferPoolPct"}
bridge_in_form == {"sourceRegistry", "sourceSerial", "leaf", "merkleProof", "merkleRoot", "metadata",
    "projectId", "methodology", "vintageStart", "vintageEnd", "tonnes", "geography", "serialPrefix"}

app_session == {
    App("GET", <<"health">>, "getHealth", {}),
    App("POST", <<"auth", "challenge">>, "challenge", {"wallet"}),
    App("POST", <<"auth", "token">>, "token", {"wallet", "signedChallenge", "challengeId"})}

app_webhooks == {
    App("GET", <<"webhooks">>, "listWebhooks", {}),
    App("POST", <<"webhooks">>, "registerWebhook", {"url", "events"}),
    App("DELETE", <<"webhooks", "7">>, "removeWebhook", {}),
    App("POST", <<"webhooks", "7", "test">>, "testWebhook", {}),
    App("GET", <<"webhooks", "deliveries">>, "deliveries", {"limit"})}

app_admin == {
    App("GET", <<"admin", "config">>, "getProtocolConfig", {}),
    App("PATCH", <<"admin", "config">>, "updateProtocolConfig", config_form),
    App("GET", <<"admin", "contracts">>, "getContracts", {}),
    App("GET", <<"admin", "verifiers">>, "listVerifiers", {}),
    App("POST", <<"admin", "verifiers">>, "addVerifier", {"address"}),
    App("POST", <<"admin", "verifiers", "remove">>, "removeVerifier", {"address"}),
    App("GET", <<"admin", "system">>, "getSystemStatus", {})}

\* The page of credits sends what its filters hold.
app_credits ==
    {App("GET", <<"credits">>, "findCredits", fields) :
        fields \in {{"limit"}, {"limit", "page"}, {"limit", "page", "status", "methodology"},
                    {"status", "limit"}, {"status", "limit", "sort"}}}
    \cup {
    App("GET", <<"credits", "7">>, "findCredit", {}),
    App("GET", <<"credits", "7", "provenance">>, "getProvenance", {}),
    App("GET", <<"credits", "owned">>, "getOwned", {}),
    App("POST", <<"credits", "7", "approve">>, "approve", {"comments"}),
    App("POST", <<"credits", "7", "reject">>, "reject", {"reason"})}

app_market == {
    App("GET", <<"marketplace", "listings">>, "getListings", {}),
    App("GET", <<"marketplace", "listings">>, "getListings", {"methodology", "geography"}),
    App("GET", <<"marketplace", "stats">>, "getStats", {}),
    App("POST", <<"marketplace", "offer">>, "createOffer", create_offer_form),
    App("POST", <<"marketplace", "buy", "7">>, "buyCredits", {"amount"}),
    App("DELETE", <<"marketplace", "offer", "7">>, "cancelOffer", {}),
    App("GET", <<"marketplace", "price-history">>, "getPriceHistory", {"range"})}

app_certificates == {
    App("POST", <<"credits", "7", "retire">>, "retire", retire_form),
    App("GET", <<"credits", "7", "certificate">>, "getCertificateOf", {}),
    App("GET", <<"certificates", "7">>, "getCertificate", {}),
    App("GET", <<"certificates", "7", "pdf">>, "getPdf", {}),
    App("GET", <<"certificates", "owned">>, "getOwnedCertificates", {}),
    App("POST", <<"certificates", "verify">>, "verify", {"certificateHash"})}

app_verifiers == {
    App("GET", <<"verifiers">>, "findVerifiers", {}),
    App("POST", <<"verifiers", "register">>, "register", {})}

app_reporting == {App("GET", <<"reporting", "scope3">>, "scope3", {"format", "year"})}

app_bridge == {
    App("GET", <<"bridge", "records">>, "getRecords", {"registry", "status"}),
    App("GET", <<"bridge", "registries", "7", "root">>, "getRegistryRoot", {}),
    App("POST", <<"bridge", "in">>, "bridgeIn", bridge_in_form),
    App("POST", <<"bridge", "credits", "7", "out">>, "bridgeOut", {}),
    App("POST", <<"bridge", "registries", "7", "root">>, "updateRegistryRoot", {"root", "blockHeight"})}

Frontend ==
    app_session \cup app_webhooks \cup app_admin \cup app_credits \cup app_market
    \cup app_certificates \cup app_verifiers \cup app_reporting \cup app_bridge

-----------------------------------------------------------------------------
(* SDK: its modules over the client, with the fields of its input types.  *)
(* The optional ones may all be there or none.                             *)

Sdk(verb, path, means, fields) == Call("sdk", verb, path, means, fields)

CreditFilter ==
    {"methodology", "geography", "vintageMin", "vintageMax", "status", "issuer", "owner", "page", "limit", "sort"}
MarketplaceFilter == {"methodology", "geography", "maxPrice", "status", "page", "limit"}
CreateCreditInput == {"projectId", "methodology", "vintageStart", "vintageEnd", "tonnes", "geography"}
CreateCreditOptions ==
    {"documentation", "sdgCobenefits", "permanenceRating", "bufferContributionPct", "additionalityType"}
CreateOfferInput == {"creditId", "pricePerTonne", "amount", "currency"}
RetireCreditInput == {"reason", "beneficiary", "accountingPeriod"}
BridgeMetadata == {"projectId", "methodology", "vintageStart", "vintageEnd", "tonnes", "geography", "serialPrefix"}
BridgeMetadataOptions ==
    {"sdgFlags", "permanenceRating", "bufferContributionPct", "additionalityType", "ipfsHash"}
BridgeInInput == {"sourceRegistry", "sourceSerial", "leaf", "merkleProof", "merkleRoot", "metadata"}

CarbonVeritasClient == {
    Sdk("POST", <<"auth", "challenge">>, "challenge", {"wallet"}),
    Sdk("POST", <<"auth", "token">>, "token", {"wallet", "signedChallenge", "challengeId"}),
    Sdk("GET", <<"health">>, "getHealth", {})}

CreditsModule ==
    {Sdk("GET", <<"credits">>, "findCredits", fields) : fields \in {{}, CreditFilter}}
    \cup {Sdk("POST", <<"credits", "issue">>, "issue", CreateCreditInput \cup more) :
            more \in {{}, CreateCreditOptions}}
    \cup {
    Sdk("GET", <<"credits", "7">>, "findCredit", {}),
    Sdk("POST", <<"credits", "7", "approve">>, "approve", {}),
    Sdk("POST", <<"credits", "7", "approve">>, "approve", {"comments"}),
    Sdk("POST", <<"credits", "7", "reject">>, "reject", {"reason"}),
    Sdk("POST", <<"credits", "7", "transfer">>, "transfer", {"to"}),
    Sdk("GET", <<"credits", "7", "provenance">>, "getProvenance", {}),
    Sdk("GET", <<"credits", "owned">>, "getOwned", {})}

MarketplaceModule ==
    {Sdk("GET", <<"marketplace", "listings">>, "getListings", fields) : fields \in {{}, MarketplaceFilter}}
    \cup {Sdk("POST", <<"marketplace", "offer">>, "createOffer", CreateOfferInput \cup more) :
            more \in {{}, {"expiresAt"}}}
    \cup {
    Sdk("GET", <<"marketplace", "offer", "7">>, "getOffer", {}),
    Sdk("POST", <<"marketplace", "buy", "7">>, "buyCredits", {"amount"}),
    Sdk("DELETE", <<"marketplace", "offer", "7">>, "cancelOffer", {}),
    Sdk("GET", <<"marketplace", "history">>, "getHistory", {}),
    Sdk("GET", <<"marketplace", "price-history">>, "getPriceHistory", {"range"}),
    Sdk("GET", <<"marketplace", "stats">>, "getStats", {})}

RetirementModule ==
    {Sdk("POST", <<"credits", "7", "retire">>, "retire", RetireCreditInput \cup more) :
        more \in {{}, {"tonnesRetired"}}}
    \cup {
    Sdk("GET", <<"credits", "7", "retirement">>, "getRecord", {}),
    Sdk("GET", <<"credits", "7", "certificate">>, "getCertificateOf", {})}

CertificatesModule == {
    Sdk("GET", <<"certificates", "7">>, "getCertificate", {}),
    Sdk("GET", <<"certificates", "7", "pdf">>, "getPdf", {}),
    Sdk("POST", <<"certificates", "verify">>, "verify", {"certificateHash"}),
    Sdk("GET", <<"certificates", "owned">>, "getOwnedCertificates", {})}

WebhooksModule == {
    Sdk("POST", <<"webhooks">>, "registerWebhook", {"url", "events"}),
    Sdk("GET", <<"webhooks">>, "listWebhooks", {}),
    Sdk("DELETE", <<"webhooks", "7">>, "removeWebhook", {}),
    Sdk("POST", <<"webhooks", "7", "test">>, "testWebhook", {}),
    Sdk("GET", <<"webhooks", "deliveries">>, "deliveries", {"eventType", "limit"})}

AdminModule == {
    Sdk("GET", <<"admin", "config">>, "getProtocolConfig", {}),
    Sdk("PATCH", <<"admin", "config">>, "updateProtocolConfig",
        {"verifierThreshold", "verifierQuorum", "approvalWindow", "protocolFeeBps", "bufferPoolPct"}),
    Sdk("GET", <<"admin", "contracts">>, "getContracts", {}),
    Sdk("GET", <<"admin", "verifiers">>, "listVerifiers", {}),
    Sdk("POST", <<"admin", "verifiers">>, "addVerifier", {"address"}),
    Sdk("POST", <<"admin", "verifiers", "remove">>, "removeVerifier", {"address"}),
    Sdk("GET", <<"admin", "system">>, "getSystemStatus", {})}

ReportingModule ==
    {Sdk("GET", <<"reporting", "scope3">>, "scope3", {"format"} \cup more) : more \in {{}, {"year"}}}

BridgeModule ==
    {Sdk("GET", <<"bridge", "records">>, "getRecords", fields) :
        fields \in {{}, {"registry", "status", "page", "limit"}}}
    \cup {Sdk("POST", <<"bridge", "in">>, "bridgeIn", BridgeInInput \cup BridgeMetadata \cup more) :
            more \in {{}, BridgeMetadataOptions}}
    \cup {
    Sdk("POST", <<"bridge", "credits", "7", "out">>, "bridgeOut", {}),
    Sdk("GET", <<"bridge", "registries", "7", "root">>, "getRegistryRoot", {}),
    Sdk("POST", <<"bridge", "registries", "7", "root">>, "updateRegistryRoot", {"root", "blockHeight"})}

RevenueSplitModule == {
    Sdk("GET", <<"revenue-split", "7", "config">>, "getConfig", {}),
    Sdk("POST", <<"revenue-split", "7", "config">>, "configure", {"beneficiaries", "address", "bps"}),
    Sdk("POST", <<"revenue-split", "7", "distribute">>, "distribute", {"asset", "amount"})}

SDK ==
    CarbonVeritasClient \cup CreditsModule \cup MarketplaceModule \cup RetirementModule
    \cup CertificatesModule \cup WebhooksModule \cup AdminModule \cup ReportingModule
    \cup BridgeModule \cup RevenueSplitModule

-----------------------------------------------------------------------------
(* CLI: commands that call a method of the SDK with what the options hold.  *)

command(module, means, fields) ==
    {[c EXCEPT !.by = "cli", !.fields = fields] : c \in {d \in module : d.means = means}}

\* A --page that is given: commander hands parseInt the option's default, 1, as
\* the radix, and the result is NaN.
with_page(calls) == calls \cup {[c EXCEPT !.typed = FALSE] : c \in calls}

registerCreditsCommands ==
    with_page(command(CreditsModule, "findCredits", CreditFilter)
              \cup command(CreditsModule, "findCredits", {"page", "limit"}))
    \cup command(CreditsModule, "findCredit", {})
    \cup command(CreditsModule, "issue", CreateCreditInput \cup (CreateCreditOptions \ {"documentation"}))
    \cup command(CreditsModule, "approve", {"comments"})
    \cup command(CreditsModule, "reject", {"reason"})
    \cup command(CreditsModule, "transfer", {"to"})

registerMarketplaceCommands ==
    with_page(command(MarketplaceModule, "getListings", MarketplaceFilter)
              \cup command(MarketplaceModule, "getListings", {"page", "limit"}))
    \cup command(MarketplaceModule, "getOffer", {})
    \cup command(MarketplaceModule, "createOffer", CreateOfferInput \cup {"expiresAt"})
    \cup command(MarketplaceModule, "buyCredits", {"amount"})
    \cup command(MarketplaceModule, "cancelOffer", {})
    \cup command(MarketplaceModule, "getHistory", {})

registerRetireCommands ==
    command(RetirementModule, "retire", RetireCreditInput)
    \cup command(RetirementModule, "retire", RetireCreditInput \cup {"tonnesRetired"})
    \cup command(RetirementModule, "getRecord", {})
    \cup command(RetirementModule, "getCertificateOf", {})

registerVerifyCommands == {
    Call("cli", "POST", <<"verifiers", "register">>, "register", {"stake", "credentials"}),
    Call("cli", "GET", <<"verifiers", "7">>, "findVerifier", {}),
    Call("cli", "GET", <<"verifiers">>, "findVerifiers", {}),
    Call("cli", "POST", <<"verifiers", "heartbeat">>, "heartbeat", {})}
    \cup command(CreditsModule, "approve", {"comments"})
    \cup command(CreditsModule, "reject", {"reason"})

registerDoctorCommand ==
    command(CarbonVeritasClient, "getHealth", {})
    \cup command(CreditsModule, "findCredits", {"limit"})
    \cup command(CarbonVeritasClient, "challenge", {"wallet"})

registerWebhookCommands ==
    command(WebhooksModule, "registerWebhook", {"url", "events"})
    \cup command(WebhooksModule, "listWebhooks", {})
    \cup command(WebhooksModule, "testWebhook", {})
    \cup command(WebhooksModule, "deliveries", {"eventType", "limit"})
    \cup command(WebhooksModule, "removeWebhook", {})

registerAdminCommands == {[c EXCEPT !.by = "cli"] : c \in AdminModule}

registerReportingCommands == {[c EXCEPT !.by = "cli"] : c \in ReportingModule}

registerBridgeCommands ==
    with_page(command(BridgeModule, "getRecords", {"registry", "status", "page", "limit"})
              \cup command(BridgeModule, "getRecords", {"page", "limit"}))
    \cup command(BridgeModule, "bridgeIn", BridgeInInput \cup BridgeMetadata \cup BridgeMetadataOptions)
    \cup command(BridgeModule, "bridgeIn", BridgeInInput \cup BridgeMetadata)
    \cup command(BridgeModule, "bridgeOut", {})
    \cup command(BridgeModule, "getRegistryRoot", {})
    \cup command(BridgeModule, "updateRegistryRoot", {"root", "blockHeight"})

registerRevenueSplitCommands == {[c EXCEPT !.by = "cli"] : c \in RevenueSplitModule}

CLI ==
    registerCreditsCommands \cup registerMarketplaceCommands \cup registerRetireCommands
    \cup registerVerifyCommands \cup registerDoctorCommand \cup registerWebhookCommands
    \cup registerAdminCommands \cup registerReportingCommands \cup registerBridgeCommands
    \cup registerRevenueSplitCommands

Calls == Frontend \cup SDK \cup CLI

=============================================================================
