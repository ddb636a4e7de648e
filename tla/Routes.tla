------------------------------- MODULE Routes -------------------------------
(***************************************************************************)
(* The HTTP interface of the API: what the ValidationPipe lets through for *)
(* each DTO, the routes of every controller in the order in which they are *)
(* registered, and the route Express takes for a request.                  *)
(***************************************************************************)
EXTENDS Naturals, Sequences

-----------------------------------------------------------------------------
(* DTOs: the fields a body or a query has to have and those it may have.    *)
(* The pipe is set to forbidNonWhitelisted: any other field is an error.    *)
(* Nested DTOs are flattened, the nested fields have names of their own.    *)

Dto(needs, may) == [needs |-> needs, may |-> may]

\* A handler without @Body or @Query of a DTO type: nothing is checked.
NoDto == [needs |-> {}, may |-> {}]

validates(dto, fields, typed) ==
    dto # NoDto => typed /\ dto.needs \subseteq fields /\ fields \subseteq dto.needs \cup dto.may

paging == {"page", "limit"}

ChallengeDto == Dto({"wallet"}, {})
TokenDto == Dto({"wallet", "signedChallenge", "challengeId"}, {})
RefreshDto == Dto({"refreshToken"}, {})
CreateCreditDto == Dto({"projectId", "methodology", "vintageStart", "vintageEnd", "tonnes", "geography"},
    {"documentation", "sdgCobenefits", "permanenceRating", "bufferContributionPct", "additionalityType"})
CreditFilterDto == Dto({}, paging \cup
    {"methodology", "geography", "vintageMin", "vintageMax", "status", "issuer", "owner", "sort"})
ApproveCreditDto == Dto({}, {"comments"})
RejectCreditDto == Dto({"reason"}, {})
CreateOfferDto == Dto({"creditId", "pricePerTonne", "amount", "currency"}, {"expiresAt"})
MarketplaceFilterDto == Dto({}, paging \cup {"methodology", "geography", "maxPrice", "status"})
RetireCreditDto == Dto({"reason", "beneficiary", "accountingPeriod"}, {"tonnesRetired"})
RegisterVerifierDto == Dto({"stake"}, {"credentials"})
VerifyCertificateDto == Dto({"certificateHash"}, {})
BatchCertificateDto == Dto({"creditIds"}, {})
CreateWebhookDto == Dto({"url", "events"}, {})
UpdateConfigDto == Dto({"verifierThreshold", "verifierQuorum", "approvalWindow", "protocolFeeBps", "bufferPoolPct"}, {})
VerifierAddressDto == Dto({"address"}, {})
Scope3QueryDto == Dto({}, {"format", "year"})
BridgeFilterDto == Dto({}, paging \cup {"registry", "status"})
BridgeMetadataDto == Dto({"projectId", "methodology", "vintageStart", "vintageEnd", "tonnes", "geography", "serialPrefix"},
    {"sdgFlags", "permanenceRating", "bufferContributionPct", "additionalityType", "ipfsHash"})
BridgeInDto == Dto({"sourceRegistry", "sourceSerial", "leaf", "merkleProof", "merkleRoot", "metadata"}
    \cup BridgeMetadataDto.needs, BridgeMetadataDto.may)
UpdateRegistryRootDto == Dto({"root", "blockHeight"}, {})
ConfigureRevenueSplitDto == Dto({"beneficiaries", "address", "bps"}, {})
DistributeRevenueSplitDto == Dto({"asset", "amount"}, {})

-----------------------------------------------------------------------------
(* Controllers. A segment ":" is a parameter. Whom a route admits: anyone   *)
(* (@Public), whoever brings a session (the default), or an administrator.  *)
(* A handler with @CurrentUser reads the session.                           *)

Route(verb, path, handler, admits, reads_user, dto) ==
    [verb |-> verb, path |-> path, handler |-> handler, admits |-> admits,
     reads_user |-> reads_user, dto |-> dto]

Public(verb, path, handler, dto) == Route(verb, path, handler, "anyone", FALSE, dto)
Session(verb, path, handler, dto) == Route(verb, path, handler, "session", FALSE, dto)
User(verb, path, handler, dto) == Route(verb, path, handler, "session", TRUE, dto)
Admin(verb, path, handler, dto) == Route(verb, path, handler, "admin", FALSE, dto)
AdminUser(verb, path, handler, dto) == Route(verb, path, handler, "admin", TRUE, dto)

AuthController == <<
    Public("POST", <<"auth", "challenge">>, "challenge", ChallengeDto),
    Public("POST", <<"auth", "token">>, "token", TokenDto),
    Public("POST", <<"auth", "refresh">>, "refresh", RefreshDto)>>

CreditsController == <<
    Public("GET", <<"credits">>, "findCredits", CreditFilterDto),
    User("GET", <<"credits", "owned">>, "getOwned", NoDto),
    Public("GET", <<"credits", ":">>, "findCredit", NoDto),
    Public("GET", <<"credits", ":", "provenance">>, "getProvenance", NoDto),
    User("POST", <<"credits", "issue">>, "issue", CreateCreditDto),
    User("POST", <<"credits", ":", "approve">>, "approve", ApproveCreditDto),
    User("POST", <<"credits", ":", "reject">>, "reject", RejectCreditDto)>>

MarketplaceController == <<
    User("POST", <<"marketplace", "offer">>, "createOffer", CreateOfferDto),
    User("POST", <<"marketplace", "buy", ":">>, "buyCredits", NoDto),
    User("DELETE", <<"marketplace", "offer", ":">>, "cancelOffer", NoDto),
    Session("GET", <<"marketplace", "listings">>, "getListings", MarketplaceFilterDto),
    User("GET", <<"marketplace", "history">>, "getHistory", NoDto),
    Session("GET", <<"marketplace", "price-history">>, "getPriceHistory", NoDto),
    Session("GET", <<"marketplace", "stats">>, "getStats", NoDto)>>

RetirementController == <<
    User("POST", <<"credits", ":", "retire">>, "retire", RetireCreditDto),
    Public("GET", <<"credits", ":", "certificate">>, "getCertificateOf", NoDto)>>

VerifiersController == <<
    User("POST", <<"verifiers", "register">>, "register", RegisterVerifierDto),
    Public("GET", <<"verifiers">>, "findVerifiers", NoDto),
    Public("GET", <<"verifiers", "pending">>, "getPendingCredits", NoDto),
    Public("GET", <<"verifiers", ":">>, "findVerifier", NoDto),
    Public("GET", <<"verifiers", ":", "approvals">>, "getApprovals", NoDto),
    User("POST", <<"verifiers", ":", "heartbeat">>, "heartbeat", NoDto)>>

CertificatesController == <<
    Public("POST", <<"certificates", "verify">>, "verify", VerifyCertificateDto),
    User("POST", <<"certificates", "batch">>, "batch", BatchCertificateDto),
    Public("GET", <<"certificates", ":">>, "getCertificate", NoDto),
    Public("GET", <<"certificates", ":", "pdf">>, "getPdf", NoDto),
    User("GET", <<"certificates", "owned">>, "getOwnedCertificates", NoDto)>>

WebhooksController == <<
    User("POST", <<"webhooks">>, "registerWebhook", CreateWebhookDto),
    User("GET", <<"webhooks">>, "listWebhooks", NoDto),
    User("GET", <<"webhooks", "deliveries">>, "deliveries", NoDto),
    User("DELETE", <<"webhooks", ":">>, "removeWebhook", NoDto),
    User("POST", <<"webhooks", ":", "test">>, "testWebhook", NoDto)>>

AdminController == <<
    Admin("GET", <<"admin", "config">>, "getProtocolConfig", NoDto),
    Admin("PATCH", <<"admin", "config">>, "updateProtocolConfig", UpdateConfigDto),
    Admin("GET", <<"admin", "contracts">>, "getContracts", NoDto),
    Admin("GET", <<"admin", "verifiers">>, "listVerifiers", NoDto),
    Admin("POST", <<"admin", "verifiers">>, "addVerifier", VerifierAddressDto),
    Admin("POST", <<"admin", "verifiers", "remove">>, "removeVerifier", VerifierAddressDto),
    Admin("GET", <<"admin", "system">>, "getSystemStatus", NoDto)>>

ObservabilityController == <<
    Public("GET", <<"health">>, "getHealth", NoDto),
    Public("GET", <<"metrics">>, "getMetrics", NoDto)>>

ReportingController == <<User("GET", <<"reporting", "scope3">>, "scope3", Scope3QueryDto)>>

BridgeController == <<
    Public("GET", <<"bridge", "records">>, "getRecords", BridgeFilterDto),
    Public("GET", <<"bridge", "registries", ":", "root">>, "getRegistryRoot", NoDto),
    AdminUser("POST", <<"bridge", "registries", ":", "root">>, "updateRegistryRoot", UpdateRegistryRootDto),
    User("POST", <<"bridge", "in">>, "bridgeIn", BridgeInDto),
    User("POST", <<"bridge", "credits", ":", "out">>, "bridgeOut", NoDto)>>

RevenueSplitController == <<
    Public("GET", <<"revenue-split", ":", "config">>, "getConfig", NoDto),
    AdminUser("POST", <<"revenue-split", ":", "config">>, "configure", ConfigureRevenueSplitDto),
    User("POST", <<"revenue-split", ":", "distribute">>, "distribute", DistributeRevenueSplitDto)>>

\* The modules are registered in the order of AppModule's imports.
AppModule ==
    AuthController \o CreditsController \o MarketplaceController \o RetirementController
    \o VerifiersController \o CertificatesController \o WebhooksController \o AdminController
    \o ObservabilityController \o ReportingController \o BridgeController \o RevenueSplitController

-----------------------------------------------------------------------------
(* Express: the first registered route of the verb whose path fits. *)

fits(path, pattern) ==
    /\ Len(path) = Len(pattern)
    /\ \A i \in DOMAIN path : pattern[i] \in {":", path[i]}

candidates(call) ==
    {i \in DOMAIN AppModule : AppModule[i].verb = call.verb /\ fits(call.path, AppModule[i].path)}

\* Mutant: the last one.
first_route_Latest(call) ==
    LET S == candidates(call) IN AppModule[CHOOSE i \in S : \A j \in S : j <= i]

first_route(call) ==
    LET S == candidates(call) IN AppModule[CHOOSE i \in S : \A j \in S : i <= j]

\* The route of the handler a client means.
route_of(handler) == AppModule[CHOOSE i \in DOMAIN AppModule : AppModule[i].handler = handler]

=============================================================================
