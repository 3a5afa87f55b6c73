SPECIFICATION Spec
CONSTANTS
    app1 = app1
    Codes = {code1}
    Requests = {r1, r2}
    Clients = {app1, app2}
    Users = {alice}
    Uris = {uri1}
    Scopes = {openid}
    Verifiers = {v1, v2}
    RedirectURIs <- MCRedirectURIs
    UriSets <- MCUriSets
    CodeLifespan = 1
    PKCELifespan = 1
    NoDoc = NoDoc
    NoChallenge = NoChallenge
    NoVerifier = NoVerifier
    MaxTime = 2
    MaxChanged = 1
    MaxFaults = 2
SYMMETRY MCSymmetry
CHECK_DEADLOCK FALSE
INVARIANTS
    IssuedAsPosted
    ExpiredNeverRedeemed
    ChallengeOutlivesCode
    HonestExchangeSucceeds
    ReuseNeedsTwoLostDeletes
    AttemptBurnsCode
PROPERTIES
    OnlyProofConsumes
    ImplementsOneTimeGrant
