SPECIFICATION Spec
CONSTANTS
    app1 = app1
    Codes = {code1}
    Requests = {r1}
    Clients = {app1}
    Users = {alice}
    Uris = {uri1, uri2}
    Scopes = {openid}
    Verifiers = {v1}
    RedirectURIs <- MCRedirectURIs
    UriSets <- MCUriSets
    CodeLifespan = 2
    PKCELifespan = 2
    NoDoc = NoDoc
    NoChallenge = NoChallenge
    NoVerifier = NoVerifier
    MaxTime = 0
    MaxChanged = 1
    MaxFaults = 0
CHECK_DEADLOCK FALSE
INVARIANTS
    RedirectMatches
