SPECIFICATION SpecOAuth
CONSTANTS
    Codes = {c1, c2}
    Tokens = {t1, t2, t3, t4}
    LegacyTokens = {t1}
    NoToken = NoToken
    Handlers = {h1, h2}
    MaxLogouts = 2
SYMMETRY Symmetry
INVARIANTS
    TypeOKOAuth
PROPERTIES
    SessionsAreChains
CHECK_DEADLOCK FALSE
