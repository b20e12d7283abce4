CONSTANTS
    Procs = {p, q}
    plain = plain  colon = colon  url = url  other = other
    Users <- TwoUsers
    Encodable = {plain}
    Token = Token  None = None
    Urls = {url, other}
    NoFile = NoFile
    Garbled = Garbled
    InitialFiles <- FourFiles
SYMMETRY Symmetry
SPECIFICATION Spec
INVARIANTS
    LoginReadBack
    AddedUrlReadBack
    OnlyAcceptedCredentials
    ReadyAuthenticated
