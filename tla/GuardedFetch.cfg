SPECIFICATION FetchSpec
CONSTANTS
    named = named
    literal = literal
    inner = inner
    refused = refused
    public = public
    private = private
    Urls = {named, literal, inner, refused}
    Policy <- MCPolicy
    Literal <- MCLiteral
    Addresses = {public, private}
    NoAddress = NoAddress
    Private = {private}
    NoLocation = NoLocation
    BadLocation = BadLocation
    Lengths = {0, 8, 9}
    Sizes = {0, 1, 2, 3, 4}
    Modes = {"truncate", "abort"}
    MaxRedirects = 2
    Timeout = 2
    MaxBytes = 2
    MaxChunk = 2
    MaxTime = 4
INVARIANTS
    OnlyCheckedAddresses
    SocketsClosed
    DeadlineHolds
    CapHolds
PROPERTY
    Ends
CHECK_DEADLOCK FALSE
