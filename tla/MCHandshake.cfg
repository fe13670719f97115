SPECIFICATION Spec
CONSTANTS
    Byte <- MCByte
    IPV4_LEN = 1
    IPV6_LEN = 2
    MAX_FQDN_SIZE = 3
    Users <- MCUsers
    Admins <- MCAdmins
    RbSize = 3
    WbSize = 5
    Sendable <- MCSendable
    MaxText = 2
INVARIANTS
    GreetingExact
    LoginExact
    CommandExact
    RepliesExact
    RequestExact
    StoresInField
