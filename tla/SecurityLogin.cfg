SPECIFICATION Spec
CONSTANTS
    Fields <- MCFields
    Source <- MCSource
    Any <- MCAny
    Packets <- MCPackets
    Patterns <- MCPatterns
    DefaultRules <- MCDefaultRules
    MAX_FIREWALL_RULES = 3
    RuleCreations = 4
    Checks = 1
    Names <- MCNames
    Passwords <- MCPasswords
    AdminName <- MCAdminName
    AdminPassword <- MCAdminPassword
    MAX_USERS = 2
    MaxFailures = 2
    UserCreations = 3
PROPERTIES
    DefaultLoginAccepted
