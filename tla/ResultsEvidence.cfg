SPECIFICATION Spec
CONSTANTS
    p1 = p1
    q1 = q1
    p2 = p2
    q2 = q2
    p3 = p3
    Unknown = Unknown
    Null = Null
    MaxIds = 2
    Components = {1, 2, 3}
    Available = {1, 2}
    Profiles = {p1, q1, p2, q2, p3}
    ComponentOf <- MCComponentOf
    Default <- MCDefault
    Evidence <- MCEvidence
INVARIANTS
    ItemsSuffice
    ItemsAreOfOneMind
    ProfilesAreEarned
    EvidencePrevails
    DefaultsAreComplete
    ReadersAgree
