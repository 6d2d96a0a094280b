SPECIFICATION Spec

CONSTANTS
    Evidence <- MCEvidence
    Known <- MCKnown
    Properties <- MCProperties
    BufferLength = 50

INVARIANTS
    GhevHeadersFit
    LastTransformIsIntact
    UsableIsUsed
    OverriddenIfComplete

PROPERTY
    DetectionEnds

CHECK_DEADLOCK FALSE
