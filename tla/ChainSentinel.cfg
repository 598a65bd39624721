CONSTANTS
    EveryN = 2
    MaxCylinders = 6
    Legacy <- MCLegacy
    MaxIds = 7
    MaxDamage = 2
    MaxBoots = 2
    MaxVerifies = 1
SPECIFICATION Spec
INVARIANTS
    TypeOK
    NoFalseAlarm
    NoticedInTime
    InteriorSurvives
