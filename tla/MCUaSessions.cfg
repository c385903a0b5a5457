SPECIFICATION Spec
CONSTANTS
    A = A
    B = B
    Systems <- MCSystems
    Routings <- MCRoutings
    Configs <- MCConfigs
    MaxTgid = 2
    MaxTime = 2
INVARIANT LegsDoNotMultiply
PROPERTIES SessionsAreSeen OtherLegsStay
