SPECIFICATION Spec
CONSTANTS
    Configs <- MCConfigs
    MaxTime = 8
    MaxItems = 6
INVARIANT SoundConfigsDoNotFail
PROPERTIES DeliveredOnTime NothingPassedOver
