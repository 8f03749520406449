CONSTANTS Count = 5 QueueLimit = 2 MaxFaults = 3
SPECIFICATION FairSpec
INVARIANTS TypeOK ReturnedMeansDelivered TelemetryLossIsBounded OneCopyMorePerFailure
PROPERTIES EverythingHandedOver
CHECK_DEADLOCK FALSE
