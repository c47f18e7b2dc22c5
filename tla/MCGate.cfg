CONSTANTS
    SecondsPerDay = 1
    IntValues = 16
    Garbage = Garbage
    Malformed = Garbage
    Payloads <- MCPayloads
    QueueSize = 2
    MaxClock = 1
    MaxEvents = 3
    MaxCrashes = 1
    MaxAdrift = 1
SPECIFICATION ReceiverSpec
INVARIANT TypeOK
INVARIANT XmlAddsUp
INVARIANT PushedOncePerValidation
INVARIANT OfflineRefusalIsRight
INVARIANT XmlCoversReport
PROPERTY ReportBackOnlyIfLate
PROPERTY CountsReported
PROPERTY TicketsRecorded
