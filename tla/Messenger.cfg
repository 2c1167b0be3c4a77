SPECIFICATION FairSpec
CONSTANTS
    incident = incident
    unmarked = unmarked
    signal = signal
    reminder = reminder
    Events = {incident, unmarked}
    Incidents = {incident}
    Reminders = {unmarked}
    MessagesOf <- MCMessagesOf
    Channel <- MCChannel
    Chats = {c1, c2}
    None = None
    MaxSendAttempts = 2
    BatchLimit = 2
    MaxLost = 1
    MaxCrashes = 1
INVARIANTS
    OneRecipient
    RepeatsAreExplained
PROPERTIES
    QueuedIsSettled
CHECK_DEADLOCK FALSE
