SPECIFICATION Spec
CONSTANTS
    FirstAddress <- MCFirstAddress
    Devices = 2
    FrameCounters = {258, 65535}
    Answers <- MCAnswers
    MaxCommands = 3
    Payload <- MCPayload
INVARIANTS TypeOK RoundTrip NothingInvented OneOwner
