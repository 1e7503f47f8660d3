SPECIFICATION Spec
CONSTANTS
    Devices = {laptop, desk}
    Trusted = {laptop, desk}
    NoDevice = none
    RegistryCapacity = 2
    ChannelCapacity = 2
    MaxOpen = 2
    MaxExpiries = 0
    MaxFailures = 0
    MaxDepartures = 0
PROPERTIES
    ConnectedNotRedialled
CHECK_DEADLOCK FALSE
