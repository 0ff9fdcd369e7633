SPECIFICATION Spec
CONSTANTS
    Minutes = 3
    Off = Off
    MaxDay = 3
    MaxRestarts = 1
PROPERTY AcceptedTimeRuns
