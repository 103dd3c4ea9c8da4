SPECIFICATION AlarmSpec
CONSTANTS
    AlarmWorkers = {r1}
    MaxRequests = 1
    MaxFailures = 0
PROPERTIES
    ShelvingSuppresses
