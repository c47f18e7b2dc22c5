CONSTANTS
    MaxPublish = 1
    MaxDrops = 0
    MaxRestarts = 1
    MaxKills = 0
SPECIFICATION Spec
PROPERTY TopicsActive
