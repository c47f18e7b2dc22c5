CONSTANTS
    MaxPublish = 2
    MaxDrops = 2
    MaxRestarts = 1
    MaxKills = 1
SPECIFICATION Spec
INVARIANT TypeOK
INVARIANT NoGap
PROPERTY Delivered
PROPERTY NoticedIsRepaired
PROPERTY SessionKeepsTopic
