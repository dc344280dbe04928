\* One byte on the Hub, one on the Node, and a promotion.
SPECIFICATION RestoreSpec
CONSTANTS
    Reports <- MCReports
    MaxLocal = 1
    MaxRemote = 1
PROPERTY PromotionKeepsUsage
CHECK_DEADLOCK FALSE
