SPECIFICATION FairSpec
CONSTANTS
  Hosts = {"desktop", "web"}
  MaxRequests = 4
CHECK_DEADLOCK FALSE
INVARIANTS TypeOK NeverTorn StoreFollowsPage
PROPERTIES NeverOlder QueueDrains
