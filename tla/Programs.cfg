CONSTANTS
  Senders = {s1, s2}
  Receivers = {r1, r2}
  NonBlocking = {s2, r2}
  Listeners = {p1}
  Prios = {1, 2}
  mq_maxmsg = 3
  MaxSends = 5
SPECIFICATION MCSpec
INVARIANTS NobodyWaits  ClientsServed DoorsRight  SemsKeepValue QueueWatched 
PROPERTY PriorityOrder
