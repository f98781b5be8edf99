\* Reused descriptors, full queues, failing listeners and starts, under fairness.
SPECIFICATION FairSpec
CONSTANTS
  u1 = u1
  t1 = t1
  hu1 = hu1
  ht1 = ht1
  ht2 = ht2
  fd1 = fd1
  fd2 = fd2
  fd3 = fd3
  Udp = {u1}
  Tcp = {t1}
  UdpWorkers = {hu1}
  TcpWorkers = {ht1, ht2}
  UdpCapacity = 1
  TcpCapacity = 1
  Fds = {fd1, fd2, fd3}
INVARIANTS
  ClientsTracked
  ReplySocketOpen
  NothingLeft
PROPERTIES
  Implements
  LifecycleEnds
