\* Three clients: two of them fail at any time, the third does not.
SPECIFICATION ProxySpec
CONSTANTS
  MaxConnects = 3
  Probe = 2
INVARIANTS OneReceiver FirstUnitIsSps
PROPERTIES Recovers
\* The behaviour ends when the proxy is destroyed or the process faults.
CHECK_DEADLOCK FALSE
