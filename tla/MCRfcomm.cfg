SPECIFICATION Spec
CONSTANTS
  CreditMax = 4
  CreditLow = 1
  CreditInitial = 3
  RxCritical = 4
  TxCritical = 2
  MaxPorts = 2
  Chans = {1, 2, 3}
  Workloads <- MCWorkloads
INVARIANTS CreditsConserved NoStall PortsIndexed UpIsTrue EndsAgree
CHECK_DEADLOCK FALSE
