CONSTANTS
  None = None
  Absent = Absent
  Null = Null
  BadAddress = {"bad"}
  LoopbackAddress = {"loop"}
  ReservedAddress = {"rsvd"}
  AnyAddress = "zero"
  OddNetwork = {"odd"}
  TextBelow <- MCTextBelow
  MaxAsn = 3
  MaxArea = 2
  MaxShort = 9
  MaxOctet = 1
  Types = {"cisco_ios"}
  DeviceNotations = {"cidr"}
  NeedsCommit = {"cisco_xr", "junos"}
  MaxDeploys = 2
  Drafts <- MCDrafts
  Requests <- MCRequests
  Inside <- MCInside
SPECIFICATION Spec
INVARIANT
  OnlyValidIsPushed
CHECK_DEADLOCK FALSE
