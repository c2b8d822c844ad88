CONSTANTS
  None = None
  Absent = Absent
  Null = Null
  BadAddress = {"bad"}
  LoopbackAddress = {"loop"}
  ReservedAddress = {"rsvd"}
  AnyAddress = "zero"
  OddNetwork = {"odd"}
  TextBelow <- MCTextBelow
  MaxAsn = 3
  MaxArea = 2
  MaxShort = 9
  MaxOctet = 1
  Types = {"cisco_xr", "cisco_ios", "junos", "arista_eos", "nokia_sros"}
  DeviceNotations = {"cidr"}
  NeedsCommit = {"cisco_xr", "junos"}
  MaxDeploys = 3
  Drafts <- MCDrafts
  Requests <- MCRequests
  Inside <- MCInside
SPECIFICATION Spec
INVARIANTS
  TypeOK
  ValidIsSound
  SchemaAgrees
  VettedIsTaken
  BuildSaysDesired
  SuccessTakes
  VerifiedIsPeered
PROPERTY
  CutsOnlyChanged
CHECK_DEADLOCK FALSE
