SPECIFICATION MaskSpec
CONSTANTS
  None = None
  Phone = Phone
  LocProxy = LocProxy
  ExtPhone = ExtPhone
  Provider = Provider
  Far = Far
  Hops = {h1, h2}
  Ports <- MCPorts
  Descriptions <- MCDescriptions
INVARIANTS
  PhoneStaysHidden
  AnswersComeBack
  RoutesAreRecorded
  MediaIsOurs
  
