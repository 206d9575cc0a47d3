CONSTANTS
  Types <- MCTypes
  Abstract <- MCAbstract
  Base <- MCBase
  Interfaces <- MCInterfaces
  Definition <- MCDefinition
  Open <- MCOpen
  Requested <- MCRequested
  Arguments <- MCArguments
  Defaults <- MCDefaults
  Pairs <- MCPairs
  Supers <- MCSupers
  NoType <- MCNone
SPECIFICATION Spec
INVARIANTS TypeOK LookupsAgree
PROPERTY ImplementsTypeMap
CHECK_DEADLOCK FALSE
