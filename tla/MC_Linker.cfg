CONSTANTS
  Names <- MCNames
  Main = "main"
  Types <- MCTypes
  Function = "function"
  Specs <- MCSpecs
  Sizes <- MCSizes
  Inputs <- MCInputs
  NoSymbol = NoSymbol
SPECIFICATION Spec
INVARIANTS TypeOK LinkInv ReferencesResolve EmittedOnce DeclarationsAgree
PROPERTIES KeptStable ImplementsLinkSpec
