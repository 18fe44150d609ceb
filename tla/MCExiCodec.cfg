SPECIFICATION Spec
CONSTANTS
  Schema <- MCSchema
  Decoders <- MCDecoders
  Encoders <- MCEncoders
  InitSets <- MCInitSets
  MaxLists = 3
INVARIANTS TypeOK InStep ArraysFit FlagsTellWhatCame RequestsFit AgreedBeforeUse
PROPERTIES FullOnlyAtTheLimit FreshAnswer RequestsGoOut
