------------------------------ MODULE AppHand -------------------------------
(*****************************************************************************)
(* The application protocol handshake, which selects DIN 70121 before        *)
(* anything else is said: appHandEXIDatatypes.h and .c, its decoder and its  *)
(* encoder, in the notation of the modules DinDatatypes, DinDecoder and      *)
(* DinEncoder.                                                               *)
(*****************************************************************************)
EXTENDS ExiGrammar

appHandAppProtocolType ==
  Elements(<<>>,
    All(<<
      Field("ProtocolNamespace", Characters), Field("VersionNumberMajor", Unsigned(32)),
      Field("VersionNumberMinor", Unsigned(32)), Field("SchemaID", Ranged(0, 255)),
      Field("Priority", Ranged(1, 20))>>))
appHandAnonType_supportedAppProtocolRes ==
  Elements(<<>>, All(<<Field("ResponseCode", Enum(3)), Opt(Marked("SchemaID", Ranged(0, 255)))>>))
appHandAnonType_supportedAppProtocolReq ==
  Elements(<<>>, UpTo(20, Array("AppProtocol", Struct("appHandAppProtocolType"), 5)))
appHandEXIDocument == Elements(<<>>, One(<<
  Marked("supportedAppProtocolReq", Struct("appHandAnonType_supportedAppProtocolReq")),
  Marked("supportedAppProtocolRes", Struct("appHandAnonType_supportedAppProtocolRes"))>>))

AppHandTypes == [
  appHandAppProtocolType |-> appHandAppProtocolType,
  appHandAnonType_supportedAppProtocolRes |-> appHandAnonType_supportedAppProtocolRes,
  appHandAnonType_supportedAppProtocolReq |-> appHandAnonType_supportedAppProtocolReq,
  appHandEXIDocument |-> appHandEXIDocument]

init_appHandEXIDocument == {"supportedAppProtocolReq", "supportedAppProtocolRes"}
init_appHandAnonType_supportedAppProtocolReq == {"AppProtocol"}
init_appHandAnonType_supportedAppProtocolRes == {"SchemaID"}
AppHandInit == [
  appHandEXIDocument |-> init_appHandEXIDocument,
  appHandAnonType_supportedAppProtocolReq |-> init_appHandAnonType_supportedAppProtocolReq,
  appHandAnonType_supportedAppProtocolRes |-> init_appHandAnonType_supportedAppProtocolRes]

decode_appHandAppProtocolType == <<
  Row(0, 1, <<Elem("ProtocolNamespace", Characters, 1)>>),
  Row(1, 1, <<Elem("VersionNumberMajor", Unsigned(32), 2)>>),
  Row(2, 1, <<Elem("VersionNumberMinor", Unsigned(32), 3)>>),
  Row(3, 1, <<Elem("SchemaID", NBit(8), 4)>>), Row(4, 1, <<Elem("Priority", NBitFrom(5, 1), 5)>>),
  Last(5)>>
decode_appHandAnonType_supportedAppProtocolReq ==
  LET AppProtocol(to) == Item("AppProtocol", Struct("appHandAppProtocolType"), 5, to)
  IN  <<Row(7, 1, <<AppProtocol(8)>>)>>
        \o [i \in 1..18 |-> Row(7 + i, 2, <<AppProtocol(8 + i), End>>)]
        \o <<Row(26, 2, <<AppProtocol(5), End>>), Last(5)>>
decode_appHandAnonType_supportedAppProtocolRes == <<
  Row(27, 1, <<Elem("ResponseCode", NBit(2), 28)>>),
  Row(28, 2, <<OptElem("SchemaID", NBit(8), 5), End>>), Last(5)>>
decode_appHandExiDocument == <<Row(0, 2, <<
  OptElem("supportedAppProtocolReq", Struct("appHandAnonType_supportedAppProtocolReq"), 1),
  OptElem("supportedAppProtocolRes", Struct("appHandAnonType_supportedAppProtocolRes"), 1)>>)>>

AppHandDecoders == [
  appHandAppProtocolType |-> decode_appHandAppProtocolType,
  appHandAnonType_supportedAppProtocolReq |-> decode_appHandAnonType_supportedAppProtocolReq,
  appHandAnonType_supportedAppProtocolRes |-> decode_appHandAnonType_supportedAppProtocolRes,
  appHandEXIDocument |-> decode_appHandExiDocument]

encode_appHandAppProtocolType == <<
  Row(0, 1, <<Elem("ProtocolNamespace", Characters, 1)>>),
  Row(1, 1, <<Elem("VersionNumberMajor", Unsigned(32), 2)>>),
  Row(2, 1, <<Elem("VersionNumberMinor", Unsigned(32), 3)>>),
  Row(3, 1, <<Elem("SchemaID", NBit(8), 4)>>), Row(4, 1, <<Elem("Priority", NBitFrom(5, 1), 5)>>),
  Last(5)>>
encode_appHandAnonType_supportedAppProtocolReq ==
  LET AppProtocol(to) == Item("AppProtocol", Struct("appHandAppProtocolType"), 5, to)
  IN  <<Row(7, 1, <<AppProtocol(8)>>)>>
        \o [i \in 1..18 |-> Row(7 + i, 2, <<AppProtocol(8 + i), End>>)]
        \o <<Row(26, 2, <<AppProtocol(5), End>>), Last(5)>>
encode_appHandAnonType_supportedAppProtocolRes == <<
  Row(27, 1, <<Elem("ResponseCode", NBit(2), 28)>>),
  Row(28, 2, <<OptElem("SchemaID", NBit(8), 5), End>>), Last(5)>>
encode_appHandExiDocument == <<Row(0, 2, <<
  OptElem("supportedAppProtocolReq", Struct("appHandAnonType_supportedAppProtocolReq"), 1),
  OptElem("supportedAppProtocolRes", Struct("appHandAnonType_supportedAppProtocolRes"), 1)>>)>>

AppHandEncoders == [
  appHandAppProtocolType |-> encode_appHandAppProtocolType,
  appHandAnonType_supportedAppProtocolReq |-> encode_appHandAnonType_supportedAppProtocolReq,
  appHandAnonType_supportedAppProtocolRes |-> encode_appHandAnonType_supportedAppProtocolRes,
  appHandEXIDocument |-> encode_appHandExiDocument]
=============================================================================
